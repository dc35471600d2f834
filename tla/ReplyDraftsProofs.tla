------------------------- MODULE ReplyDraftsProofs -------------------------
(***************************************************************************)
(* Proofs about ReplyDrafts: its types, and that a message is answered     *)
(* once.  First what keeps transactions apart (the rows each has inserted, *)
(* the locks each holds, the job each works on); then the count itself:    *)
(* what a message's customer got, the drafts that may still reach them and *)
(* the draft its job may still make are together at most one of a kind,    *)
(* and two more for each fault.                                            *)
(***************************************************************************)
EXTENDS ReplyDrafts, FiniteSetTheorems, TLAPS

Transactions == [
    at : {"idle", "open", "supersede", "think", "hold", "send", "tail", "commit", "fail"},
    msg : 0 .. MaxMessages, mode : Modes \union {"observe"},
    stale : SUBSET Drafts, fresh : SUBSET Drafts, out : 0 .. MaxDrafts, sent : SUBSET Drafts]

Requests == [at : {"idle", "send", "commit"}, draft : 0 .. MaxDrafts]

\* Rows are numbered as they are inserted; one that is not committed belongs to the one
\* transaction that inserted it, which sends it at most once.
RowInv ==
    /\ \A d \in Drafts : status[d] # "none" \/ delivered[d] > 0 => d <= made
    /\ \A w \in Workers :
        /\ worker[w].fresh \subseteq 1 .. made /\ worker[w].sent \subseteq worker[w].fresh
        /\ \A d \in worker[w].fresh : status[d] = "none"
        /\ \A d \in worker[w].stale : status[d] # "none"
        /\ At(w, "send") => worker[w].out \in worker[w].fresh \ worker[w].sent
    /\ \A v, w \in Workers : v # w => worker[v].fresh \intersect worker[w].fresh = {}
    /\ \A d \in sweep : status[d] # "none"

\* An approval holds its draft, still pending; a worker past its flush holds what it superseded.
LockInv ==
    /\ \A p \in People : person[p].at # "idle" =>
        /\ person[p].draft \in Drafts
        /\ lock[person[p].draft] = p /\ status[person[p].draft] = "pending"
    /\ \A w \in Workers :
        /\ At(w, "open") => worker[w].stale = {}
        /\ worker[w].at \notin {"idle", "open", "supersede"} =>
                \A d \in worker[w].stale : lock[d] = w

\* A running job has at most one worker; a job exists once its message has arrived.
JobInv ==
    /\ \A w \in Workers :
        IF At(w, "idle") THEN worker[w] = Idle
        ELSE /\ worker[w].msg \in Messages /\ job[worker[w].msg] = "running"
             /\ \A v \in Workers : v # w => worker[v].msg # worker[w].msg
    /\ \A m \in Messages : m > arrived => job[m] = "absent"

DraftInv == TypeOK /\ RowInv /\ LockInv /\ JobInv

-----------------------------------------------------------------------------
(***************************************************************************)
(* What a message may still be answered with                               *)
(***************************************************************************)

\* The draft has been sent by an approval that has not committed that yet.
Spent(d) == \E p \in People : person[p].at = "commit" /\ person[p].draft = d

\* A draft that may still reach the customer: it waits for approval, or it belongs to a
\* transaction that has not sent it.
Open(d) ==
    \/ status[d] = "pending" /\ ~Spent(d)
    \/ \E w \in Workers : d \in worker[w].fresh \ worker[w].sent

OpenAbout(m, k) == {d \in Drafts : about[d] = m /\ kind[d] = k /\ Open(d)}

\* The job of m may still insert a draft of kind k.
WorkerMayDraft(w, k) ==
    worker[w].at \in {"open", "supersede", "think", "fail"} \/ (At(w, "hold") /\ k = "line")

MayDraft(m, k) ==
    \/ job[m] \in {"absent", "pending"}
    \/ job[m] = "running" /\ \A w \in Workers : worker[w].msg # m
    \/ \E w \in Workers : worker[w].msg = m /\ WorkerMayDraft(w, k)

Due(m, k) == IF MayDraft(m, k) THEN 1 ELSE 0

Balanced(m, k) ==
    /\ IsFiniteSet(Received(m, k))
    /\ Cardinality(Received(m, k)) + Cardinality(OpenAbout(m, k)) + Due(m, k) <= 1 + 2 * faults

AnswerInv == \A m \in Messages, k \in Kinds : Balanced(m, k)

-----------------------------------------------------------------------------
(***************************************************************************)
(* Types                                                                   *)
(***************************************************************************)

Places == {"idle", "open", "supersede", "think", "hold", "send", "tail", "commit", "fail"}

LEMMA WorkerTypes == ASSUME TypeOK PROVE worker \in [Workers -> Transactions]
BY DEF TypeOK, Transactions

LEMMA Limits == /\ MaxMessages \in Nat /\ MaxDrafts \in Nat /\ MaxFaults \in Nat
                /\ Messages \subseteq Nat /\ Drafts \subseteq Nat
BY ReplyDraftsAssumption DEF Messages, Drafts

\* A worker that only moves on keeps the rest of its transaction.
LEMMA Moved ==
    ASSUME TypeOK, NEW w \in Workers, NEW place \in Places, Move(w, place)
    PROVE  /\ worker' \in [Workers -> Transactions]
           /\ worker'[w] = [worker[w] EXCEPT !.at = place]
           /\ \A v \in Workers : v # w => worker'[v] = worker[v]
BY WorkerTypes DEF Move, Transactions, Places

\* A new row is the next one, and the transaction's own.
LEMMA Inserted ==
    ASSUME TypeOK, NEW w \in Workers, NEW k \in Kinds, NEW place \in Places, Insert(w, k, place)
    PROVE  /\ worker' \in [Workers -> Transactions]
           /\ made' = made + 1 /\ made' \in Drafts /\ {made, made'} \subseteq 0 .. MaxDrafts
           /\ about' \in [Drafts -> 0 .. MaxMessages] /\ about'[made'] = worker[w].msg
           /\ kind' \in [Drafts -> Kinds] /\ kind'[made'] = k
           /\ \A d \in Drafts : d # made' => about'[d] = about[d] /\ kind'[d] = kind[d]
           /\ worker'[w] = [worker[w] EXCEPT !.at = place, !.out = made',
                                             !.fresh = worker[w].fresh \union {made'}]
           /\ \A v \in Workers : v # w => worker'[v] = worker[v]
<1>1. made < MaxDrafts /\ made' = made + 1 /\ made \in 0 .. MaxDrafts
  BY DEF Insert, TypeOK
<1>2. made' \in Drafts /\ made + 1 \in 0 .. MaxDrafts
  BY <1>1, Limits DEF Drafts
<1>3. worker[w] \in Transactions
  BY WorkerTypes
<1>4. worker' = [worker EXCEPT ![w] = [worker[w] EXCEPT !.at = place, !.out = made + 1,
                                            !.fresh = worker[w].fresh \union {made + 1}]]
  BY WorkerTypes, <1>3 DEF Insert, Transactions
<1>5. [worker[w] EXCEPT !.at = place, !.out = made + 1,
                        !.fresh = worker[w].fresh \union {made + 1}] \in Transactions
  BY <1>1, <1>2, <1>3 DEF Transactions, Places
<1>6. worker[w].msg \in 0 .. MaxMessages
  BY <1>3 DEF Transactions
<1>7. /\ about' \in [Drafts -> 0 .. MaxMessages] /\ about'[made'] = worker[w].msg
      /\ kind' \in [Drafts -> Kinds] /\ kind'[made'] = k
      /\ \A d \in Drafts : d # made' => about'[d] = about[d] /\ kind'[d] = kind[d]
  BY <1>1, <1>2, <1>6 DEF Insert, TypeOK
<1> QED
  BY <1>1, <1>2, <1>4, <1>5, <1>7, WorkerTypes

\* What becomes of the workers, by itself.
LEMMA InsertedRow ==
    ASSUME TypeOK, NEW w \in Workers, NEW k \in Kinds, NEW place \in Places, Insert(w, k, place)
    PROVE  /\ worker'[w] = [worker[w] EXCEPT !.at = place, !.out = made',
                                             !.fresh = worker[w].fresh \union {made'}]
           /\ \A v \in Workers : v # w => worker'[v] = worker[v]
<1>1. worker \in [Workers -> Transactions] /\ worker[w] \in Transactions
  BY WorkerTypes
<1>2. worker' = [worker EXCEPT ![w] = [worker[w] EXCEPT !.at = place, !.out = made',
                                            !.fresh = worker[w].fresh \union {made'}]]
  BY <1>1 DEF Insert, Transactions
<1> QED
  BY <1>1, <1>2

\* The same, field by field.
LEMMA MovedFields ==
    ASSUME TypeOK, NEW w \in Workers, NEW place \in Places, Move(w, place)
    PROVE  /\ worker'[w].at = place /\ worker'[w].msg = worker[w].msg
           /\ worker'[w].stale = worker[w].stale /\ worker'[w].fresh = worker[w].fresh
           /\ worker'[w].sent = worker[w].sent
           /\ \A v \in Workers : v # w => worker'[v] = worker[v]
<1>1. /\ worker'[w] = [worker[w] EXCEPT !.at = place]
      /\ \A v \in Workers : v # w => worker'[v] = worker[v]
  BY Moved
<1>2. worker[w] \in Transactions
  BY WorkerTypes
<1> QED
  BY <1>1, <1>2 DEF Transactions

LEMMA InsertedFields ==
    ASSUME TypeOK, NEW w \in Workers, NEW k \in Kinds, NEW place \in Places, Insert(w, k, place)
    PROVE  /\ worker'[w].at = place /\ worker'[w].msg = worker[w].msg
           /\ worker'[w].stale = worker[w].stale /\ worker'[w].sent = worker[w].sent
           /\ worker'[w].fresh = worker[w].fresh \union {made'}
           /\ \A v \in Workers : v # w => worker'[v] = worker[v]
<1>1. worker'[w] = [worker[w] EXCEPT !.at = place, !.out = made',
                                     !.fresh = worker[w].fresh \union {made'}]
  BY InsertedRow
<1>2. \A v \in Workers : v # w => worker'[v] = worker[v]
  BY InsertedRow
<1>3. worker[w] \in Transactions
  BY WorkerTypes
<1> DEFINE new == [worker[w] EXCEPT !.at = place, !.out = made',
                                    !.fresh = worker[w].fresh \union {made'}]
<1>4. /\ new.at = place /\ new.msg = worker[w].msg
      /\ new.stale = worker[w].stale /\ new.sent = worker[w].sent
      /\ new.fresh = worker[w].fresh \union {made'}
  BY <1>3 DEF Transactions
<1> QED
  BY <1>1, <1>2, <1>4

\* The first transaction of a worker, and the last thing one does.
LEMMA IdleType == Idle \in Transactions
BY Limits DEF Idle, Transactions

\* What an ended transaction leaves.
LEMMA Ended ==
    ASSUME TypeOK, NEW w \in Workers, worker' = [worker EXCEPT ![w] = Idle]
    PROVE  /\ worker' \in [Workers -> Transactions]
           /\ worker'[w] = Idle
           /\ \A v \in Workers : v # w => worker'[v] = worker[v]
BY WorkerTypes, IdleType

\* Locks that are given back are given back by their holder.
LEMMA Released ==
    ASSUME TypeOK, NEW holder, Release(holder)
    PROVE  /\ lock' \in [Drafts -> Workers \union People \union {None}]
           /\ \A d \in Drafts : lock'[d] = IF lock[d] = holder THEN None ELSE lock[d]
BY DEF TypeOK, Release

LEMMA FlushedType ==
    ASSUME TypeOK, NEW w \in Workers, status' = Flushed(w)
    PROVE  /\ status' \in [Drafts -> Statuses]
           /\ \A d \in Drafts : status'[d] =
                CASE d \in worker[w].stale -> "superseded"
                  [] d \in worker[w].sent -> "sent"
                  [] d \in worker[w].fresh \ worker[w].sent -> "pending"
                  [] OTHER -> status[d]
<1>1. \A d \in Drafts : status[d] \in Statuses
  BY DEF TypeOK
<1>2. \A d \in Drafts : Flushed(w)[d] =
                CASE d \in worker[w].stale -> "superseded"
                  [] d \in worker[w].sent -> "sent"
                  [] d \in worker[w].fresh \ worker[w].sent -> "pending"
                  [] OTHER -> status[d]
  BY DEF Flushed
<1>3. \A d \in Drafts : Flushed(w)[d] \in Statuses
  BY <1>1, <1>2 DEF Statuses
<1>4. DOMAIN Flushed(w) = Drafts /\ Flushed(w) = [d \in Drafts |-> Flushed(w)[d]]
  BY DEF Flushed
<1>5. status' \in [Drafts -> Statuses]
  BY <1>3, <1>4
<1> QED
  BY <1>2, <1>5

LEMMA TypeInit == Init => TypeOK
BY Limits, IdleType DEF Init, TypeOK, Transactions, AtDesk, Statuses, Kinds, Idle, Messages, Drafts

\* Every step keeps the types.
LEMMA TypeNext == DraftInv /\ [Next]_vars => TypeOK'
<1> SUFFICES ASSUME DraftInv, [Next]_vars PROVE TypeOK'
  OBVIOUS
<1> USE DEF conversation, queue, rows
<1>0. TypeOK /\ worker \in [Workers -> Transactions]
  BY WorkerTypes DEF DraftInv
<1>1. CASE UNCHANGED vars
  BY <1>0, <1>1 DEF vars, TypeOK
<1>2. CASE Arrive
  BY <1>0, <1>2, Limits DEF Arrive, TypeOK, Messages
<1>3. ASSUME NEW m \in Messages, WindowCloses(m) PROVE TypeOK'
  BY <1>0, <1>3 DEF WindowCloses, TypeOK
<1>4. ASSUME NEW m \in Messages, Reclaim(m) PROVE TypeOK'
  BY <1>0, <1>4 DEF Reclaim, TypeOK
<1>5. ASSUME NEW w \in Workers, Claim(w) PROVE TypeOK'
  <2>1. PICK m \in Messages :
            /\ job' = [job EXCEPT ![m] = "running"]
            /\ tries' = [tries EXCEPT ![m] = @ + 1]
            /\ worker' = [worker EXCEPT ![w] = [Idle EXCEPT !.at = "open", !.msg = m]]
    BY <1>5 DEF Claim
  <2>2. [Idle EXCEPT !.at = "open", !.msg = m] \in Transactions
    <3>1. m \in 0 .. MaxMessages
      BY <2>1, Limits DEF Messages
    <3> QED
      BY <3>1, IdleType DEF Transactions
  <2>3. worker' \in [Workers -> Transactions]
    BY <1>0, <2>1, <2>2
  <2> QED
    BY <1>0, <1>5, <2>1, <2>3, Limits DEF Claim, TypeOK, Transactions
<1>6. ASSUME NEW w \in Workers, Skip(w) PROVE TypeOK'
  <2>1. worker' \in [Workers -> Transactions]
    BY <1>0, <1>6, Moved DEF Skip, Places
  <2> QED
    BY <1>0, <1>6, <2>1 DEF Skip, TypeOK, Transactions
<1>7. ASSUME NEW w \in Workers, Emergency(w) PROVE TypeOK'
  <2>1. Insert(w, "line", "send") /\ "line" \in Kinds /\ "send" \in Places
    BY <1>7 DEF Emergency, Kinds, Places
  <2> QED
    BY <1>0, <1>7, <2>1, Inserted DEF Emergency, TypeOK, Transactions
<1>8. ASSUME NEW w \in Workers, Begin(w) PROVE TypeOK'
  <2>1. PICK autonomy \in Modes : worker' = [worker EXCEPT
            ![w] = [worker[w] EXCEPT !.at = "supersede", !.mode = autonomy,
                                     !.stale = PendingBefore(worker[w].msg)]]
    BY <1>0, <1>8 DEF Begin
  <2>2. PendingBefore(worker[w].msg) \in SUBSET Drafts
    BY DEF PendingBefore
  <2>3. worker[w] \in Transactions
    BY <1>0
  <2>4. [worker[w] EXCEPT !.at = "supersede", !.mode = autonomy,
                          !.stale = PendingBefore(worker[w].msg)] \in Transactions
    BY <2>2, <2>3 DEF Transactions
  <2>5. worker' \in [Workers -> Transactions]
    BY <1>0, <2>1, <2>4
  <2> QED
    BY <1>0, <1>8, <2>5 DEF Begin, TypeOK, Transactions
<1>9. ASSUME NEW w \in Workers, Supersede(w) PROVE TypeOK'
  <2>1. worker' \in [Workers -> Transactions]
    BY <1>0, <1>9, Moved DEF Supersede, Places
  <2>2. lock' \in [Drafts -> Workers \union People \union {None}]
    BY <1>0, <1>9 DEF Supersede, TypeOK
  <2> QED
    BY <1>0, <1>9, <2>1, <2>2 DEF Supersede, TypeOK, Transactions
<1>10. ASSUME NEW w \in Workers, Think(w) PROVE TypeOK'
  <2>1. \/ \E place \in Places : Move(w, place) /\ UNCHANGED rows
        \/ \E k \in Kinds, place \in Places : Insert(w, k, place)
    BY <1>10 DEF Think, Places, Kinds
  <2>2. /\ worker' \in [Workers -> Transactions]
        /\ made' \in 0 .. MaxDrafts /\ about' \in [Drafts -> 0 .. MaxMessages]
        /\ kind' \in [Drafts -> Kinds]
    <3>1. CASE \E place \in Places : Move(w, place) /\ UNCHANGED rows
      BY <1>0, <3>1, Moved DEF TypeOK
    <3>2. CASE \E k \in Kinds, place \in Places : Insert(w, k, place)
      BY <1>0, <3>2, Inserted
    <3> QED
      BY <2>1, <3>1, <3>2
  <2> QED
    BY <1>0, <1>10, <2>2 DEF Think, TypeOK, Transactions
<1>11. ASSUME NEW w \in Workers, Hold(w) PROVE TypeOK'
  <2>1. Insert(w, "line", "send") /\ "line" \in Kinds /\ "send" \in Places
    BY <1>11 DEF Hold, Kinds, Places
  <2> QED
    BY <1>0, <1>11, <2>1, Inserted DEF Hold, TypeOK, Transactions
<1>12. ASSUME NEW w \in Workers, Send(w) PROVE TypeOK'
  <2>1. worker[w] \in Transactions /\ worker[w].out \in Drafts
    BY <1>0, <1>12 DEF Send, DraftInv, RowInv, Transactions
  <2>2. [worker[w] EXCEPT !.at = "tail", !.sent = worker[w].sent \union {worker[w].out}]
            \in Transactions
    BY <2>1 DEF Transactions
  <2>3. worker' \in [Workers -> Transactions]
    <3>1. CASE \E place \in Places : Move(w, place)
      BY <1>0, <3>1, Moved
    <3>2. CASE worker' = [worker EXCEPT ![w].at = "tail", ![w].sent = @ \union {worker[w].out}]
      BY <1>0, <2>1, <2>2, <3>2
    <3> QED
      BY <1>12, <3>1, <3>2 DEF Send, Places
  <2>4. delivered' \in [Drafts -> Nat]
    BY <1>0, <1>12 DEF Send, TypeOK
  <2>5. faults' \in 0 .. MaxFaults
    BY <1>0, <1>12, Limits DEF Send, TypeOK
  <2> QED
    BY <1>0, <1>12, <2>3, <2>4, <2>5 DEF Send, TypeOK, Transactions
<1>13. ASSUME NEW w \in Workers, Tail(w) PROVE TypeOK'
  <2>1. worker' \in [Workers -> Transactions]
    BY <1>0, <1>13, Moved DEF Tail, Places
  <2>2. faults' \in 0 .. MaxFaults
    BY <1>0, <1>13, Limits DEF Tail, TypeOK
  <2> QED
    BY <1>0, <1>13, <2>1, <2>2 DEF Tail, TypeOK, Transactions
<1>14. ASSUME NEW w \in Workers, Commit(w) \/ Fail(w) PROVE TypeOK'
  <2>1. End(w) /\ job' \in [Messages -> {"absent", "pending", "running", "done", "failed"}]
    BY <1>0, <1>14 DEF Commit, Fail, TypeOK
  <2>2. /\ worker' \in [Workers -> Transactions]
        /\ status' \in [Drafts -> Statuses]
        /\ lock' \in [Drafts -> Workers \union People \union {None}]
    BY <1>0, <2>1, Ended, FlushedType, Released DEF End
  <2> QED
    BY <1>0, <2>1, <2>2 DEF End, TypeOK, Transactions
<1>15. ASSUME NEW w \in Workers, Crash(w) PROVE TypeOK'
  <2>1. /\ worker' \in [Workers -> Transactions]
        /\ lock' \in [Drafts -> Workers \union People \union {None}]
    BY <1>0, <1>15, Ended, Released DEF Crash
  <2>2. faults' \in 0 .. MaxFaults
    BY <1>0, <1>15, Limits DEF Crash, TypeOK
  <2> QED
    BY <1>0, <1>15, <2>1, <2>2 DEF Crash, TypeOK, Transactions
<1>16. ASSUME NEW p \in People, NEW d \in Drafts, Approve(p, d) PROVE TypeOK'
  <2>1. [at |-> "send", draft |-> d] \in Requests
    BY Limits DEF Requests, Drafts
  <2> QED
    BY <1>0, <1>16, <2>1 DEF Approve, OpenForReview, TypeOK, Requests
<1>17. ASSUME NEW p \in People, NEW d \in Drafts, Reject(p, d) PROVE TypeOK'
  BY <1>0, <1>17 DEF Reject, TypeOK, Statuses
<1>18. ASSUME NEW p \in People, ApproveSend(p) PROVE TypeOK'
  <2>1. person' \in [People -> Requests]
    BY <1>0, <1>18, Limits DEF ApproveSend, LeaveDesk, AtDesk, TypeOK, Requests
  <2>2. lock' \in [Drafts -> Workers \union People \union {None}]
    BY <1>0, <1>18, Released DEF ApproveSend, TypeOK
  <2>3. delivered' \in [Drafts -> Nat] /\ faults' \in 0 .. MaxFaults
    BY <1>0, <1>18, Limits DEF ApproveSend, TypeOK
  <2> QED
    BY <1>0, <1>18, <2>1, <2>2, <2>3 DEF ApproveSend, TypeOK, Requests
<1>19. ASSUME NEW p \in People, ApproveCommit(p) PROVE TypeOK'
  <2>1. person' \in [People -> Requests]
    BY <1>0, <1>19, Limits DEF ApproveCommit, LeaveDesk, AtDesk, TypeOK, Requests
  <2>2. lock' \in [Drafts -> Workers \union People \union {None}]
    BY <1>0, <1>19, Released DEF ApproveCommit
  <2>3. status' \in [Drafts -> Statuses] /\ faults' \in 0 .. MaxFaults
    BY <1>0, <1>19, Limits DEF ApproveCommit, TypeOK, Statuses
  <2> QED
    BY <1>0, <1>19, <2>1, <2>2, <2>3 DEF ApproveCommit, TypeOK, Requests
<1>20. CASE SweepRead
  BY <1>0, <1>20 DEF SweepRead, TypeOK
<1>21. CASE SweepWrite
  BY <1>0, <1>21 DEF SweepWrite, TypeOK, Statuses
<1> QED
  BY <1>1, <1>2, <1>3, <1>4, <1>5, <1>6, <1>7, <1>8, <1>9, <1>10, <1>11, <1>12, <1>13,
     <1>14, <1>15, <1>16, <1>17, <1>18, <1>19, <1>20, <1>21 DEF Next, WorkerStep

-----------------------------------------------------------------------------
(***************************************************************************)
(* Rows, locks and jobs                                                    *)
(***************************************************************************)

\* A step that touches no rows, and after which no worker is newly about to send, keeps RowInv.
LEMMA RowSame ==
    ASSUME RowInv, UNCHANGED <<made, status, delivered, sweep>>,
           \A w \in Workers : \/ worker'[w] = worker[w] \/ worker'[w] = Idle
                              \/ /\ worker'[w].fresh = worker[w].fresh
                                 /\ worker'[w].sent = worker[w].sent
                                 /\ worker'[w].stale = worker[w].stale
                                 /\ worker'[w].at # "send"
    PROVE  RowInv'
<1>1. ASSUME NEW w \in Workers
      PROVE  /\ worker'[w].fresh \subseteq worker[w].fresh
             /\ worker'[w].stale \subseteq worker[w].stale
             /\ worker'[w].sent \subseteq worker'[w].fresh
             /\ worker'[w].at = "send" => worker'[w].out \in worker'[w].fresh \ worker'[w].sent
  BY DEF RowInv, Idle, At
<1> QED
  BY <1>1 DEF RowInv, At

\* A new row is nobody else's, and was not sent.
LEMMA RowInsert ==
    ASSUME TypeOK, RowInv, UNCHANGED <<status, delivered, sweep>>,
           NEW w \in Workers, NEW k \in Kinds, NEW place \in Places, Insert(w, k, place)
    PROVE  RowInv'
<1>1. /\ made \in Nat /\ made' = made + 1
      /\ worker'[w] = [worker[w] EXCEPT !.at = place, !.out = made',
                                        !.fresh = worker[w].fresh \union {made'}]
      /\ \A v \in Workers : v # w => worker'[v] = worker[v]
      /\ worker[w] \in Transactions /\ made' \in Drafts
  <2>1. made \in Nat
    BY Limits DEF TypeOK
  <2>2. worker[w] \in Transactions
    BY WorkerTypes
  <2>3. made' = made + 1 /\ made' \in Drafts
    BY Inserted
  <2>4. /\ worker'[w] = [worker[w] EXCEPT !.at = place, !.out = made',
                                          !.fresh = worker[w].fresh \union {made'}]
        /\ \A v \in Workers : v # w => worker'[v] = worker[v]
    BY InsertedRow
  <2> QED
    BY <2>1, <2>2, <2>3, <2>4
<1>2. /\ worker'[w].at = place /\ worker'[w].out = made' /\ worker'[w].sent = worker[w].sent
      /\ worker'[w].fresh = worker[w].fresh \union {made'} /\ worker'[w].stale = worker[w].stale
  BY <1>1 DEF Transactions
<1>3. \A v \in Workers : worker[v].fresh \subseteq 1 .. made /\ made' \notin worker[v].fresh
  BY <1>1 DEF RowInv
<1>4. status[made'] = "none"
  BY <1>1 DEF RowInv
<1>5. \A d \in Drafts : status[d] # "none" \/ delivered[d] > 0 => d <= made'
  BY <1>1, Limits DEF RowInv
<1>6. ASSUME NEW v \in Workers
      PROVE  /\ worker'[v].fresh \subseteq 1 .. made' /\ worker'[v].sent \subseteq worker'[v].fresh
             /\ \A d \in worker'[v].fresh : status[d] = "none"
             /\ \A d \in worker'[v].stale : status[d] # "none"
             /\ worker'[v].at = "send" =>
                    worker'[v].out \in worker'[v].fresh \ worker'[v].sent
  <2>1. CASE v = w
    <3>1. /\ worker[w].fresh \subseteq 1 .. made /\ worker[w].sent \subseteq worker[w].fresh
          /\ \A d \in worker[w].fresh : status[d] = "none"
          /\ \A d \in worker[w].stale : status[d] # "none"
      BY DEF RowInv
    <3>2. worker[w].fresh \union {made'} \subseteq 1 .. made'
      BY <1>1, <3>1
    <3>3. made' \notin worker[w].sent
      BY <1>3, <3>1
    <3> QED
      BY <1>2, <1>4, <2>1, <3>1, <3>2, <3>3
  <2>2. CASE v # w
    BY <1>1, <1>3, <2>2 DEF RowInv, At
  <2> QED
    BY <2>1, <2>2
<1>7. \A u, v \in Workers : u # v => worker'[u].fresh \intersect worker'[v].fresh = {}
  <2>1. \A v \in Workers : worker'[v].fresh = worker[v].fresh
                            \/ (v = w /\ worker'[v].fresh = worker[v].fresh \union {made'})
    BY <1>1, <1>2
  <2>2. \A u, v \in Workers : u # v => worker[u].fresh \intersect worker[v].fresh = {}
    BY DEF RowInv
  <2>3. ASSUME NEW u \in Workers, NEW v \in Workers, u # v
        PROVE  worker'[u].fresh \intersect worker'[v].fresh = {}
    BY <1>3, <2>1, <2>2, <2>3
  <2> QED
    BY <2>3
<1> QED
  BY <1>5, <1>6, <1>7 DEF RowInv, At

\* A row that is there stays there, when a row's status is overwritten.
LEMMA RowStatus ==
    ASSUME RowInv, UNCHANGED <<made, delivered>>, sweep' \in {sweep, {}},
           \A w \in Workers : worker'[w] = worker[w],
           \A d \in Drafts : status'[d] = status[d] \/ (status[d] # "none" /\ status'[d] # "none"),
           worker \in [Workers -> Transactions], sweep \subseteq Drafts
    PROVE  RowInv'
<1>1. \A w \in Workers : worker[w].fresh \subseteq Drafts /\ worker[w].stale \subseteq Drafts
  BY DEF Transactions
<1>2. \A d \in Drafts : status'[d] = "none" <=> status[d] = "none"
  OBVIOUS
<1> QED
  BY <1>1, <1>2 DEF RowInv, At

\* Every step keeps the rows apart.
LEMMA RowNext == DraftInv /\ [Next]_vars => RowInv'
<1> SUFFICES ASSUME DraftInv, [Next]_vars PROVE RowInv'
  OBVIOUS
<1> USE DEF conversation, queue, rows
<1>0. TypeOK /\ RowInv /\ worker \in [Workers -> Transactions]
  BY WorkerTypes DEF DraftInv
<1>1. CASE UNCHANGED vars
  BY <1>0, <1>1, RowSame DEF vars
<1>2. CASE Arrive
  BY <1>0, <1>2, RowSame DEF Arrive
<1>3. ASSUME NEW m \in Messages, WindowCloses(m) \/ Reclaim(m) PROVE RowInv'
  BY <1>0, <1>3, RowSame DEF WindowCloses, Reclaim
<1>4. ASSUME NEW w \in Workers, Claim(w) PROVE RowInv'
  <2>1. worker[w] = Idle
    BY <1>4 DEF Claim, DraftInv, JobInv
  <2>2. PICK m \in Messages : worker' = [worker EXCEPT ![w] = [Idle EXCEPT !.at = "open", !.msg = m]]
    BY <1>4 DEF Claim
  <2>3. /\ worker'[w].fresh = worker[w].fresh /\ worker'[w].sent = worker[w].sent
        /\ worker'[w].stale = worker[w].stale /\ worker'[w].at # "send"
    BY <1>0, <2>1, <2>2 DEF Idle
  <2>4. \A v \in Workers : v # w => worker'[v] = worker[v]
    BY <1>0, <2>2
  <2>5. UNCHANGED <<made, status, delivered, sweep>>
    BY <1>4 DEF Claim
  <2> QED
    BY <1>0, <2>3, <2>4, <2>5, RowSame
<1>5. ASSUME NEW w \in Workers, NEW place \in Places, place # "send", Move(w, place),
             UNCHANGED <<made, status, delivered, sweep>>
      PROVE  RowInv'
  <2>1. /\ worker'[w] = [worker[w] EXCEPT !.at = place]
        /\ \A v \in Workers : v # w => worker'[v] = worker[v]
    BY <1>0, <1>5, Moved
  <2>2. /\ worker'[w].fresh = worker[w].fresh /\ worker'[w].sent = worker[w].sent
        /\ worker'[w].stale = worker[w].stale /\ worker'[w].at # "send"
    BY <1>0, <1>5, <2>1 DEF Transactions
  <2> QED
    BY <1>0, <1>5, <2>1, <2>2, RowSame
<1>6. ASSUME NEW w \in Workers, Skip(w) \/ Supersede(w) \/ Tail(w) PROVE RowInv'
  <2>1. UNCHANGED <<made, status, delivered, sweep>>
    BY <1>6 DEF Skip, Supersede, Tail
  <2>2. CASE UNCHANGED worker
    BY <1>0, <2>1, <2>2, RowSame
  <2>3. CASE \E place \in Places : place # "send" /\ Move(w, place)
    BY <1>5, <2>1, <2>3
  <2> QED
    BY <1>6, <2>2, <2>3 DEF Skip, Supersede, Tail, Places
<1>7. ASSUME NEW w \in Workers, Emergency(w) \/ Hold(w) PROVE RowInv'
  BY <1>0, <1>7, RowInsert DEF Emergency, Hold, Kinds, Places
<1>8. ASSUME NEW w \in Workers, Think(w) PROVE RowInv'
  <2>1. UNCHANGED <<status, delivered, sweep>>
    BY <1>8 DEF Think
  <2>2. CASE (\E place \in Places : place # "send" /\ Move(w, place)) /\ UNCHANGED rows
    BY <1>5, <2>1, <2>2
  <2>3. CASE \E k \in Kinds, place \in Places : Insert(w, k, place)
    BY <1>0, <2>1, <2>3, RowInsert
  <2> QED
    BY <1>8, <2>2, <2>3 DEF Think, Places, Kinds
<1>9. ASSUME NEW w \in Workers, Begin(w) PROVE RowInv'
  <2>1. UNCHANGED <<made, status, delivered, sweep>>
    BY <1>9 DEF Begin
  <2>2. /\ worker'[w].fresh = worker[w].fresh /\ worker'[w].sent = worker[w].sent
        /\ worker'[w].stale = PendingBefore(worker[w].msg) /\ worker'[w].at = "supersede"
        /\ \A v \in Workers : v # w => worker'[v] = worker[v]
    BY <1>0, <1>9 DEF Begin, Transactions
  <2>3. \A d \in worker'[w].stale : status[d] # "none"
    BY <2>2 DEF PendingBefore
  <2>4. ASSUME NEW v \in Workers
        PROVE  /\ worker'[v].fresh = worker[v].fresh
               /\ worker'[v].sent = worker[v].sent
               /\ \A d \in worker'[v].stale : status[d] # "none"
               /\ worker'[v].at = "send" =>
                        worker'[v].out \in worker'[v].fresh \ worker'[v].sent
    BY <1>0, <2>2, <2>3 DEF RowInv, At
  <2> QED
    BY <1>0, <2>1, <2>4 DEF RowInv, At
<1>10. ASSUME NEW w \in Workers, Send(w) PROVE RowInv'
  <2> DEFINE d == worker[w].out
  <2>1. /\ UNCHANGED <<made, status, sweep>>
        /\ d \in worker[w].fresh \ worker[w].sent
    BY <1>0, <1>10 DEF Send, RowInv
  <2>2. d \in Drafts /\ d <= made /\ \A e \in Drafts : delivered[e] \in Nat
    BY <1>0, <2>1, Limits DEF RowInv, Transactions, TypeOK
  <2>3. \A e \in Drafts : e # d => delivered'[e] = delivered[e]
    BY <1>0, <1>10 DEF Send, TypeOK
  <2>4. \A e \in Drafts : status'[e] # "none" \/ delivered'[e] > 0 => e <= made'
    BY <1>0, <2>1, <2>2, <2>3 DEF RowInv
  <2>5. /\ worker'[w].fresh = worker[w].fresh
        /\ worker'[w].sent \in {worker[w].sent, worker[w].sent \union {d}}
        /\ worker'[w].stale = worker[w].stale /\ worker'[w].at # "send"
        /\ \A v \in Workers : v # w => worker'[v] = worker[v]
    <3>1. CASE \E place \in Places : place # "send" /\ Move(w, place)
      <4>1. PICK place \in Places : place # "send" /\ Move(w, place)
        BY <3>1
      <4>2. /\ worker'[w] = [worker[w] EXCEPT !.at = place] /\ place # "send"
            /\ \A v \in Workers : v # w => worker'[v] = worker[v]
        BY <1>0, <4>1, Moved
      <4> QED
        BY <1>0, <4>2 DEF Transactions
    <3>2. CASE worker' = [worker EXCEPT ![w].at = "tail", ![w].sent = @ \union {worker[w].out}]
      BY <1>0, <3>2 DEF Transactions
    <3> QED
      BY <1>10, <3>1, <3>2 DEF Send, Places
  <2>6. ASSUME NEW v \in Workers
        PROVE  /\ worker'[v].fresh = worker[v].fresh
               /\ worker'[v].sent \subseteq worker'[v].fresh
               /\ worker'[v].stale = worker[v].stale
               /\ worker'[v].at = "send" =>
                        worker'[v].out \in worker'[v].fresh \ worker'[v].sent
    BY <1>0, <2>1, <2>5 DEF RowInv, At
  <2> QED
    BY <1>0, <2>1, <2>4, <2>6 DEF RowInv, At
<1>11. ASSUME NEW w \in Workers, Commit(w) \/ Fail(w) PROVE RowInv'
  <2>1. /\ End(w) /\ UNCHANGED <<made, delivered, sweep>>
        /\ worker'[w] = Idle /\ \A v \in Workers : v # w => worker'[v] = worker[v]
    BY <1>0, <1>11, Ended DEF Commit, Fail, End
  <2>2. \A e \in Drafts : status'[e] = status[e] \/ (status'[e] # "none"
            /\ (e \in worker[w].stale \/ e \in worker[w].fresh))
    BY <1>0, <2>1, FlushedType DEF End, RowInv
  <2>3. \A e \in Drafts : status'[e] = "none" => status[e] = "none"
    BY <1>0, <2>2 DEF RowInv
  <2>4. \A e \in Drafts : status'[e] # "none" \/ delivered'[e] > 0 => e <= made'
    <3>1. \A e \in worker[w].stale \union worker[w].fresh : e \in Drafts /\ e <= made
      BY <1>0, Limits DEF RowInv, Transactions, TypeOK
    <3> QED
      BY <1>0, <2>1, <2>2, <3>1 DEF RowInv
  <2>5. ASSUME NEW v \in Workers
        PROVE  /\ worker'[v].fresh \subseteq worker[v].fresh
               /\ worker'[v].sent \subseteq worker'[v].fresh
               /\ \A d \in worker'[v].fresh : status'[d] = "none"
               /\ \A d \in worker'[v].stale : status'[d] # "none"
               /\ worker'[v].at = "send" =>
                        worker'[v].out \in worker'[v].fresh \ worker'[v].sent
    <3>1. CASE v = w
      BY <2>1, <3>1 DEF Idle
    <3>2. CASE v # w
      <4>1. worker'[v] = worker[v] /\ worker[v].fresh \subseteq Drafts
            /\ worker[v].stale \subseteq Drafts
            /\ worker[v].fresh \intersect worker[w].fresh = {}
        BY <1>0, <2>1, <3>2 DEF RowInv, Transactions
      <4>2. \A d \in worker[v].fresh : status'[d] = "none"
        BY <1>0, <2>2, <4>1 DEF RowInv
      <4>3. \A d \in worker[v].stale : status'[d] # "none"
        BY <1>0, <2>3, <4>1 DEF RowInv
      <4> QED
        BY <1>0, <4>1, <4>2, <4>3 DEF RowInv, At
    <3> QED
      BY <3>1, <3>2
  <2>6. \A d \in sweep' : status'[d] # "none"
    BY <1>0, <2>1, <2>3 DEF RowInv, TypeOK
  <2>7. \A u, v \in Workers : u # v => worker'[u].fresh \intersect worker'[v].fresh = {}
    BY <1>0, <2>5 DEF RowInv
  <2>8. \A v \in Workers : worker'[v].fresh \subseteq 1 .. made'
    BY <1>0, <2>1, <2>5 DEF RowInv
  <2> QED
    BY <2>4, <2>5, <2>6, <2>7, <2>8 DEF RowInv, At
<1>12. ASSUME NEW w \in Workers, Crash(w) PROVE RowInv'
  BY <1>0, <1>12, Ended, RowSame DEF Crash
<1>13. ASSUME NEW p \in People, NEW d \in Drafts, Approve(p, d) PROVE RowInv'
  BY <1>0, <1>13, RowSame DEF Approve
<1>14. ASSUME NEW p \in People, NEW d \in Drafts, Reject(p, d) PROVE RowInv'
  <2>1. \A e \in Drafts : status'[e] = status[e] \/ (status[e] # "none" /\ status'[e] # "none")
    BY <1>0, <1>14 DEF Reject, TypeOK
  <2> QED
    BY <1>0, <1>14, <2>1, RowStatus DEF Reject, TypeOK
<1>15. ASSUME NEW p \in People, ApproveSend(p) PROVE RowInv'
  <2> DEFINE d == person[p].draft
  <2>1. d \in Drafts /\ status[d] = "pending"
    BY <1>15 DEF ApproveSend, DraftInv, LockInv
  <2>2. \A e \in Drafts : e # d => delivered'[e] = delivered[e]
    BY <1>0, <1>15 DEF ApproveSend, TypeOK
  <2>3. UNCHANGED <<made, status, sweep, worker>>
    BY <1>15 DEF ApproveSend
  <2>4. \A e \in Drafts : status'[e] # "none" \/ delivered'[e] > 0 => e <= made'
    BY <1>0, <2>1, <2>2, <2>3 DEF RowInv
  <2> QED
    BY <1>0, <2>3, <2>4 DEF RowInv, At
<1>16. ASSUME NEW p \in People, ApproveCommit(p) PROVE RowInv'
  <2> DEFINE d == person[p].draft
  <2>1. d \in Drafts /\ status[d] = "pending"
    BY <1>16 DEF ApproveCommit, DraftInv, LockInv
  <2>2. \A e \in Drafts : status'[e] = status[e] \/ (status[e] # "none" /\ status'[e] # "none")
    BY <1>0, <1>16, <2>1 DEF ApproveCommit, TypeOK
  <2> QED
    BY <1>0, <1>16, <2>2, RowStatus DEF ApproveCommit, TypeOK
<1>17. CASE SweepRead
  <2>1. \A d \in sweep' : status'[d] # "none"
    BY <1>17 DEF SweepRead
  <2> QED
    BY <1>0, <1>17, <2>1 DEF SweepRead, RowInv, At
<1>18. CASE SweepWrite
  <2>1. \A e \in Drafts : status'[e] = status[e] \/ (status[e] # "none" /\ status'[e] # "none")
    BY <1>0, <1>18 DEF SweepWrite, RowInv
  <2> QED
    BY <1>0, <1>18, <2>1, RowStatus DEF SweepWrite, TypeOK
<1> QED
  BY <1>1, <1>2, <1>3, <1>4, <1>6, <1>7, <1>8, <1>9, <1>10, <1>11, <1>12, <1>13,
     <1>14, <1>15, <1>16, <1>17, <1>18 DEF Next, WorkerStep

\* A step keeps the locks in order if it gives none away that somebody needs, and overwrites
\* no draft that an approval holds.
LEMMA LockSame ==
    ASSUME DraftInv, TypeOK',
           \A p \in People : person'[p] = person[p],
           \A p \in People : person[p].at # "idle" =>
                /\ lock'[person[p].draft] = lock[person[p].draft]
                /\ status'[person[p].draft] = status[person[p].draft],
           \A w \in Workers :
                \/ (worker'[w] = worker[w] /\ \A d \in worker[w].stale : lock[d] = w => lock'[d] = w)
                \/ worker'[w] = Idle
                \/ worker'[w].at = "supersede"
                \/ (worker'[w].at # "open" /\ \A d \in worker'[w].stale : lock'[d] = w)
                \/ worker'[w].stale = {}
    PROVE  LockInv'
<1>1. ASSUME NEW p \in People, person'[p].at # "idle"
      PROVE  /\ person'[p].draft \in Drafts
             /\ lock'[person'[p].draft] = p /\ status'[person'[p].draft] = "pending"
  BY <1>1 DEF DraftInv, LockInv
<1>2. ASSUME NEW w \in Workers
      PROVE  /\ worker'[w].at = "open" => worker'[w].stale = {}
             /\ worker'[w].at \notin {"idle", "open", "supersede"} =>
                    \A d \in worker'[w].stale : lock'[d] = w
  <2>1. CASE worker'[w] = worker[w] /\ \A d \in worker[w].stale : lock[d] = w => lock'[d] = w
    BY <2>1 DEF DraftInv, LockInv, At
  <2>2. CASE worker'[w] = Idle
    BY <2>2 DEF Idle
  <2> QED
    BY <2>1, <2>2
<1> QED
  BY <1>1, <1>2 DEF LockInv, At

LEMMA Holders == Workers \intersect People = {} /\ None \notin Workers \union People
BY ReplyDraftsAssumption

\* A transaction that ends gives back its own locks only.
LEMMA LockEnds ==
    ASSUME TypeOK, NEW holder, Release(holder)
    PROVE  \A d \in Drafts : lock[d] # holder => lock'[d] = lock[d]
BY Released

LEMMA LockNext == DraftInv /\ [Next]_vars => LockInv'
<1> SUFFICES ASSUME DraftInv, [Next]_vars PROVE LockInv'
  OBVIOUS
<1> USE DEF conversation, queue, rows
<1>0. /\ TypeOK /\ TypeOK' /\ LockInv /\ worker \in [Workers -> Transactions]
      /\ person \in [People -> Requests]
  BY WorkerTypes, TypeNext DEF DraftInv, TypeOK, Requests
<1>h. \A p \in People : person[p].at # "idle" =>
        /\ person[p].draft \in Drafts
        /\ lock[person[p].draft] = p /\ status[person[p].draft] = "pending"
  BY <1>0 DEF LockInv
<1>s. \A w \in Workers : worker[w].stale \subseteq Drafts /\ worker[w].fresh \subseteq Drafts
  BY <1>0 DEF Transactions
<1>1. CASE UNCHANGED <<worker, person, lock, status>>
  BY <1>0, <1>1, LockSame
<1>2. ASSUME NEW w \in Workers, UNCHANGED <<person, lock, status>>,
             \A v \in Workers : v # w => worker'[v] = worker[v],
             \/ worker'[w] = Idle \/ worker'[w].at = "supersede"
             \/ (worker'[w].at # "open" /\ \A d \in worker'[w].stale : lock[d] = w)
             \/ worker'[w].stale = {}
      PROVE  LockInv'
  BY <1>0, <1>2, LockSame
<1>3. ASSUME NEW w \in Workers, Claim(w) PROVE LockInv'
  <2>1. worker'[w].stale = {} /\ \A v \in Workers : v # w => worker'[v] = worker[v]
    BY <1>0, <1>3 DEF Claim, Idle
  <2> QED
    BY <1>2, <1>3, <2>1 DEF Claim
<1>4. ASSUME NEW w \in Workers, Skip(w) PROVE LockInv'
  <2>1. worker'[w].stale = {} /\ \A v \in Workers : v # w => worker'[v] = worker[v]
    BY <1>0, <1>4, MovedFields DEF Skip, LockInv, At, Places
  <2> QED
    BY <1>2, <1>4, <2>1 DEF Skip
<1>5. ASSUME NEW w \in Workers, Begin(w) PROVE LockInv'
  <2>1. worker'[w].at = "supersede" /\ \A v \in Workers : v # w => worker'[v] = worker[v]
    BY <1>0, <1>5 DEF Begin, Transactions
  <2> QED
    BY <1>2, <1>5, <2>1 DEF Begin
<1>6. ASSUME NEW w \in Workers, Supersede(w) PROVE LockInv'
  <2> DEFINE left == {d \in worker[w].stale : lock[d] # w}
  <2>1. CASE left = {} /\ Move(w, "think") /\ UNCHANGED lock
    <3>1. /\ worker'[w].stale = worker[w].stale /\ worker'[w].at = "think"
          /\ \A v \in Workers : v # w => worker'[v] = worker[v]
      BY <1>0, <2>1, MovedFields DEF Places
    <3> QED
      BY <1>2, <1>6, <2>1, <3>1 DEF Supersede
  <2>2. ASSUME NEW d \in left, lock[d] = None, lock' = [lock EXCEPT ![d] = w], UNCHANGED worker
        PROVE  LockInv'
    <3>1. d \in Drafts /\ \A e \in Drafts : e # d => lock'[e] = lock[e]
      BY <1>0, <1>s, <2>2 DEF TypeOK
    <3>2. \A p \in People : person[p].at # "idle" =>
                lock'[person[p].draft] = lock[person[p].draft]
      BY <1>h, <2>2, <3>1, Holders
    <3>3. \A v \in Workers : \A e \in worker[v].stale : lock[e] = v => lock'[e] = v
      BY <1>s, <2>2, <3>1, Holders
    <3> QED
      BY <1>0, <1>6, <2>2, <3>2, <3>3, LockSame DEF Supersede
  <2> QED
    BY <1>6, <2>1, <2>2 DEF Supersede
<1>7. ASSUME NEW w \in Workers, Emergency(w) PROVE LockInv'
  <2>1. worker'[w].stale = {} /\ \A v \in Workers : v # w => worker'[v] = worker[v]
    <3>1. Insert(w, "line", "send") /\ "line" \in Kinds /\ "send" \in Places /\ worker[w].stale = {}
      BY <1>0, <1>7 DEF Emergency, Kinds, Places, LockInv
    <3> QED
      BY <1>0, <3>1, InsertedFields
  <2> QED
    BY <1>2, <1>7, <2>1 DEF Emergency
<1>8. ASSUME NEW w \in Workers, Think(w) \/ Hold(w) \/ Send(w) \/ Tail(w) PROVE LockInv'
  <2>1. \A d \in worker[w].stale : lock[d] = w
    BY <1>0, <1>8 DEF Think, Hold, Send, Tail, LockInv, At
  <2>2. UNCHANGED <<person, lock, status>>
    BY <1>8 DEF Think, Hold, Send, Tail
  <2>3. /\ worker'[w].stale = worker[w].stale /\ worker'[w].at # "open"
        /\ \A v \in Workers : v # w => worker'[v] = worker[v]
    <3>1. CASE \E place \in Places : place # "open" /\ Move(w, place)
      BY <1>0, <3>1, MovedFields
    <3>2. CASE \E k \in Kinds, place \in Places : place # "open" /\ Insert(w, k, place)
      BY <1>0, <3>2, InsertedFields
    <3>3. CASE worker' = [worker EXCEPT ![w].at = "tail", ![w].sent = @ \union {worker[w].out}]
      BY <1>0, <3>3 DEF Transactions
    <3> QED
      BY <1>8, <3>1, <3>2, <3>3 DEF Think, Hold, Send, Tail, Kinds, Places
  <2> QED
    BY <1>2, <2>1, <2>2, <2>3
<1>9. ASSUME NEW w \in Workers, Release(w), UNCHANGED person,
             worker' = [worker EXCEPT ![w] = Idle],
             \A p \in People : person[p].at # "idle" =>
                 status'[person[p].draft] = status[person[p].draft]
      PROVE  LockInv'
  <2>1. \A d \in Drafts : lock[d] # w => lock'[d] = lock[d]
    BY <1>0, <1>9, LockEnds
  <2>2. \A p \in People : person[p].at # "idle" => lock'[person[p].draft] = lock[person[p].draft]
    BY <1>h, <2>1, Holders
  <2>3. \A v \in Workers : worker'[v] = Idle
            \/ (worker'[v] = worker[v] /\ \A d \in worker[v].stale : lock[d] = v => lock'[d] = v)
    BY <1>0, <1>9, <1>s, <2>1
  <2> QED
    BY <1>0, <1>9, <2>2, <2>3, LockSame
<1>10. ASSUME NEW w \in Workers, Commit(w) \/ Fail(w) PROVE LockInv'
  <2>1. \A d \in worker[w].stale : lock[d] = w
    BY <1>0, <1>10 DEF Commit, Fail, LockInv, At
  <2>2. \A d \in worker[w].fresh : status[d] = "none"
    BY DEF DraftInv, RowInv
  <2>3. ASSUME NEW p \in People, person[p].at # "idle"
        PROVE  status'[person[p].draft] = status[person[p].draft]
    <3>1. person[p].draft \in Drafts /\ person[p].draft \notin worker[w].stale \union worker[w].fresh
      BY <1>h, <2>1, <2>2, <2>3, Holders
    <3>2. status' = Flushed(w) /\ worker[w].sent \subseteq worker[w].fresh
      BY <1>10 DEF Commit, Fail, End, DraftInv, RowInv
    <3> QED
      BY <1>0, <3>1, <3>2, FlushedType
  <2> QED
    BY <1>9, <1>10, <2>3 DEF Commit, Fail, End
<1>11. ASSUME NEW w \in Workers, Crash(w) PROVE LockInv'
  BY <1>9, <1>11 DEF Crash
<1>12. ASSUME NEW p \in People, UNCHANGED worker,
             \A q \in People : q # p => person'[q] = person[q],
             \A q \in People : q # p /\ person[q].at # "idle" =>
                 /\ lock'[person[q].draft] = lock[person[q].draft]
                 /\ status'[person[q].draft] = status[person[q].draft],
             \A w \in Workers : \A d \in worker[w].stale : lock[d] = w => lock'[d] = w,
             person'[p].at # "idle" => /\ person'[p].draft \in Drafts
                                       /\ lock'[person'[p].draft] = p
                                       /\ status'[person'[p].draft] = "pending"
      PROVE  LockInv'
  BY <1>0, <1>h, <1>12 DEF LockInv, At
<1>13. ASSUME NEW p \in People, NEW d \in Drafts, Approve(p, d) PROVE LockInv'
  <2>1. /\ person'[p] = [at |-> "send", draft |-> d] /\ UNCHANGED <<worker, status>>
        /\ \A q \in People : q # p => person'[q] = person[q]
        /\ status[d] = "pending" /\ lock[d] = None
    BY <1>0, <1>13 DEF Approve, OpenForReview
  <2>2. lock'[d] = p /\ \A e \in Drafts : e # d => lock'[e] = lock[e]
    BY <1>0, <1>13 DEF Approve, OpenForReview, TypeOK
  <2>3. \A q \in People : person[q].at # "idle" => lock'[person[q].draft] = lock[person[q].draft]
    BY <1>h, <2>1, <2>2, Holders
  <2>4. \A w \in Workers : \A e \in worker[w].stale : lock[e] = w => lock'[e] = w
    BY <1>s, <2>1, <2>2, Holders
  <2> QED
    BY <1>12, <2>1, <2>2, <2>3, <2>4
<1>14. ASSUME NEW p \in People, NEW d \in Drafts, Reject(p, d) PROVE LockInv'
  <2>1. /\ lock[d] = None /\ UNCHANGED <<lock, worker, person>>
        /\ \A e \in Drafts : e # d => status'[e] = status[e]
    BY <1>0, <1>14 DEF Reject, TypeOK
  <2>2. \A q \in People : person[q].at # "idle" => status'[person[q].draft] = status[person[q].draft]
    BY <1>h, <2>1, Holders
  <2> QED
    BY <1>0, <2>1, <2>2, LockSame
<1>15. ASSUME NEW p \in People, Release(p), LeaveDesk(p), UNCHANGED worker,
             \A e \in Drafts : lock[e] # p => status'[e] = status[e]
       PROVE LockInv'
  <2>1. \A d \in Drafts : lock[d] # p => lock'[d] = lock[d]
    BY <1>0, <1>15, LockEnds
  <2>2. person'[p].at = "idle" /\ \A q \in People : q # p => person'[q] = person[q]
    BY <1>0, <1>15 DEF LeaveDesk, AtDesk
  <2>3. \A q \in People : q # p /\ person[q].at # "idle" =>
                 /\ lock'[person[q].draft] = lock[person[q].draft]
                 /\ status'[person[q].draft] = status[person[q].draft]
    BY <1>h, <1>15, <2>1
  <2>4. \A w \in Workers : \A d \in worker[w].stale : lock[d] = w => lock'[d] = w
    BY <1>s, <2>1, Holders
  <2> QED
    BY <1>12, <1>15, <2>2, <2>3, <2>4
<1>16. ASSUME NEW p \in People, ApproveSend(p) PROVE LockInv'
  <2>1. CASE person' = [person EXCEPT ![p].at = "commit"] /\ UNCHANGED lock
    <3>1. /\ person'[p].at = "commit" /\ person'[p].draft = person[p].draft
          /\ \A q \in People : q # p => person'[q] = person[q]
      BY <1>0, <2>1 DEF Requests
    <3>2. UNCHANGED <<worker, status>> /\ person[p].at # "idle"
      BY <1>16 DEF ApproveSend
    <3> QED
      BY <1>12, <1>h, <2>1, <3>1, <3>2
  <2>2. CASE Release(p) /\ LeaveDesk(p)
    BY <1>15, <1>16, <2>2 DEF ApproveSend
  <2> QED
    BY <1>16, <2>1, <2>2 DEF ApproveSend
<1>17. ASSUME NEW p \in People, ApproveCommit(p) PROVE LockInv'
  <2>1. lock[person[p].draft] = p
    BY <1>h, <1>17 DEF ApproveCommit
  <2>2. \A e \in Drafts : lock[e] # p => status'[e] = status[e]
    BY <1>0, <1>17, <2>1 DEF ApproveCommit, TypeOK
  <2> QED
    BY <1>15, <1>17, <2>2 DEF ApproveCommit
<1>18. CASE SweepWrite
  <2>1. \A e \in Drafts : lock[e] # None => status'[e] = status[e]
    BY <1>18 DEF SweepWrite
  <2>2. \A q \in People : person[q].at # "idle" => status'[person[q].draft] = status[person[q].draft]
    BY <1>h, <2>1, Holders
  <2> QED
    BY <1>0, <1>18, <2>2, LockSame DEF SweepWrite
<1>19. ASSUME NEW m \in Messages, WindowCloses(m) \/ Reclaim(m) PROVE LockInv'
  BY <1>1, <1>19 DEF WindowCloses, Reclaim
<1> QED
  BY <1>1, <1>3, <1>4, <1>5, <1>6, <1>7, <1>8, <1>10, <1>11, <1>13, <1>14, <1>16, <1>17, <1>18, <1>19
     DEF Next, WorkerStep, vars, Arrive, SweepRead

\* A transaction goes on with its job, or is over.
LEMMA JobSame ==
    ASSUME JobInv, UNCHANGED <<job, arrived>>,
           \A w \in Workers :
                \/ worker'[w] = worker[w] \/ worker'[w] = Idle
                \/ /\ worker'[w].msg = worker[w].msg
                   /\ worker[w].at # "idle" /\ worker'[w].at # "idle"
    PROVE  JobInv'
<1>1. 0 \notin Messages
  BY Limits DEF Messages
<1>2. \A w \in Workers : worker'[w].msg = worker[w].msg \/ worker'[w].msg = 0
  BY DEF Idle
<1>3. ASSUME NEW w \in Workers, worker'[w].at # "idle"
      PROVE  /\ worker'[w].msg \in Messages /\ job[worker'[w].msg] = "running"
             /\ \A v \in Workers : v # w => worker'[v].msg # worker'[w].msg
  <2>1. worker[w].at # "idle" /\ worker'[w].msg = worker[w].msg
    BY <1>3 DEF Idle
  <2>2. /\ worker[w].msg \in Messages /\ job[worker[w].msg] = "running"
        /\ \A v \in Workers : v # w => worker[v].msg # worker[w].msg
    BY <2>1 DEF JobInv, At
  <2> QED
    BY <1>1, <1>2, <2>1, <2>2
<1>4. ASSUME NEW w \in Workers, worker'[w].at = "idle" PROVE worker'[w] = Idle
  BY <1>4 DEF JobInv, At
<1> QED
  BY <1>3, <1>4 DEF JobInv, At

LEMMA JobNext == DraftInv /\ [Next]_vars => JobInv'
<1> SUFFICES ASSUME DraftInv, [Next]_vars PROVE JobInv'
  OBVIOUS
<1> USE DEF conversation, queue, rows
<1>0. /\ TypeOK /\ JobInv /\ worker \in [Workers -> Transactions]
      /\ job \in [Messages -> {"absent", "pending", "running", "done", "failed"}]
  BY WorkerTypes DEF DraftInv, TypeOK
<1>w. \A w \in Workers : worker[w].at # "idle" =>
            /\ worker[w].msg \in Messages /\ job[worker[w].msg] = "running"
            /\ \A v \in Workers : v # w => worker[v].msg # worker[w].msg
  BY <1>0 DEF JobInv, At
<1>i. \A w \in Workers : worker[w].at = "idle" => worker[w] = Idle
  BY <1>0 DEF JobInv, At
<1>1. CASE UNCHANGED <<worker, job, arrived>>
  BY <1>0, <1>1, JobSame
<1>2. CASE Arrive
  <2> DEFINE n == arrived + 1
  <2>1. n \in Messages /\ n > arrived /\ job' = [job EXCEPT ![n] = "pending"] /\ arrived' = n
    BY <1>0, <1>2, Limits DEF Arrive, TypeOK, Messages
  <2>2. job[n] = "absent" /\ UNCHANGED worker
    BY <1>0, <1>2, <2>1 DEF Arrive, JobInv
  <2>3. \A m \in Messages : m # n => job'[m] = job[m]
    BY <1>0, <2>1
  <2>4. \A w \in Workers : worker[w].at # "idle" => job'[worker[w].msg] = "running"
    BY <1>w, <2>2, <2>3
  <2>5. \A m \in Messages : m > arrived' => m > arrived /\ m # n
    BY <1>0, <2>1, Limits DEF TypeOK
  <2> QED
    BY <1>0, <1>w, <1>i, <2>2, <2>3, <2>4, <2>5 DEF JobInv, At
<1>3. ASSUME NEW m \in Messages, UNCHANGED arrived, job[m] # "absent",
             \A n \in Messages : n # m => job'[n] = job[n],
             \A w \in Workers : worker'[w].at = "idle" => worker'[w] = Idle,
             \A w \in Workers : worker'[w].at # "idle" =>
                 \/ worker[w].at # "idle" /\ worker'[w].msg = worker[w].msg /\ worker[w].msg # m
                 \/ worker'[w].msg = m /\ job'[m] = "running",
             \A v, w \in Workers : v # w => worker'[v].msg # m \/ worker'[w].msg # m
      PROVE  JobInv'
  <2>1. 0 \notin Messages
    BY Limits DEF Messages
  <2>2. ASSUME NEW w \in Workers, worker'[w].at # "idle"
        PROVE  /\ worker'[w].msg \in Messages /\ job'[worker'[w].msg] = "running"
               /\ \A v \in Workers : v # w => worker'[v].msg # worker'[w].msg
    <3>1. worker'[w].msg \in Messages /\ job'[worker'[w].msg] = "running"
      BY <1>3, <1>w, <2>2
    <3>2. ASSUME NEW v \in Workers, v # w PROVE worker'[v].msg # worker'[w].msg
      <4>1. CASE worker'[w].msg = m
        BY <1>3, <3>2, <4>1
      <4>2. CASE worker'[w].msg # m
        <5>1. worker[w].at # "idle" /\ worker'[w].msg = worker[w].msg
          BY <1>3, <2>2, <4>2
        <5>2. worker[v].msg # worker[w].msg
          BY <1>w, <3>2, <5>1
        <5>3. worker'[v].msg \in {0, m, worker[v].msg}
          BY <1>3 DEF Idle
        <5> QED
          BY <2>1, <3>1, <4>2, <5>1, <5>2, <5>3
      <4> QED
        BY <4>1, <4>2
    <3> QED
      BY <3>1, <3>2
  <2>3. \A n \in Messages : n > arrived' => job'[n] = "absent"
    BY <1>0, <1>3 DEF JobInv
  <2> QED
    BY <1>3, <2>2, <2>3 DEF JobInv, At
<1>4. ASSUME NEW m \in Messages, Reclaim(m) PROVE JobInv'
  <2>1. \A n \in Messages : n # m => job'[n] = job[n]
    BY <1>0, <1>4 DEF Reclaim
  <2>2. job[m] # "absent" /\ UNCHANGED <<arrived, worker>> /\ \A w \in Workers : worker[w].msg # m
    BY <1>4 DEF Reclaim
  <2> QED
    BY <1>3, <1>i, <2>1, <2>2
<1>5. ASSUME NEW w \in Workers, Claim(w) PROVE JobInv'
  <2>1. PICK m \in Messages :
            /\ job[m] = "pending" /\ job' = [job EXCEPT ![m] = "running"]
            /\ worker' = [worker EXCEPT ![w] = [Idle EXCEPT !.at = "open", !.msg = m]]
    BY <1>5 DEF Claim
  <2>2. worker'[w].at = "open" /\ worker'[w].msg = m
        /\ \A v \in Workers : v # w => worker'[v] = worker[v]
    BY <1>0, <2>1 DEF Idle
  <2>3. job'[m] = "running" /\ \A n \in Messages : n # m => job'[n] = job[n]
    BY <1>0, <2>1
  <2>4. \A v \in Workers : worker[v].at # "idle" => worker[v].msg # m
    BY <1>w, <2>1
  <2>5. \A v \in Workers : worker[v].msg # m
    BY <1>i, <2>1, <2>4, Limits DEF Idle, Messages
  <2>6. UNCHANGED arrived
    BY <1>5 DEF Claim
  <2> QED
    BY <1>3, <1>i, <2>1, <2>2, <2>3, <2>4, <2>5, <2>6
<1>6. ASSUME NEW w \in Workers, Commit(w) \/ Fail(w) PROVE JobInv'
  <2> DEFINE m == worker[w].msg
  <2>1. /\ m \in Messages /\ job[m] = "running"
        /\ \A v \in Workers : v # w => worker[v].msg # m
    BY <1>w, <1>6 DEF Commit, Fail, At
  <2>2. worker'[w] = Idle /\ UNCHANGED arrived /\ \A v \in Workers : v # w => worker'[v] = worker[v]
    BY <1>0, <1>6, Ended DEF Commit, Fail, End
  <2>3. \A n \in Messages : n # m => job'[n] = job[n]
    BY <1>0, <1>6 DEF Commit, Fail
  <2>4. \A v \in Workers : worker'[v].at # "idle" =>
            v # w /\ worker[v].at # "idle" /\ worker'[v].msg = worker[v].msg /\ worker[v].msg # m
    BY <2>1, <2>2 DEF Idle
  <2>5. \A v \in Workers : worker'[v].msg # m
    BY <2>1, <2>2, Limits DEF Idle, Messages
  <2>6. \A v \in Workers : worker'[v].at = "idle" => worker'[v] = Idle
    BY <1>i, <2>2
  <2> HIDE DEF m
  <2> QED
    BY <1>3, <2>1, <2>2, <2>3, <2>4, <2>5, <2>6
<1>7. ASSUME NEW w \in Workers, UNCHANGED <<job, arrived>>, worker[w].at # "idle",
             \/ worker'[w] = Idle
             \/ worker'[w].msg = worker[w].msg /\ worker'[w].at # "idle",
             \A v \in Workers : v # w => worker'[v] = worker[v]
      PROVE  JobInv'
  BY <1>0, <1>7, JobSame
<1>8. ASSUME NEW w \in Workers, Skip(w) \/ Supersede(w) \/ Think(w) \/ Tail(w) PROVE JobInv'
  <2>1. UNCHANGED <<job, arrived>> /\ worker[w].at # "idle"
    BY <1>8 DEF Skip, Supersede, Think, Tail, At
  <2>2. CASE \E place \in Places \ {"idle"} : Move(w, place)
    BY <1>0, <1>7, <2>1, <2>2, MovedFields
  <2>3. CASE \E k \in Kinds, place \in Places \ {"idle"} : Insert(w, k, place)
    BY <1>0, <1>7, <2>1, <2>3, InsertedFields
  <2>4. CASE UNCHANGED worker
    BY <1>1, <2>1, <2>4
  <2> QED
    BY <1>8, <2>2, <2>3, <2>4 DEF Skip, Supersede, Think, Tail, Kinds, Places
<1>9. ASSUME NEW w \in Workers, Emergency(w) \/ Hold(w) PROVE JobInv'
  BY <1>0, <1>7, <1>9, InsertedFields DEF Emergency, Hold, At, Kinds, Places
<1>10. ASSUME NEW w \in Workers, Begin(w) PROVE JobInv'
  <2>1. /\ worker'[w].msg = worker[w].msg /\ worker'[w].at = "supersede"
        /\ \A v \in Workers : v # w => worker'[v] = worker[v]
    BY <1>0, <1>10 DEF Begin, Transactions
  <2> QED
    BY <1>7, <1>10, <2>1 DEF Begin, At
<1>11. ASSUME NEW w \in Workers, Send(w) PROVE JobInv'
  <2>1. UNCHANGED <<job, arrived>> /\ worker[w].at # "idle"
    BY <1>11 DEF Send, At
  <2>2. CASE \E place \in Places \ {"idle"} : Move(w, place)
    BY <1>0, <1>7, <2>1, <2>2, MovedFields
  <2>3. CASE worker' = [worker EXCEPT ![w].at = "tail", ![w].sent = @ \union {worker[w].out}]
    <3>1. /\ worker'[w].msg = worker[w].msg /\ worker'[w].at = "tail"
          /\ \A v \in Workers : v # w => worker'[v] = worker[v]
      BY <1>0, <2>3 DEF Transactions
    <3> QED
      BY <1>7, <2>1, <3>1
  <2> QED
    BY <1>11, <2>2, <2>3 DEF Send, Places
<1>12. ASSUME NEW w \in Workers, Crash(w) PROVE JobInv'
  BY <1>0, <1>7, <1>12, Ended DEF Crash, At
<1>13. ASSUME NEW p \in People, \/ ApproveSend(p) \/ ApproveCommit(p)
                                \/ \E d \in Drafts : Approve(p, d) \/ Reject(p, d)
       PROVE JobInv'
  BY <1>1, <1>13 DEF ApproveSend, ApproveCommit, Approve, Reject
<1>14. ASSUME NEW m \in Messages, WindowCloses(m) PROVE JobInv'
  BY <1>1, <1>14 DEF WindowCloses
<1> QED
  BY <1>1, <1>2, <1>4, <1>5, <1>6, <1>8, <1>9, <1>10, <1>11, <1>12, <1>13, <1>14
     DEF Next, WorkerStep, vars, SweepRead, SweepWrite

\* The transactions are kept apart in every state.
LEMMA DraftInvInit == Init => DraftInv
<1>1. ASSUME Init PROVE RowInv /\ LockInv /\ JobInv
  BY <1>1, Limits DEF Init, RowInv, LockInv, JobInv, At, Idle, AtDesk
<1> QED
  BY <1>1, TypeInit DEF DraftInv

LEMMA DraftInvNext == DraftInv /\ [Next]_vars => DraftInv'
BY TypeNext, RowNext, LockNext, JobNext DEF DraftInv

-----------------------------------------------------------------------------
(***************************************************************************)
(* Counting                                                                *)
(***************************************************************************)

LEMMA DraftsFinite == IsFiniteSet(Drafts)
BY FS_Interval, Limits DEF Drafts

LEMMA OpenFinite ==
    ASSUME NEW m, NEW k
    PROVE  IsFiniteSet(OpenAbout(m, k)) /\ Cardinality(OpenAbout(m, k)) \in Nat
<1>1. OpenAbout(m, k) \subseteq Drafts
  BY DEF OpenAbout
<1>2. IsFiniteSet(OpenAbout(m, k))
  BY <1>1, DraftsFinite, FS_Subset
<1> QED
  BY <1>2, FS_CardinalityType

\* A part is no more than the whole.
LEMMA CountPart ==
    ASSUME NEW S, NEW T, IsFiniteSet(S), T \subseteq S
    PROVE  IsFiniteSet(T) /\ Cardinality(T) <= Cardinality(S)
BY FS_Subset

\* One more element is at most one more.
LEMMA CountMore ==
    ASSUME NEW S, NEW T, NEW x, IsFiniteSet(S), T \subseteq S \union {x}
    PROVE  IsFiniteSet(T) /\ Cardinality(T) <= Cardinality(S) + 1
<1>1. /\ IsFiniteSet(S \union {x})
      /\ Cardinality(S \union {x}) = IF x \in S THEN Cardinality(S) ELSE Cardinality(S) + 1
  BY FS_AddElement
<1>2. IsFiniteSet(T) /\ Cardinality(T) <= Cardinality(S \union {x})
  BY <1>1, CountPart
<1>3. Cardinality(S) \in Nat /\ Cardinality(T) \in Nat
  BY <1>2, FS_CardinalityType
<1> QED
  BY <1>1, <1>2, <1>3

\* One element less is one less.
LEMMA CountLess ==
    ASSUME NEW S, NEW T, NEW x \in S, IsFiniteSet(S), T \subseteq S \ {x}
    PROVE  IsFiniteSet(T) /\ Cardinality(T) + 1 <= Cardinality(S)
<1>1. IsFiniteSet(S \ {x}) /\ Cardinality(S \ {x}) = Cardinality(S) - 1
  BY FS_RemoveElement
<1>2. IsFiniteSet(T) /\ Cardinality(T) <= Cardinality(S \ {x})
  BY <1>1, CountPart
<1>3. Cardinality(S) \in Nat /\ Cardinality(T) \in Nat
  BY <1>2, FS_CardinalityType
<1> QED
  BY <1>1, <1>2, <1>3

\* Nothing is received by a step that sends nothing: a new row was not sent before.
LEMMA ReceivedSame ==
    ASSUME NEW m, NEW k, UNCHANGED delivered,
           \A d \in Drafts : delivered[d] = 0 \/ (about'[d] = about[d] /\ kind'[d] = kind[d])
    PROVE  Received(m, k)' = Received(m, k)
BY DEF Received

\* A text that comes once more is received once more.
LEMMA ReceivedMore ==
    ASSUME NEW m, NEW k, NEW d \in Drafts, delivered \in [Drafts -> Nat], UNCHANGED <<about, kind>>,
           delivered' = [delivered EXCEPT ![d] = @ + 1]
    PROVE  /\ Received(m, k)' \subseteq Received(m, k) \union {<<d, delivered[d] + 1>>}
           /\ about[d] # m \/ kind[d] # k => Received(m, k)' = Received(m, k)
<1>1. \A e \in Drafts : e # d => delivered'[e] = delivered[e]
  OBVIOUS
<1>2. delivered'[d] = delivered[d] + 1 /\ delivered[d] \in Nat
  OBVIOUS
<1>3. 1 .. delivered'[d] = (1 .. delivered[d]) \union {delivered[d] + 1}
  BY <1>2
<1> QED
  BY <1>1, <1>3 DEF Received

\* Three ways a step leaves the count in balance: nothing grows; one of the three grows and
\* another shrinks; or there was a fault, and two of them grow by one.
LEMMA NothingGrows ==
    ASSUME NEW m, NEW k, Balanced(m, k), faults \in Nat, faults' \in {faults, faults + 1},
           Received(m, k)' = Received(m, k), OpenAbout(m, k)' \subseteq OpenAbout(m, k),
           MayDraft(m, k)' => MayDraft(m, k)
    PROVE  Balanced(m, k)'
<1>1. /\ IsFiniteSet(Received(m, k)) /\ Cardinality(Received(m, k)) \in Nat
      /\ Cardinality(OpenAbout(m, k)) \in Nat
  BY FS_CardinalityType, OpenFinite DEF Balanced
<1>2. Cardinality(OpenAbout(m, k)') <= Cardinality(OpenAbout(m, k))
  BY OpenFinite, CountPart
<1>3. Cardinality(OpenAbout(m, k)') \in Nat
  BY OpenFinite, CountPart, FS_CardinalityType
<1>4. Due(m, k) \in {0, 1} /\ Due(m, k)' \in {0, 1} /\ Due(m, k)' <= Due(m, k)
  BY DEF Due
<1> QED
  BY <1>1, <1>2, <1>3, <1>4 DEF Balanced

LEMMA DraftInserted ==
    ASSUME NEW m, NEW k, NEW d, Balanced(m, k), faults \in Nat, faults' = faults,
           Received(m, k)' = Received(m, k), OpenAbout(m, k)' \subseteq OpenAbout(m, k) \union {d},
           MayDraft(m, k), ~MayDraft(m, k)'
    PROVE  Balanced(m, k)'
<1>1. /\ IsFiniteSet(Received(m, k)) /\ Cardinality(Received(m, k)) \in Nat
      /\ Cardinality(OpenAbout(m, k)) \in Nat
  BY FS_CardinalityType, OpenFinite DEF Balanced
<1>2. IsFiniteSet(OpenAbout(m, k)') /\ Cardinality(OpenAbout(m, k)') <= Cardinality(OpenAbout(m, k)) + 1
  BY OpenFinite, CountMore
<1>3. Cardinality(OpenAbout(m, k)') \in Nat
  BY <1>2, FS_CardinalityType
<1>4. Due(m, k) = 1 /\ Due(m, k)' = 0
  BY DEF Due
<1> QED
  BY <1>1, <1>2, <1>3, <1>4 DEF Balanced

LEMMA DraftReceived ==
    ASSUME NEW m, NEW k, NEW d \in OpenAbout(m, k), NEW x, Balanced(m, k), faults \in Nat,
           faults' = faults, Received(m, k)' \subseteq Received(m, k) \union {x},
           OpenAbout(m, k)' \subseteq OpenAbout(m, k) \ {d}, MayDraft(m, k)' => MayDraft(m, k)
    PROVE  Balanced(m, k)'
<1>1. /\ IsFiniteSet(Received(m, k)) /\ Cardinality(Received(m, k)) \in Nat
      /\ Cardinality(OpenAbout(m, k)) \in Nat
  BY FS_CardinalityType, OpenFinite DEF Balanced
<1>2. /\ IsFiniteSet(OpenAbout(m, k)')
      /\ Cardinality(OpenAbout(m, k)') + 1 <= Cardinality(OpenAbout(m, k))
  BY OpenFinite, CountLess
<1>3. /\ IsFiniteSet(Received(m, k)')
      /\ Cardinality(Received(m, k)') <= Cardinality(Received(m, k)) + 1
  BY <1>1, CountMore
<1>4. Cardinality(OpenAbout(m, k)') \in Nat /\ Cardinality(Received(m, k)') \in Nat
  BY <1>2, <1>3, FS_CardinalityType
<1>5. Due(m, k) \in {0, 1} /\ Due(m, k)' \in {0, 1} /\ Due(m, k)' <= Due(m, k)
  BY DEF Due
<1> QED
  BY <1>1, <1>2, <1>3, <1>4, <1>5 DEF Balanced

LEMMA FaultBalances ==
    ASSUME NEW m, NEW k, NEW d, NEW x, Balanced(m, k), faults \in Nat, faults' = faults + 1,
           \/ /\ Received(m, k)' \subseteq Received(m, k) \union {x}
              /\ OpenAbout(m, k)' \subseteq OpenAbout(m, k)
           \/ /\ Received(m, k)' = Received(m, k)
              /\ OpenAbout(m, k)' \subseteq OpenAbout(m, k) \union {d}
    PROVE  Balanced(m, k)'
<1>1. /\ IsFiniteSet(Received(m, k)) /\ Cardinality(Received(m, k)) \in Nat
      /\ Cardinality(OpenAbout(m, k)) \in Nat
  BY FS_CardinalityType, OpenFinite DEF Balanced
<1>2. Due(m, k) \in {0, 1} /\ Due(m, k)' \in {0, 1}
  BY DEF Due
<1>3. CASE /\ Received(m, k)' \subseteq Received(m, k) \union {x}
           /\ OpenAbout(m, k)' \subseteq OpenAbout(m, k)
  <2>1. /\ IsFiniteSet(Received(m, k)')
        /\ Cardinality(Received(m, k)') <= Cardinality(Received(m, k)) + 1
    BY <1>1, <1>3, CountMore
  <2>2. /\ IsFiniteSet(OpenAbout(m, k)')
        /\ Cardinality(OpenAbout(m, k)') <= Cardinality(OpenAbout(m, k))
    BY <1>3, OpenFinite, CountPart
  <2>3. Cardinality(OpenAbout(m, k)') \in Nat /\ Cardinality(Received(m, k)') \in Nat
    BY <2>1, <2>2, FS_CardinalityType
  <2> QED
    BY <1>1, <1>2, <2>1, <2>2, <2>3 DEF Balanced
<1>4. CASE /\ Received(m, k)' = Received(m, k)
           /\ OpenAbout(m, k)' \subseteq OpenAbout(m, k) \union {d}
  <2>1. /\ IsFiniteSet(OpenAbout(m, k)')
        /\ Cardinality(OpenAbout(m, k)') <= Cardinality(OpenAbout(m, k)) + 1
    BY <1>4, OpenFinite, CountMore
  <2>2. Cardinality(OpenAbout(m, k)') \in Nat
    BY <2>1, FS_CardinalityType
  <2> QED
    BY <1>1, <1>2, <1>4, <2>1, <2>2 DEF Balanced
<1> QED
  BY <1>3, <1>4

\* No draft opens if none does by itself.
LEMMA OpenSame ==
    ASSUME NEW m, NEW k, UNCHANGED <<about, kind>>, \A d \in Drafts : Open(d)' => Open(d)
    PROVE  OpenAbout(m, k)' \subseteq OpenAbout(m, k)
BY DEF OpenAbout

LEMMA OpenKept ==
    ASSUME UNCHANGED <<status, person>>,
           \A w \in Workers : worker'[w].fresh \ worker'[w].sent
                                \subseteq worker[w].fresh \ worker[w].sent
    PROVE  \A d \in Drafts : Open(d)' => Open(d)
BY DEF Open, Spent

\* A new row is one more open draft, about its message.
LEMMA OpenInsert ==
    ASSUME TypeOK, NEW w \in Workers, NEW kd \in Kinds, NEW place \in Places, Insert(w, kd, place),
           UNCHANGED <<status, person>>, NEW m, NEW k
    PROVE  /\ OpenAbout(m, k)' \subseteq OpenAbout(m, k) \union {made'}
           /\ m # worker[w].msg \/ k # kd => OpenAbout(m, k)' \subseteq OpenAbout(m, k)
<1>1. /\ worker'[w].sent = worker[w].sent
      /\ worker'[w].fresh = worker[w].fresh \union {made'}
      /\ \A v \in Workers : v # w => worker'[v] = worker[v]
  BY InsertedFields
<1>2. /\ about'[made'] = worker[w].msg /\ kind'[made'] = kd
      /\ \A d \in Drafts : d # made' => about'[d] = about[d] /\ kind'[d] = kind[d]
  BY Inserted
<1>3. \A d \in Drafts : d # made' /\ Open(d)' => Open(d)
  BY <1>1 DEF Open, Spent
<1> QED
  BY <1>2, <1>3 DEF OpenAbout

\* Whether a job may still draft is up to the worker it has.
LEMMA MayDraftSame ==
    ASSUME NEW m, NEW k, UNCHANGED job, NEW w \in Workers,
           \A v \in Workers : v # w => worker'[v] = worker[v], worker'[w].msg = worker[w].msg,
           worker[w].msg = m /\ WorkerMayDraft(w, k)' => WorkerMayDraft(w, k)
    PROVE  MayDraft(m, k)' => MayDraft(m, k)
BY DEF MayDraft, WorkerMayDraft, At

LEMMA MayDraftOver ==
    ASSUME NEW k, UNCHANGED job, JobInv, NEW w \in Workers, worker[w].at # "idle",
           NEW m, worker[w].msg = m, worker'[w].msg = m,
           \A v \in Workers : v # w => worker'[v] = worker[v], ~WorkerMayDraft(w, k)'
    PROVE  ~MayDraft(m, k)'
<1>1. job[m] = "running" /\ \A v \in Workers : v # w => worker[v].msg # m
  BY DEF JobInv, At
<1> QED
  BY <1>1 DEF MayDraft, WorkerMayDraft, At

\* Moves of one worker that send nothing and open nothing.
LEMMA MoveBalances ==
    ASSUME TypeOK, TypeOK', NEW m, NEW k, Balanced(m, k), NEW w \in Workers, faults' \in {faults, faults + 1},
           UNCHANGED <<rows, status, person, delivered, job>>,
           worker'[w].fresh = worker[w].fresh, worker'[w].sent = worker[w].sent,
           worker'[w].msg = worker[w].msg, \A v \in Workers : v # w => worker'[v] = worker[v],
           WorkerMayDraft(w, k)' => WorkerMayDraft(w, k)
    PROVE  Balanced(m, k)'
<1>1. UNCHANGED <<about, kind>> /\ faults \in Nat
  BY Limits DEF rows, TypeOK
<1>2. Received(m, k)' = Received(m, k)
  BY <1>1, ReceivedSame
<1>3. \A v \in Workers : worker'[v].fresh \ worker'[v].sent
                            \subseteq worker[v].fresh \ worker[v].sent
  OBVIOUS
<1>4. \A d \in Drafts : Open(d)' => Open(d)
  BY <1>3, OpenKept
<1>5. OpenAbout(m, k)' \subseteq OpenAbout(m, k)
  BY <1>1, <1>4, OpenSame
<1>6. MayDraft(m, k)' => MayDraft(m, k)
  BY MayDraftSame
<1> QED
  BY <1>1, <1>2, <1>5, <1>6, NothingGrows

\* An insert uses up what the job may draft of that kind.
LEMMA InsertBalances ==
    ASSUME DraftInv, NEW m, NEW k, Balanced(m, k), NEW w \in Workers,
           NEW kd \in Kinds, NEW place \in Places, Insert(w, kd, place),
           UNCHANGED <<status, person, delivered, job, faults>>,
           worker[w].at # "idle", WorkerMayDraft(w, kd), ~WorkerMayDraft(w, kd)',
           k # kd /\ WorkerMayDraft(w, k)' => WorkerMayDraft(w, k)
    PROVE  Balanced(m, k)'
<1>1. TypeOK /\ JobInv /\ faults \in Nat
  BY Limits DEF DraftInv, TypeOK
<1>2. worker'[w].msg = worker[w].msg /\ \A v \in Workers : v # w => worker'[v] = worker[v]
  BY <1>1, InsertedFields
<1>3. Received(m, k)' = Received(m, k)
  <2>1. made \in Nat /\ made' = made + 1 /\ made' \in Drafts
    <3>1. made \in Nat
      BY <1>1, Limits DEF TypeOK
    <3>2. made' = made + 1 /\ made' \in Drafts
      BY <1>1, Inserted
    <3> QED
      BY <3>1, <3>2
  <2>2. delivered[made'] = 0
    BY <1>1, <2>1 DEF DraftInv, RowInv, TypeOK
  <2>3. \A d \in Drafts : d # made' => about'[d] = about[d] /\ kind'[d] = kind[d]
    BY <1>1, Inserted
  <2> QED
    BY <2>2, <2>3, ReceivedSame
<1>4. CASE m = worker[w].msg /\ k = kd
  <2>1. ~MayDraft(m, k)'
    BY <1>1, <1>2, <1>4, MayDraftOver
  <2>2. MayDraft(m, k)
    BY <1>4 DEF MayDraft
  <2>3. OpenAbout(m, k)' \subseteq OpenAbout(m, k) \union {made'}
    BY <1>1, OpenInsert
  <2> QED
    BY <1>1, <1>3, <2>1, <2>2, <2>3, DraftInserted
<1>5. CASE m # worker[w].msg \/ k # kd
  <2>1. OpenAbout(m, k)' \subseteq OpenAbout(m, k)
    BY <1>1, <1>5, OpenInsert
  <2>2. MayDraft(m, k)' => MayDraft(m, k)
    BY <1>2, <1>5, MayDraftSame
  <2> QED
    BY <1>1, <1>3, <2>1, <2>2, NothingGrows
<1> QED
  BY <1>4, <1>5

\* A transaction that ends leaves its unsent drafts open, or nothing of them.
LEMMA EndOpens ==
    ASSUME DraftInv, NEW w \in Workers, UNCHANGED person,
           worker'[w] = Idle, \A v \in Workers : v # w => worker'[v] = worker[v],
           status' \in {status, Flushed(w)}
    PROVE  \A d \in Drafts : Open(d)' => Open(d)
<1> SUFFICES ASSUME NEW d \in Drafts, Open(d)' PROVE Open(d)
  OBVIOUS
<1>1. CASE \E v \in Workers : d \in worker'[v].fresh \ worker'[v].sent
  BY <1>1 DEF Open, Idle
<1>2. CASE status'[d] = "pending" /\ ~Spent(d)'
  <2>1. ~Spent(d)
    BY <1>2 DEF Spent
  <2>2. status[d] = "pending" \/ d \in worker[w].fresh \ worker[w].sent
    BY <1>2, FlushedType DEF DraftInv
  <2> QED
    BY <2>1, <2>2 DEF Open
<1> QED
  BY <1>1, <1>2 DEF Open

\* Every step keeps the count in balance.
LEMMA AnswerNext == DraftInv /\ AnswerInv /\ [Next]_vars => AnswerInv'
<1> SUFFICES ASSUME DraftInv, AnswerInv, [Next]_vars, NEW m \in Messages, NEW k \in Kinds
             PROVE  Balanced(m, k)'
  BY DEF AnswerInv
<1> USE DEF conversation, queue
<1>0. /\ TypeOK /\ TypeOK' /\ RowInv /\ LockInv /\ JobInv /\ Balanced(m, k)
      /\ faults \in Nat /\ delivered \in [Drafts -> Nat] /\ faults + 1 \in Nat
  BY TypeNext, Limits DEF DraftInv, AnswerInv, TypeOK
<1>r. UNCHANGED rows => UNCHANGED <<about, kind, made>>
  BY DEF rows
<1>1. ASSUME UNCHANGED <<rows, delivered, faults>>, \A d \in Drafts : Open(d)' => Open(d),
             MayDraft(m, k)' => MayDraft(m, k)
      PROVE  Balanced(m, k)'
  <2>1. Received(m, k)' = Received(m, k)
    BY <1>1, <1>r, ReceivedSame
  <2>2. OpenAbout(m, k)' \subseteq OpenAbout(m, k)
    BY <1>1, <1>r, OpenSame
  <2> QED
    BY <1>0, <1>1, <2>1, <2>2, NothingGrows
<1>2. ASSUME UNCHANGED <<rows, delivered, faults, worker, job>>, \A d \in Drafts : Open(d)' => Open(d)
      PROVE  Balanced(m, k)'
  BY <1>1, <1>2 DEF MayDraft, WorkerMayDraft, At
<1>3. ASSUME UNCHANGED <<rows, delivered, faults, worker, person, status>>,
             MayDraft(m, k)' => MayDraft(m, k)
      PROVE  Balanced(m, k)'
  BY <1>1, <1>3 DEF Open, Spent
<1>4. CASE UNCHANGED vars
  BY <1>3, <1>4 DEF vars, MayDraft, WorkerMayDraft, At
<1>5. CASE Arrive
  <2> DEFINE n == arrived + 1
  <2>1. n \in Messages /\ job[n] = "absent" /\ job' = [job EXCEPT ![n] = "pending"]
    BY <1>0, <1>5, Limits DEF Arrive, TypeOK, Messages, JobInv
  <2>2. MayDraft(m, k)' => MayDraft(m, k)
    BY <1>0, <1>5, <2>1 DEF Arrive, MayDraft, WorkerMayDraft, At, TypeOK
  <2> QED
    BY <1>3, <1>5, <2>2 DEF Arrive
<1>6. ASSUME NEW n \in Messages, WindowCloses(n) PROVE Balanced(m, k)'
  BY <1>3, <1>6 DEF WindowCloses, MayDraft, WorkerMayDraft, At
<1>7. ASSUME NEW n \in Messages, Reclaim(n) PROVE Balanced(m, k)'
  <2>1. MayDraft(m, k)' => MayDraft(m, k)
    BY <1>0, <1>7 DEF Reclaim, MayDraft, WorkerMayDraft, At, TypeOK
  <2> QED
    BY <1>3, <1>7, <2>1 DEF Reclaim
<1>8. ASSUME NEW w \in Workers, Claim(w) PROVE Balanced(m, k)'
  <2>1. PICK n \in Messages :
            /\ job[n] = "pending" /\ job' = [job EXCEPT ![n] = "running"]
            /\ worker' = [worker EXCEPT ![w] = [Idle EXCEPT !.at = "open", !.msg = n]]
    BY <1>8 DEF Claim
  <2>2. /\ worker'[w].fresh = {} /\ worker'[w].msg = n /\ worker[w].msg = 0
        /\ \A v \in Workers : v # w => worker'[v] = worker[v]
    <3>1. worker[w].msg = 0
      BY <1>0, <1>8 DEF Idle, Claim, JobInv
    <3> QED
      BY <1>0, <2>1, <3>1, WorkerTypes DEF Idle
  <2>3. \A d \in Drafts : Open(d)' => Open(d)
    BY <1>8, <2>2, OpenKept DEF Claim
  <2>4. MayDraft(m, k)' => MayDraft(m, k)
    <3>1. CASE m = n
      BY <2>1, <3>1 DEF MayDraft
    <3>2. CASE m # n
      <4>1. job'[m] = job[m] /\ m # 0
        BY <1>0, <2>1, <3>2, Limits DEF TypeOK, Messages
      <4> QED
        BY <2>2, <3>2, <4>1 DEF MayDraft, WorkerMayDraft, At
    <3> QED
      BY <3>1, <3>2
  <2> QED
    BY <1>1, <1>8, <2>3, <2>4 DEF Claim
<1>9. ASSUME NEW w \in Workers, NEW place \in Places, Move(w, place), faults' \in {faults, faults + 1},
             UNCHANGED <<rows, status, person, delivered, job>>,
             (place \in {"open", "supersede", "think", "fail"} \/ (place = "hold" /\ k = "line"))
                => WorkerMayDraft(w, k)
      PROVE  Balanced(m, k)'
  <2>1. /\ worker'[w].at = place /\ worker'[w].msg = worker[w].msg
        /\ worker'[w].fresh = worker[w].fresh /\ worker'[w].sent = worker[w].sent
        /\ \A v \in Workers : v # w => worker'[v] = worker[v]
    BY <1>0, <1>9, MovedFields
  <2>2. WorkerMayDraft(w, k)' => WorkerMayDraft(w, k)
    BY <1>9, <2>1 DEF WorkerMayDraft, At
  <2> QED
    BY <1>0, <1>9, <2>1, <2>2, MoveBalances
<1>10. ASSUME NEW w \in Workers, Skip(w) PROVE Balanced(m, k)'
  BY <1>9, <1>10 DEF Skip, Places
<1>11. ASSUME NEW w \in Workers, NEW kd \in Kinds, NEW place \in Places, Insert(w, kd, place),
              UNCHANGED <<status, person, delivered, job, faults>>,
              worker[w].at # "idle", WorkerMayDraft(w, kd),
              place \in {"send", "commit", "tail"} \/ (place = "hold" /\ kd # "line" /\ At(w, "think"))
       PROVE  Balanced(m, k)'
  <2>1. worker'[w].at = place
    BY <1>0, <1>11, InsertedFields
  <2>2. ~WorkerMayDraft(w, kd)'
    BY <1>11, <2>1 DEF WorkerMayDraft, At
  <2>3. WorkerMayDraft(w, k)' => WorkerMayDraft(w, k)
    BY <1>11, <2>1 DEF WorkerMayDraft, At
  <2> QED
    BY <1>0, <1>11, <2>2, <2>3, InsertBalances
<1>12. ASSUME NEW w \in Workers, Emergency(w) \/ Hold(w) PROVE Balanced(m, k)'
  BY <1>11, <1>12 DEF Emergency, Hold, Kinds, Places, WorkerMayDraft, At
<1>13. ASSUME NEW w \in Workers, Begin(w) PROVE Balanced(m, k)'
  <2>1. /\ worker'[w].at = "supersede" /\ worker'[w].msg = worker[w].msg
        /\ worker'[w].fresh = worker[w].fresh /\ worker'[w].sent = worker[w].sent
        /\ \A v \in Workers : v # w => worker'[v] = worker[v]
    BY <1>0, <1>13, WorkerTypes DEF Begin, Transactions
  <2>2. WorkerMayDraft(w, k)
    BY <1>13 DEF Begin, WorkerMayDraft, At
  <2> QED
    BY <1>0, <1>13, <2>1, <2>2, MoveBalances DEF Begin
<1>14. ASSUME NEW w \in Workers, Supersede(w) PROVE Balanced(m, k)'
  <2>1. UNCHANGED <<rows, status, person, delivered, job, faults>> /\ WorkerMayDraft(w, k)
    BY <1>14 DEF Supersede, WorkerMayDraft, At
  <2>2. CASE Move(w, "think")
    BY <1>9, <2>1, <2>2 DEF Places
  <2>3. CASE UNCHANGED worker
    BY <1>2, <2>1, <2>3 DEF Open, Spent
  <2> QED
    BY <1>14, <2>2, <2>3 DEF Supersede
<1>15. ASSUME NEW w \in Workers, Think(w) PROVE Balanced(m, k)'
  <2>1. /\ UNCHANGED <<status, person, delivered, job, faults>> /\ At(w, "think")
        /\ worker[w].at # "idle" /\ \A kd \in Kinds : WorkerMayDraft(w, kd)
    BY <1>15 DEF Think, WorkerMayDraft, At
  <2>2. CASE (Move(w, "commit") \/ Move(w, "fail")) /\ UNCHANGED rows
    BY <1>9, <2>1, <2>2 DEF Places
  <2>3. CASE \E kd \in Kinds \ {"line"}, place \in {"send", "commit", "hold", "tail"} : Insert(w, kd, place)
    BY <1>11, <2>1, <2>3 DEF Places
  <2> QED
    BY <1>15, <2>2, <2>3 DEF Think, Kinds
<1>16. ASSUME NEW w \in Workers, Tail(w) PROVE Balanced(m, k)'
  <2>1. UNCHANGED <<rows, status, person, delivered, job>>
    BY <1>16 DEF Tail
  <2>2. CASE Move(w, "commit") /\ UNCHANGED faults
    BY <1>9, <2>1, <2>2 DEF Places
  <2>3. CASE faults' = faults + 1 /\ Move(w, "fail")
    <3>1. /\ worker'[w].fresh = worker[w].fresh /\ worker'[w].sent = worker[w].sent
          /\ \A v \in Workers : v # w => worker'[v] = worker[v]
      BY <1>0, <2>3, MovedFields DEF Places
    <3>2. \A d \in Drafts : Open(d)' => Open(d)
      BY <2>1, <3>1, OpenKept
    <3>3. OpenAbout(m, k)' \subseteq OpenAbout(m, k) /\ Received(m, k)' = Received(m, k)
      BY <1>r, <2>1, <3>2, OpenSame, ReceivedSame
    <3> QED
      BY <1>0, <2>3, <3>3, FaultBalances
  <2> QED
    BY <1>16, <2>2, <2>3 DEF Tail
<1>17. ASSUME NEW w \in Workers, Send(w) PROVE Balanced(m, k)'
  <2>0. PICK d \in Drafts : d = worker[w].out
    BY <1>0, <1>17, WorkerTypes DEF Send, RowInv, Transactions
  <2> DEFINE more == [delivered EXCEPT ![d] = @ + 1]
             x == <<d, delivered[d] + 1>>
  <2>1. /\ UNCHANGED <<rows, about, kind, status, person, job>> /\ worker[w].at # "idle"
        /\ d \in worker[w].fresh \ worker[w].sent
    BY <1>0, <1>r, <1>17, <2>0 DEF Send, RowInv, At
  <2>2. /\ d \in Drafts /\ Open(d) /\ status[d] = "none"
        /\ \A v \in Workers : v # w => d \notin worker[v].fresh
    BY <1>0, <2>1, WorkerTypes DEF RowInv, Open, Transactions
  <2>3. CASE /\ delivered' = more /\ UNCHANGED faults
             /\ worker' = [worker EXCEPT ![w].at = "tail", ![w].sent = @ \union {d}]
    <3>1. /\ worker'[w].at = "tail" /\ worker'[w].msg = worker[w].msg
          /\ worker'[w].fresh = worker[w].fresh /\ worker'[w].sent = worker[w].sent \union {d}
          /\ \A v \in Workers : v # w => worker'[v] = worker[v]
      BY <1>0, <2>3, WorkerTypes DEF Transactions
    <3>2. \A e \in Drafts : Open(e)' => Open(e)
      BY <2>1, <3>1, OpenKept
    <3>3. OpenAbout(m, k)' \subseteq OpenAbout(m, k)
      BY <2>1, <3>2, OpenSame
    <3>4. ~Open(d)'
      BY <2>1, <2>2, <3>1 DEF Open
    <3>5. MayDraft(m, k)' => MayDraft(m, k)
      BY <2>1, <3>1, MayDraftSame DEF WorkerMayDraft, At
    <3>6. CASE about[d] = m /\ kind[d] = k
      <4>1. d \in OpenAbout(m, k) /\ OpenAbout(m, k)' \subseteq OpenAbout(m, k) \ {d}
        BY <2>2, <3>3, <3>4, <3>6 DEF OpenAbout
      <4>2. Received(m, k)' \subseteq Received(m, k) \union {x}
        BY <1>0, <2>1, <2>2, <2>3, ReceivedMore
      <4> QED
        BY <1>0, <2>3, <3>5, <4>1, <4>2, DraftReceived
    <3>7. CASE about[d] # m \/ kind[d] # k
      <4>1. Received(m, k)' = Received(m, k)
        BY <1>0, <2>1, <2>2, <2>3, <3>7, ReceivedMore
      <4> QED
        BY <1>0, <2>3, <3>3, <3>5, <4>1, NothingGrows
    <3> QED
      BY <3>6, <3>7
  <2>4. CASE Move(w, "tail") /\ UNCHANGED <<delivered, faults>>
    BY <1>9, <2>1, <2>4 DEF Places
  <2>5. CASE faults' = faults + 1 /\ delivered' \in {delivered, more} /\ Move(w, "fail")
    <3>1. /\ worker'[w].fresh = worker[w].fresh /\ worker'[w].sent = worker[w].sent
          /\ \A v \in Workers : v # w => worker'[v] = worker[v]
      BY <1>0, <2>5, MovedFields DEF Places
    <3>2. \A e \in Drafts : Open(e)' => Open(e)
      BY <2>1, <3>1, OpenKept
    <3>3. OpenAbout(m, k)' \subseteq OpenAbout(m, k)
      BY <2>1, <3>2, OpenSame
    <3>4. Received(m, k)' \subseteq Received(m, k) \union {x}
      <4>1. CASE delivered' = more
        BY <1>0, <2>1, <2>2, <4>1, ReceivedMore
      <4>2. CASE UNCHANGED delivered
        BY <2>1, <4>2, ReceivedSame
      <4> QED
        BY <2>5, <4>1, <4>2
    <3> QED
      BY <1>0, <2>5, <3>3, <3>4, FaultBalances
  <2> QED
    BY <1>17, <2>0, <2>3, <2>4, <2>5 DEF Send
<1>18. ASSUME NEW w \in Workers, Commit(w) \/ Fail(w) PROVE Balanced(m, k)'
  <2> DEFINE n == worker[w].msg
  <2>1. /\ UNCHANGED <<rows, delivered, faults, person>> /\ status' = Flushed(w)
        /\ worker'[w] = Idle /\ \A v \in Workers : v # w => worker'[v] = worker[v]
    BY <1>0, <1>18, Ended DEF Commit, Fail, End
  <2>2. \A d \in Drafts : Open(d)' => Open(d)
    BY <2>1, EndOpens
  <2>3. /\ n \in Messages /\ job[n] = "running"
        /\ \A v \in Workers : v # w => worker[v].msg # n
    BY <1>0, <1>18 DEF Commit, Fail, JobInv, At
  <2>4. MayDraft(m, k)' => MayDraft(m, k)
    <3>1. CASE m = n
      <4>1. CASE Fail(w)
        BY <3>1, <4>1 DEF Fail, MayDraft, WorkerMayDraft, At
      <4>2. CASE Commit(w)
        <5>1. job'[m] = "done"
          BY <1>0, <2>3, <3>1, <4>2 DEF Commit, TypeOK
        <5>2. \A v \in Workers : worker'[v].msg # m
          BY <2>1, <2>3, <3>1, Limits DEF Idle, Messages
        <5> QED
          BY <5>1, <5>2 DEF MayDraft
      <4> QED
        BY <1>18, <4>1, <4>2
    <3>2. CASE m # n
      <4>1. job'[m] = job[m]
        BY <1>0, <1>18, <3>2 DEF Commit, Fail, TypeOK
      <4>2. worker'[w].msg # m /\ worker[w].msg # m
        BY <2>1, <3>2, Limits DEF Idle, Messages
      <4> QED
        BY <2>1, <4>1, <4>2 DEF MayDraft, WorkerMayDraft, At
    <3> QED
      BY <3>1, <3>2
  <2> QED
    BY <1>1, <2>1, <2>2, <2>4
<1>19. ASSUME NEW w \in Workers, Crash(w) PROVE Balanced(m, k)'
  <2>1. /\ UNCHANGED <<rows, delivered, person, status>> /\ faults' = faults + 1
        /\ worker'[w] = Idle /\ \A v \in Workers : v # w => worker'[v] = worker[v]
    BY <1>0, <1>19, Ended DEF Crash
  <2>2. \A d \in Drafts : Open(d)' => Open(d)
    BY <2>1, EndOpens
  <2>3. OpenAbout(m, k)' \subseteq OpenAbout(m, k) /\ Received(m, k)' = Received(m, k)
    BY <1>r, <2>1, <2>2, OpenSame, ReceivedSame
  <2> QED
    BY <1>0, <2>1, <2>3, FaultBalances
<1>h. \A p \in People : person[p].at # "idle" =>
        /\ person[p].draft \in Drafts
        /\ lock[person[p].draft] = p /\ status[person[p].draft] = "pending"
  BY <1>0 DEF LockInv
<1>p. person \in [People -> Requests]
  BY <1>0 DEF TypeOK, Requests
<1>20. ASSUME NEW p \in People, NEW d \in Drafts, Approve(p, d) PROVE Balanced(m, k)'
  <2>1. person[p].at = "idle" /\ \A q \in People : q # p => person'[q] = person[q]
    BY <1>p, <1>20 DEF Approve
  <2>2. \A e \in Drafts : Open(e)' => Open(e)
    BY <1>20, <2>1 DEF Approve, Open, Spent
  <2> QED
    BY <1>2, <1>20, <2>2 DEF Approve
<1>21. ASSUME NEW p \in People, NEW d \in Drafts, Reject(p, d) PROVE Balanced(m, k)'
  <2>1. \A e \in Drafts : status'[e] = "pending" => status[e] = "pending"
    BY <1>0, <1>21 DEF Reject, TypeOK
  <2>2. \A e \in Drafts : Open(e)' => Open(e)
    BY <1>21, <2>1 DEF Reject, Open, Spent
  <2> QED
    BY <1>2, <1>21, <2>2 DEF Reject
<1>22. ASSUME NEW p \in People, ApproveSend(p) PROVE Balanced(m, k)'
  <2>0. PICK d \in Drafts : d = person[p].draft
    BY <1>h, <1>22 DEF ApproveSend
  <2> DEFINE more == [delivered EXCEPT ![d] = @ + 1]
             x == <<d, delivered[d] + 1>>
  <2>1. /\ UNCHANGED <<rows, about, kind, status, worker, job>> /\ person[p].at = "send"
        /\ d \in Drafts /\ lock[d] = p /\ status[d] = "pending"
    BY <1>h, <1>r, <1>22, <2>0 DEF ApproveSend
  <2>2. MayDraft(m, k)' => MayDraft(m, k)
    BY <2>1 DEF MayDraft, WorkerMayDraft, At
  <2>3. CASE delivered' = more /\ person' = [person EXCEPT ![p].at = "commit"] /\ UNCHANGED faults
    <3>1. /\ person'[p].at = "commit" /\ person'[p].draft = d
          /\ \A q \in People : q # p => person'[q] = person[q]
      BY <1>p, <2>0, <2>3 DEF Requests
    <3>2. \A e \in Drafts : Open(e)' => Open(e)
      BY <2>1, <3>1 DEF Open, Spent
    <3>3. OpenAbout(m, k)' \subseteq OpenAbout(m, k)
      BY <2>1, <3>2, OpenSame
    <3>4. ~Open(d)'
      <4>1. Spent(d)'
        BY <3>1 DEF Spent
      <4>2. \A v \in Workers : d \notin worker[v].fresh
        BY <1>0, <2>1 DEF RowInv
      <4> QED
        BY <2>1, <4>1, <4>2 DEF Open
    <3>5. Open(d)
      <4>1. ~Spent(d)
        BY <1>h, <2>1 DEF Spent
      <4> QED
        BY <2>1, <4>1 DEF Open
    <3>6. CASE about[d] = m /\ kind[d] = k
      <4>1. d \in OpenAbout(m, k) /\ OpenAbout(m, k)' \subseteq OpenAbout(m, k) \ {d}
        BY <2>1, <3>3, <3>4, <3>5, <3>6 DEF OpenAbout
      <4>2. Received(m, k)' \subseteq Received(m, k) \union {x}
        BY <1>0, <2>1, <2>3, ReceivedMore
      <4> QED
        BY <1>0, <2>2, <2>3, <4>1, <4>2, DraftReceived
    <3>7. CASE about[d] # m \/ kind[d] # k
      <4>1. Received(m, k)' = Received(m, k)
        BY <1>0, <2>1, <2>3, <3>7, ReceivedMore
      <4> QED
        BY <1>0, <2>2, <2>3, <3>3, <4>1, NothingGrows
    <3> QED
      BY <3>6, <3>7
  <2>4. LeaveDesk(p) => \A e \in Drafts : Open(e)' => Open(e)
    <3>1. LeaveDesk(p) => \A q \in People : q # p => person'[q] = person[q]
      BY <1>p DEF LeaveDesk
    <3> QED
      BY <2>1, <3>1 DEF Open, Spent
  <2>5. CASE LeaveDesk(p) /\ UNCHANGED <<delivered, faults>>
    BY <1>1, <2>1, <2>2, <2>4, <2>5
  <2>6. CASE LeaveDesk(p) /\ faults' = faults + 1 /\ delivered' = more
    <3>1. OpenAbout(m, k)' \subseteq OpenAbout(m, k)
      BY <2>1, <2>4, <2>6, OpenSame
    <3>2. Received(m, k)' \subseteq Received(m, k) \union {x}
      BY <1>0, <2>1, <2>6, ReceivedMore
    <3> QED
      BY <1>0, <2>6, <3>1, <3>2, FaultBalances
  <2> QED
    BY <1>22, <2>0, <2>3, <2>5, <2>6 DEF ApproveSend
<1>23. ASSUME NEW p \in People, ApproveCommit(p) PROVE Balanced(m, k)'
  <2> DEFINE d == person[p].draft
  <2>1. /\ UNCHANGED <<rows, about, kind, worker, job, delivered>> /\ LeaveDesk(p)
        /\ d \in Drafts
    BY <1>h, <1>r, <1>23 DEF ApproveCommit
  <2>2. \A q \in People : q # p => person'[q] = person[q]
    BY <1>p, <2>1 DEF LeaveDesk
  <2>3. \A e \in Drafts : e # d => (Spent(e) => Spent(e)')
    BY <2>2 DEF Spent
  <2>4. CASE status' = [status EXCEPT ![d] = "sent"] /\ UNCHANGED faults
    <3>1. \A e \in Drafts : status'[e] = "pending" => status[e] = "pending" /\ e # d
      BY <1>0, <2>4 DEF TypeOK
    <3>2. \A e \in Drafts : Open(e)' => Open(e)
      BY <2>1, <2>3, <3>1 DEF Open
    <3> QED
      BY <1>2, <2>1, <2>4, <3>2
  <2>5. CASE faults' = faults + 1 /\ UNCHANGED status
    <3>1. \A e \in Drafts : e # d /\ Open(e)' => Open(e)
      BY <2>1, <2>3, <2>5 DEF Open
    <3>2. OpenAbout(m, k)' \subseteq OpenAbout(m, k) \union {d}
      BY <2>1, <3>1 DEF OpenAbout
    <3>3. Received(m, k)' = Received(m, k)
      BY <2>1, ReceivedSame
    <3> QED
      BY <1>0, <2>5, <3>2, <3>3, FaultBalances
  <2> QED
    BY <1>23, <2>4, <2>5 DEF ApproveCommit
<1>24. CASE SweepRead
  BY <1>3, <1>24 DEF SweepRead, MayDraft, WorkerMayDraft, At
<1>25. CASE SweepWrite
  <2>1. \A e \in Drafts : status'[e] = "pending" => status[e] = "pending"
    BY <1>25 DEF SweepWrite
  <2>2. \A e \in Drafts : Open(e)' => Open(e)
    BY <1>25, <2>1 DEF SweepWrite, Open, Spent
  <2> QED
    BY <1>2, <1>25, <2>2 DEF SweepWrite
<1> QED
  BY <1>4, <1>5, <1>6, <1>7, <1>8, <1>10, <1>12, <1>13, <1>14, <1>15, <1>16, <1>17, <1>18,
     <1>19, <1>20, <1>21, <1>22, <1>23, <1>24, <1>25 DEF Next, WorkerStep

LEMMA AnswerInit == Init => AnswerInv
<1> SUFFICES ASSUME Init, NEW m \in Messages, NEW k \in Kinds PROVE Balanced(m, k)
  BY DEF AnswerInv
<1>1. Received(m, k) = {}
  BY Limits DEF Init, Received
<1>2. OpenAbout(m, k) = {}
  BY DEF Init, OpenAbout, Open, Idle
<1>3. Due(m, k) \in {0, 1} /\ faults = 0
  BY DEF Due, Init
<1> QED
  BY <1>1, <1>2, <1>3, FS_EmptySet DEF Balanced

LEMMA AnswerGives == DraftInv /\ AnswerInv => AnsweredOnce
<1> SUFFICES ASSUME DraftInv, AnswerInv, NEW m \in Messages, NEW k \in Kinds
             PROVE  Cardinality(Received(m, k)) <= 1 + 2 * faults
  BY DEF AnsweredOnce
<1>1. IsFiniteSet(Received(m, k))
      /\ Cardinality(Received(m, k)) + Cardinality(OpenAbout(m, k)) + Due(m, k) <= 1 + 2 * faults
  BY DEF AnswerInv, Balanced
<1>2. Cardinality(Received(m, k)) \in Nat /\ Cardinality(OpenAbout(m, k)) \in Nat
  BY <1>1, FS_CardinalityType, OpenFinite
<1>3. Due(m, k) \in {0, 1} /\ faults \in Nat
  BY Limits DEF Due, DraftInv, TypeOK
<1> QED
  BY <1>1, <1>2, <1>3

-----------------------------------------------------------------------------
(***************************************************************************)
(* The theorems                                                            *)
(***************************************************************************)

\* Every variable of the conversation keeps its type: statuses, locks and transactions.
THEOREM TypeCorrect == Spec => []TypeOK
<1>1. DraftInv => TypeOK
  BY DEF DraftInv
<1> QED
  BY <1>1, DraftInvInit, DraftInvNext, PTL DEF Spec

\* A message is answered once of each kind, over all its drafts and attempts, and at most twice
\* more for each answer, commit or process that is lost: however many workers draft, people
\* approve and reject, and wherever the expiry sweep falls between them.
THEOREM MessagesAreAnsweredOnce == Spec => []AnsweredOnce
<1>1. Init => DraftInv /\ AnswerInv
  BY DraftInvInit, AnswerInit
<1>2. DraftInv /\ AnswerInv /\ [Next]_vars => DraftInv' /\ AnswerInv'
  BY DraftInvNext, AnswerNext
<1> QED
  BY <1>1, <1>2, AnswerGives, PTL DEF Spec
=============================================================================
