--------------------------- MODULE BookingsProofs ---------------------------
(***************************************************************************)
(* Proofs about Bookings, for any appointments, slots, processes, payments *)
(* and failures: types, one live appointment per slot, and what becomes of *)
(* an appointment that was held for a deposit.                             *)
(*                                                                         *)
(* Effect says what any commit does to the rows; the invariants are proved *)
(* from it and not from the five commits.                                  *)
(***************************************************************************)
EXTENDS Bookings, TLAPS

Procs == Desk \union Hooks

\* A transaction under way is about an appointment.
TypeInv == TypeOK /\ \A p \in Procs : tx[p].op # "idle" => tx[p].appt \in Appts

\* The status an operation that is not a booking leaves behind.
Becomes(t, old, new) ==
    \/ t.op = "cancel" /\ new = "cancelled"
    \/ t.op = "move" /\ new = old
    \/ t.op = "mark" /\ new = t.to
    \/ t.op = "confirm" /\ new = "confirmed"

\* Row a becomes r, which the index lets through.
RowBecomes(a, r) ==
    /\ r \in Row
    /\ row' = [row EXCEPT ![a] = r]
    /\ Live(r.status) => Free(r.slot, a)

\* A booking is inserted with its deposit.
Booked(t) ==
    /\ t.op = "book"
    /\ RowBecomes(t.appt, [status |-> t.to, slot |-> t.slot, unpaid |-> FALSE])
    /\ deposit' = [deposit EXCEPT ![t.appt] =
                        IF t.to = "awaiting_deposit" THEN "open" ELSE "none"]
    /\ inTime' = inTime

\* A row that exists is changed.
Changed(t) ==
    /\ \E r \in Row :
        /\ RowBecomes(t.appt, r)
        /\ r.unpaid = row[t.appt].unpaid
        /\ r.slot = row[t.appt].slot \/ (t.op = "move" /\ r.slot = t.slot)
        /\ Becomes(t, row[t.appt].status, r.status)
    /\ \/ deposit' = deposit
       \/ t.op = "confirm" /\ t.item = "deposit" /\ deposit' = [deposit EXCEPT ![t.appt] = "met"]
    /\ \/ inTime' = inTime
       \/ t.op = "confirm" /\ t.appt \notin late /\ inTime' = inTime \union {t.appt}

\* No row is changed, though a payment may be recorded.
Unchanged(t) ==
    /\ row' = row /\ inTime' = inTime
    /\ \/ deposit' = deposit
       \/ t.op = "confirm" /\ t.item = "deposit" /\ deposit' = [deposit EXCEPT ![t.appt] = "met"]

\* What a commit of p does.
Effect(p) ==
    /\ tx[p].op # "idle"
    /\ Booked(tx[p]) \/ Changed(tx[p]) \/ Unchanged(tx[p])
    /\ tx' = [tx EXCEPT ![p] = NoTx]
    /\ UNCHANGED <<late, paid, bell, sweep, requests, faults>>

LEMMA NoTxType == NoTx \in Tx
BY DEF NoTx, Tx, Ops, Statuses, Items

\* Every commit has that effect.
LEMMA CommitEffect ==
    ASSUME TypeInv, NEW p \in Procs, Commit(p)
    PROVE  Effect(p)
<1> DEFINE t == tx[p]
           a == t.appt
<1>0. /\ t \in Tx /\ t.op # "idle" /\ a \in Appts
      /\ row \in [Appts -> Row] /\ row[a] \in Row
      /\ deposit \in [Appts -> {"none", "open", "met", "closed"}]
  BY DEF TypeInv, TypeOK, Procs, Commit, CommitBook, CommitCancel, CommitMove, CommitMark,
         CommitConfirm
<1>1. CASE CommitBook(p)
  <2>1. CASE Free(t.slot, a)
    <3>1. [status |-> t.to, slot |-> t.slot, unpaid |-> FALSE] \in Row
      BY <1>0 DEF Tx, Row
    <3>2. Booked(t)
      BY <1>0, <1>1, <2>1, <3>1 DEF CommitBook, Booked, RowBecomes
    <3> QED
      BY <1>0, <1>1, <3>2 DEF CommitBook, End, Effect
  <2>2. CASE ~Free(t.slot, a)
    BY <1>0, <1>1, <2>2 DEF CommitBook, End, Effect, Unchanged
  <2> QED
    BY <2>1, <2>2
<1>2. CASE CommitCancel(p)
  <2>1. CASE t.seen = "cancelled"
    BY <1>0, <1>2, <2>1 DEF CommitCancel, End, Effect, Unchanged
  <2>2. CASE t.seen # "cancelled"
    <3> DEFINE r == [row[a] EXCEPT !.status = "cancelled"]
    <3>1. /\ r \in Row /\ r.status = "cancelled" /\ r.unpaid = row[a].unpaid
          /\ r.slot = row[a].slot
      BY <1>0 DEF Row, Statuses
    <3>2. row' = [row EXCEPT ![a] = r]
      BY <1>0, <1>2, <2>2 DEF CommitCancel
    <3>3. Changed(t)
      BY <1>2, <3>1, <3>2 DEF CommitCancel, Changed, RowBecomes, Becomes, Live
    <3> QED
      BY <1>0, <1>2, <3>3 DEF CommitCancel, End, Effect
  <2> QED
    BY <2>1, <2>2
<1>3. CASE CommitMove(p)
  <2>1. CASE Live(row[a].status) => Free(t.slot, a)
    <3> DEFINE r == [row[a] EXCEPT !.slot = t.slot]
    <3>1. /\ r \in Row /\ r.status = row[a].status /\ r.unpaid = row[a].unpaid
          /\ r.slot = t.slot
      BY <1>0 DEF Row, Tx
    <3>2. row' = [row EXCEPT ![a] = r]
      BY <1>0, <1>3, <2>1 DEF CommitMove
    <3>3. Changed(t)
      BY <1>3, <2>1, <3>1, <3>2 DEF CommitMove, Changed, RowBecomes, Becomes
    <3> QED
      BY <1>0, <1>3, <3>3 DEF CommitMove, End, Effect
  <2>2. CASE ~(Live(row[a].status) => Free(t.slot, a))
    BY <1>0, <1>3, <2>2 DEF CommitMove, End, Effect, Unchanged
  <2> QED
    BY <2>1, <2>2
<1>4. CASE CommitMark(p)
  <2>1. CASE t.to # t.seen /\ MayRevive(a)
    <3> DEFINE r == [row[a] EXCEPT !.status = t.to]
    <3>1. /\ r \in Row /\ r.status = t.to /\ r.unpaid = row[a].unpaid
          /\ r.slot = row[a].slot
      BY <1>0 DEF Row, Tx
    <3>2. row' = [row EXCEPT ![a] = r]
      BY <1>0, <1>4, <2>1 DEF CommitMark
    <3>3. Changed(t)
      BY <1>4, <2>1, <3>1, <3>2 DEF CommitMark, Changed, RowBecomes, Becomes, MayRevive
    <3> QED
      BY <1>0, <1>4, <3>3 DEF CommitMark, End, Effect
  <2>2. CASE ~(t.to # t.seen /\ MayRevive(a))
    BY <1>0, <1>4, <2>2 DEF CommitMark, End, Effect, Unchanged
  <2> QED
    BY <2>1, <2>2
<1>5. CASE CommitConfirm(p)
  <2> DEFINE writes == ConfirmedStatus(t.seen) # t.seen
  <2>1. /\ t.op = "confirm" /\ tx' = [tx EXCEPT ![p] = NoTx]
        /\ UNCHANGED <<late, paid, bell, sweep, requests, faults>>
    BY <1>5 DEF CommitConfirm, End
  <2>2. CASE ~(writes => MayRevive(a))
    <3>1. UNCHANGED <<deposit, row, inTime>>
      BY <1>5, <2>2 DEF CommitConfirm
    <3> QED
      BY <1>0, <2>1, <3>1 DEF Effect, Unchanged
  <2>3. CASE writes => MayRevive(a)
    <3>1. /\ deposit' = [deposit EXCEPT ![a] = IF t.item = "deposit" THEN "met" ELSE @]
          /\ row' = [row EXCEPT ![a].status = IF writes THEN ConfirmedStatus(t.seen) ELSE @]
          /\ inTime' = IF writes /\ a \notin late THEN inTime \union {a} ELSE inTime
      BY <1>5, <2>3 DEF CommitConfirm
    <3>2. \/ deposit' = deposit
          \/ t.item = "deposit" /\ deposit' = [deposit EXCEPT ![a] = "met"]
      BY <1>0, <3>1
    <3>3. CASE ~writes
      <4>1. row' = row /\ inTime' = inTime
        BY <1>0, <3>1, <3>3 DEF Row
      <4> QED
        BY <1>0, <2>1, <3>2, <4>1 DEF Effect, Unchanged
    <3>4. CASE writes
      <4> DEFINE r == [row[a] EXCEPT !.status = "confirmed"]
      <4>1. /\ r \in Row /\ r.status = "confirmed" /\ r.unpaid = row[a].unpaid
            /\ r.slot = row[a].slot
        BY <1>0 DEF Row, Statuses
      <4>2. ConfirmedStatus(t.seen) = "confirmed"
        BY <3>4 DEF ConfirmedStatus
      <4>3. row' = [row EXCEPT ![a] = r]
        BY <1>0, <3>1, <3>4, <4>2
      <4>4. Changed(t)
        BY <2>1, <2>3, <3>1, <3>2, <3>4, <4>1, <4>3 DEF Changed, RowBecomes, Becomes, MayRevive
      <4> QED
        BY <1>0, <2>1, <4>4 DEF Effect
    <3> QED
      BY <3>3, <3>4
  <2> QED
    BY <2>2, <2>3
<1> QED
  BY <1>1, <1>2, <1>3, <1>4, <1>5 DEF Commit

-----------------------------------------------------------------------------
(***************************************************************************)
(* Types                                                                   *)
(***************************************************************************)

\* What an operation has when it has loaded what it needs, and nothing else changes.
Loads(p) ==
    /\ \E t \in Tx : t.appt \in Appts /\ tx' = [tx EXCEPT ![p] = t]
    /\ UNCHANGED <<row, deposit, late, paid, inTime, sweep, faults>>

\* Loading keeps the types, whatever it counts or takes from the bell.
LEMMA LoadType ==
    ASSUME TypeInv, NEW p \in Procs, Loads(p),
           requests' \in 0 .. MaxRequests, bell' \in [Appts -> SUBSET Items]
    PROVE  TypeInv'
<1>1. PICK t \in Tx : t.appt \in Appts /\ tx' = [tx EXCEPT ![p] = t]
  BY DEF Loads
<1>2. tx \in [Procs -> Tx]
  BY DEF TypeInv, TypeOK, Procs
<1>3. tx' \in [Procs -> Tx]
  BY <1>1, <1>2
<1>4. \A q \in Procs : tx'[q].op # "idle" => tx'[q].appt \in Appts
  BY <1>1, <1>2 DEF TypeInv
<1> QED
  BY <1>3, <1>4 DEF Loads, TypeInv, TypeOK, Procs

\* A commit keeps them.
LEMMA EffectType ==
    ASSUME TypeInv, NEW p \in Procs, Effect(p)
    PROVE  TypeInv'
<1> DEFINE t == tx[p]
<1>0. /\ t \in Tx /\ t.appt \in Appts /\ tx \in [Procs -> Tx]
      /\ row \in [Appts -> Row] /\ inTime \subseteq Appts
      /\ deposit \in [Appts -> {"none", "open", "met", "closed"}]
  BY DEF TypeInv, TypeOK, Procs, Effect
<1>1. tx' \in [Procs -> Tx]
  BY <1>0, NoTxType DEF Effect
<1>2. \A q \in Procs : tx'[q].op # "idle" => tx'[q].appt \in Appts
  BY <1>0 DEF Effect, NoTx, TypeInv
<1>3. row' \in [Appts -> Row]
  BY <1>0 DEF Effect, Booked, Changed, Unchanged, RowBecomes
<1>4. deposit' \in [Appts -> {"none", "open", "met", "closed"}]
  BY <1>0 DEF Effect, Booked, Changed, Unchanged
<1>5. inTime' \subseteq Appts
  BY <1>0 DEF Effect, Booked, Changed, Unchanged
<1> QED
  BY <1>1, <1>2, <1>3, <1>4, <1>5 DEF TypeInv, TypeOK, Effect, Procs

\* One more request is within the bound.
LEMMA CountedType ==
    ASSUME TypeInv, Counted
    PROVE  requests' \in 0 .. MaxRequests
BY BookingsAssumption DEF TypeInv, TypeOK, Counted

\* What is loaded is of the right type.
LEMMA TxType ==
    ASSUME NEW op \in Ops, NEW a \in Appts, NEW seen \in Statuses, NEW s \in Slots \union {None},
           NEW to \in Statuses, NEW item \in Items
    PROVE  [op |-> op, appt |-> a, seen |-> seen, slot |-> s, to |-> to, item |-> item] \in Tx
BY DEF Tx

\* Every step keeps the types.
LEMMA TypeStep == TypeInv /\ [Next]_vars => TypeInv'
<1> SUFFICES ASSUME TypeInv, [Next]_vars PROVE TypeInv'
  OBVIOUS
<1>0. /\ row \in [Appts -> Row] /\ \A a \in Appts : row[a].status \in Statuses
      /\ bell \in [Appts -> SUBSET Items] /\ paid \in [Appts -> SUBSET Items]
      /\ deposit \in [Appts -> {"none", "open", "met", "closed"}]
      /\ requests \in 0 .. MaxRequests /\ faults \in 0 .. MaxFaults
      /\ sweep \subseteq Appts /\ tx \in [Procs -> Tx]
  BY DEF TypeInv, TypeOK, Row, Procs
<1>1. ASSUME NEW a \in Appts, DeadlinePasses(a) PROVE TypeInv'
  BY <1>1 DEF DeadlinePasses, TypeInv, TypeOK
<1>2. ASSUME NEW a \in Appts, PaidElsewhere(a) PROVE TypeInv'
  <2>1. deposit' \in [Appts -> {"none", "open", "met", "closed"}]
    BY <1>0, <1>2 DEF PaidElsewhere
  <2>2. requests' \in 0 .. MaxRequests
    BY <1>2, CountedType DEF PaidElsewhere
  <2> QED
    BY <1>2, <2>1, <2>2 DEF PaidElsewhere, TypeInv, TypeOK
<1>3. ASSUME NEW a \in Appts, CloseDeposit(a) PROVE TypeInv'
  <2>1. deposit' \in [Appts -> {"none", "open", "met", "closed"}]
    BY <1>0, <1>3 DEF CloseDeposit
  <2>2. requests' \in 0 .. MaxRequests
    BY <1>3, CountedType DEF CloseDeposit
  <2> QED
    BY <1>3, <2>1, <2>2 DEF CloseDeposit, TypeInv, TypeOK
<1>4. ASSUME NEW a \in Appts, NEW item \in Items, PayInChat(a, item) PROVE TypeInv'
  <2>1. /\ paid' \in [Appts -> SUBSET Items] /\ bell' \in [Appts -> SUBSET Items]
    BY <1>0, <1>4 DEF PayInChat
  <2> QED
    BY <1>4, <2>1 DEF PayInChat, TypeInv, TypeOK
<1>5. ASSUME NEW a \in Appts, NEW p \in Hooks, NEW item \in Items, Hear(p, a, item)
      PROVE  TypeInv'
  <2>1. bell' \in [Appts -> SUBSET Items] /\ requests' \in 0 .. MaxRequests /\ p \in Procs
    BY <1>0, <1>5 DEF Hear, Procs
  <2>2. CASE UNCHANGED tx
    BY <1>5, <2>1, <2>2 DEF Hear, TypeInv, TypeOK
  <2>3. CASE ~UNCHANGED tx
    <3> DEFINE t == [NoTx EXCEPT !.op = "confirm", !.appt = a, !.seen = row[a].status,
                                 !.item = item]
    <3>1. t \in Tx /\ t.appt = a
      BY <1>0, <1>5 DEF NoTx, Tx, Ops, Statuses
    <3>2. Loads(p)
      BY <1>5, <2>3, <3>1 DEF Hear, Loads
    <3> QED
      BY <2>1, <3>2, LoadType
  <2> QED
    BY <2>2, <2>3
<1>6. ASSUME NEW p \in Desk, NEW a \in Appts, Cancel(p, a) PROVE TypeInv'
  <2> DEFINE t == [NoTx EXCEPT !.op = "cancel", !.appt = a, !.seen = row[a].status]
  <2>1. t \in Tx /\ t.appt = a /\ p \in Procs
    BY <1>0, <1>6 DEF NoTx, Tx, Ops, Statuses, Items, Procs
  <2>2. Loads(p) /\ bell' = bell
    BY <1>6, <2>1 DEF Cancel, Loads
  <2>3. requests' \in 0 .. MaxRequests
    BY <1>6, CountedType DEF Cancel, Request
  <2> QED
    BY <1>0, <2>1, <2>2, <2>3, LoadType
<1>7. ASSUME NEW p \in Desk, NEW a \in Appts, NEW wanted \in Settable, SetStatus(p, a, wanted)
      PROVE  TypeInv'
  <2> DEFINE t == [NoTx EXCEPT !.op = "mark", !.appt = a, !.seen = row[a].status, !.to = wanted]
  <2>1. t \in Tx /\ t.appt = a /\ p \in Procs
    BY <1>0, <1>7 DEF NoTx, Tx, Ops, Statuses, Items, Procs, Settable
  <2>2. Loads(p) /\ bell' = bell
    BY <1>7, <2>1 DEF SetStatus, Loads
  <2>3. requests' \in 0 .. MaxRequests
    BY <1>7, CountedType DEF SetStatus, Request
  <2> QED
    BY <1>0, <2>1, <2>2, <2>3, LoadType
<1>8. ASSUME NEW p \in Desk, NEW a \in Appts, NEW s \in Slots, Book(p, a, s) PROVE TypeInv'
  <2>1. PICK policy \in BOOLEAN :
            tx' = [tx EXCEPT ![p] = [NoTx EXCEPT !.op = "book", !.appt = a, !.slot = s,
                                     !.to = IF policy THEN "awaiting_deposit" ELSE "confirmed"]]
    BY <1>8 DEF Book
  <2> DEFINE t == [NoTx EXCEPT !.op = "book", !.appt = a, !.slot = s,
                               !.to = IF policy THEN "awaiting_deposit" ELSE "confirmed"]
  <2>2. t \in Tx /\ t.appt = a /\ p \in Procs
    BY DEF NoTx, Tx, Ops, Statuses, Items, Procs
  <2>3. Loads(p) /\ bell' = bell /\ requests' = requests
    BY <1>8, <2>1, <2>2 DEF Book, Loads
  <2> QED
    BY <1>0, <2>2, <2>3, LoadType
<1>9. ASSUME NEW p \in Desk, NEW a \in Appts, NEW s \in Slots, Reschedule(p, a, s) PROVE TypeInv'
  <2> DEFINE t == [NoTx EXCEPT !.op = "move", !.appt = a, !.slot = s]
  <2>1. t \in Tx /\ t.appt = a /\ p \in Procs
    BY DEF NoTx, Tx, Ops, Statuses, Items, Procs
  <2>2. Loads(p) /\ bell' = bell
    BY <1>9, <2>1 DEF Reschedule, Loads
  <2>3. requests' \in 0 .. MaxRequests
    BY <1>9, CountedType DEF Reschedule, Request
  <2> QED
    BY <1>0, <2>1, <2>2, <2>3, LoadType
<1>10. ASSUME NEW p \in Procs, Commit(p) PROVE TypeInv'
  BY <1>10, CommitEffect, EffectType
<1>11. ASSUME NEW p \in Procs, Abort(p) PROVE TypeInv'
  <2>1. tx' \in [Procs -> Tx] /\ tx' = [tx EXCEPT ![p] = NoTx] /\ NoTx.op = "idle"
    BY <1>0, <1>11, NoTxType DEF Abort, End, NoTx
  <2>2. \A q \in Procs : tx'[q].op # "idle" => tx'[q].appt \in Appts
    BY <1>0, <2>1 DEF TypeInv
  <2>3. faults' \in 0 .. MaxFaults
    BY <1>0, <1>11, BookingsAssumption DEF Abort
  <2> QED
    BY <1>11, <2>1, <2>2, <2>3 DEF Abort, TypeInv, TypeOK, Procs
<1>12. CASE SweepRead
  BY <1>12 DEF SweepRead, Unpaid, TypeInv, TypeOK
<1>13. CASE SweepWrite
  <2>0. faults' = faults \/ (faults < MaxFaults /\ faults' = faults + 1)
    BY <1>13, Zenon DEF SweepWrite
  <2>1. faults' \in 0 .. MaxFaults
    BY <1>0, <2>0, BookingsAssumption
  <2>2. \A r \in Row : [r EXCEPT !.status = "cancelled", !.unpaid = TRUE] \in Row
    BY DEF Row, Statuses
  <2>3. row' \in [Appts -> Row]
    BY <1>0, <1>13, <2>2, Zenon DEF SweepWrite
  <2> QED
    BY <1>13, <2>1, <2>3 DEF SweepWrite, TypeInv, TypeOK
<1>14. CASE UNCHANGED vars
  BY <1>14 DEF vars, TypeInv, TypeOK
<1>15. ASSUME NEW a \in Appts,
              \/ DeadlinePasses(a) \/ PaidElsewhere(a) \/ CloseDeposit(a)
              \/ \E item \in Items : PayInChat(a, item)
              \/ \E p \in Hooks, item \in Items : Hear(p, a, item)
              \/ \E p \in Desk :
                    \/ Cancel(p, a)
                    \/ \E wanted \in Settable : SetStatus(p, a, wanted)
                    \/ \E s \in Slots : Book(p, a, s) \/ Reschedule(p, a, s)
       PROVE  TypeInv'
  BY <1>1, <1>2, <1>3, <1>4, <1>5, <1>6, <1>7, <1>8, <1>9, <1>15, Zenon
<1>16. CASE \E p \in Procs : Commit(p) \/ Abort(p)
  BY <1>10, <1>11, <1>16, Zenon
<1> QED
  BY <1>12, <1>13, <1>14, <1>15, <1>16, Zenon DEF Next, Procs

\* The types are right at the start.
LEMMA TypeInit == Init => TypeInv
<1> SUFFICES ASSUME Init PROVE TypeInv
  OBVIOUS
<1>1. NoRow \in Row
  BY DEF NoRow, Row, Statuses
<1>2. row \in [Appts -> Row] /\ tx \in [Procs -> Tx]
  BY <1>1, NoTxType DEF Init, Procs
<1>3. /\ deposit \in [Appts -> {"none", "open", "met", "closed"}]
      /\ paid \in [Appts -> SUBSET Items] /\ bell \in [Appts -> SUBSET Items]
  BY DEF Init
<1>4. \A p \in Procs : tx[p].op = "idle"
  BY DEF Init, Procs, NoTx
<1> QED
  BY <1>2, <1>3, <1>4, BookingsAssumption DEF Init, TypeInv, TypeOK, Procs

\* The types, of every appointment and of every transaction on one.
THEOREM TypeCorrect == Spec => []TypeOK
<1>1. Spec => []TypeInv
  BY TypeInit, TypeStep, PTL DEF Spec
<1>2. TypeInv => TypeOK
  BY DEF TypeInv
<1> QED
  BY <1>1, <1>2, PTL

-----------------------------------------------------------------------------
(***************************************************************************)
(* One live appointment per slot                                           *)
(***************************************************************************)

\* The index keeps it when it lets one row through.
LEMMA RowSlot ==
    ASSUME TypeInv, OneLivePerSlot, NEW a \in Appts, NEW r \in Row, RowBecomes(a, r)
    PROVE  OneLivePerSlot'
<1>1. row \in [Appts -> Row]
  BY DEF TypeInv, TypeOK
<1>2. \A b \in Appts : row'[b] = IF b = a THEN r ELSE row[b]
  BY <1>1 DEF RowBecomes
<1>3. \A b \in Appts \ {a} : Live(r.status) /\ Live(row[b].status) => row[b].slot # r.slot
  BY DEF RowBecomes, Free
<1> QED
  BY <1>2, <1>3 DEF OneLivePerSlot

\* A step that changes no row, or cancels some, keeps it: only commits do more.
LEMMA FewerLive ==
    ASSUME OneLivePerSlot,
           \A a \in Appts : /\ row'[a].slot = row[a].slot
                            /\ Live(row'[a].status) => Live(row[a].status)
    PROVE  OneLivePerSlot'
BY DEF OneLivePerSlot

\* Every step keeps it.
LEMMA SlotStep == TypeInv /\ OneLivePerSlot /\ [Next]_vars => OneLivePerSlot'
<1> SUFFICES ASSUME TypeInv, OneLivePerSlot, [Next]_vars PROVE OneLivePerSlot'
  OBVIOUS
<1>1. ASSUME NEW p \in Procs, Commit(p) PROVE OneLivePerSlot'
  <2>1. Effect(p)
    BY <1>1, CommitEffect
  <2>2. tx[p].appt \in Appts
    BY <2>1 DEF Effect, TypeInv
  <2>3. CASE row' = row
    BY <2>3, FewerLive
  <2>4. ASSUME NEW r \in Row, RowBecomes(tx[p].appt, r) PROVE OneLivePerSlot'
    BY <2>2, <2>4, RowSlot
  <2> QED
    BY <2>1, <2>3, <2>4 DEF Effect, Booked, Changed, Unchanged, RowBecomes
<1>2. CASE SweepWrite
  <2>1. \A a \in Appts : \/ row'[a] = row[a]
                         \/ row'[a] = [row[a] EXCEPT !.status = "cancelled", !.unpaid = TRUE]
    BY <1>2 DEF SweepWrite
  <2>2. \A r \in Row : LET c == [r EXCEPT !.status = "cancelled", !.unpaid = TRUE]
                       IN  c.slot = r.slot /\ ~Live(c.status)
    BY DEF Row, Live
  <2>3. \A a \in Appts : row[a] \in Row
    BY DEF TypeInv, TypeOK
  <2> QED
    BY <2>1, <2>2, <2>3, FewerLive
<1>3. ASSUME ~SweepWrite, \A p \in Procs : ~Commit(p) PROVE row' = row
  <2>1. CASE UNCHANGED vars
    BY <2>1, Zenon DEF vars
  <2>2. CASE SweepRead \/ \E p \in Procs : Abort(p)
    BY <2>2, Zenon DEF SweepRead, Abort
  <2>3. ASSUME NEW a \in Appts,
               \/ DeadlinePasses(a) \/ PaidElsewhere(a) \/ CloseDeposit(a)
               \/ \E item \in Items : PayInChat(a, item)
               \/ \E p \in Hooks, item \in Items : Hear(p, a, item)
        PROVE  row' = row
    BY <2>3, Zenon DEF DeadlinePasses, PaidElsewhere, CloseDeposit, PayInChat, Hear
  <2>4. ASSUME NEW p \in Desk, NEW a \in Appts,
               \/ Cancel(p, a)
               \/ \E wanted \in Settable : SetStatus(p, a, wanted)
               \/ \E s \in Slots : Book(p, a, s) \/ Reschedule(p, a, s)
        PROVE  row' = row
    BY <2>4, Zenon DEF Cancel, SetStatus, Book, Reschedule
  <2> QED
    BY <1>3, <2>1, <2>2, <2>3, <2>4, Zenon DEF Next, Procs
<1> QED
  BY <1>1, <1>2, <1>3, FewerLive

\* However many book, move and confirm at the same moment, two live appointments never
\* have one slot.
THEOREM SlotsAreKept == Spec => []OneLivePerSlot
<1>1. Init => OneLivePerSlot
  BY DEF Init, OneLivePerSlot, NoRow, Live
<1>2. Spec => []TypeInv
  BY TypeInit, TypeStep, PTL DEF Spec
<1> QED
  BY <1>1, <1>2, SlotStep, PTL DEF Spec

-----------------------------------------------------------------------------
(***************************************************************************)
(* What becomes of a held appointment                                      *)
(***************************************************************************)

\* What each transaction under way may rely on, though it waits for no one.
TxInv(p) ==
    LET t == tx[p] IN
    /\ t.op = "idle" => t.appt = None
    /\ t.op = "book" => /\ p \in Desk
                        /\ t.to \in {"awaiting_deposit", "confirmed"}
                        /\ row[t.appt].status = "none"
                        /\ \A q \in Procs \ {p} : tx[q].appt # t.appt
    /\ t.op \notin {"idle", "book"} => row[t.appt].status # "none"
    /\ t.op = "mark" => /\ t.to \in Settable
                        /\ deposit[t.appt] # "none" => paid[t.appt] # {}
    /\ t.op = "confirm" => paid[t.appt] # {}

\* What holds of each appointment: a confirmed one was paid for, and one that was
\* confirmed in time is not late, and is not waiting any more.
RowInv(a) ==
    /\ bell[a] \subseteq paid[a]
    /\ paid[a] # {} => row[a].status # "none"
    /\ a \in late => row[a].status # "none" /\ a \notin inTime
    /\ a \in inTime => row[a].status \notin {"none", "awaiting_deposit"}
    /\ a \in sweep \/ row[a].unpaid => a \in late
    /\ deposit[a] # "none" /\ row[a].status \in Settable => paid[a] # {}

\* Implies both of the properties about deposits, and is inductive with TypeInv.
HoldInv == (\A p \in Procs : TxInv(p)) /\ (\A a \in Appts : RowInv(a))

\* An operation begun on an appointment that fits it disturbs nothing.
LEMMA LoadHold ==
    ASSUME TypeInv, HoldInv, NEW p \in Procs, NEW t \in Tx, tx[p].op = "idle",
           t.appt \in Appts, tx' = [tx EXCEPT ![p] = t],
           UNCHANGED <<row, deposit, late, paid, inTime, sweep>>,
           \A a \in Appts : bell'[a] \subseteq bell[a],
           t.op # "idle",
           t.op = "book" => /\ p \in Desk
                            /\ t.to \in {"awaiting_deposit", "confirmed"}
                            /\ row[t.appt].status = "none"
                            /\ \A q \in Procs : tx[q].appt # t.appt,
           t.op # "book" => row[t.appt].status # "none",
           t.op = "mark" => /\ t.to \in Settable
                            /\ deposit[t.appt] # "none" => paid[t.appt] # {},
           t.op = "confirm" => paid[t.appt] # {}
    PROVE  HoldInv'
<1>1. tx'[p] = t /\ \A q \in Procs \ {p} : tx'[q] = tx[q]
  BY DEF TypeInv, TypeOK, Procs
<1>2. TxInv(p)'
  BY <1>1 DEF TxInv
<1>3. ASSUME NEW q \in Procs \ {p} PROVE TxInv(q)'
  <2>1. TxInv(q) /\ tx'[q] = tx[q] /\ (tx[q].op # "idle" => tx[q].appt \in Appts)
    BY <1>1, <1>3 DEF HoldInv, TypeInv
  <2>2. tx[q].op = "book" => t.appt # tx[q].appt
    BY <2>1 DEF TxInv
  <2> QED
    BY <1>1, <2>1, <2>2 DEF TxInv
<1>4. ASSUME NEW a \in Appts PROVE RowInv(a)'
  BY <1>4 DEF HoldInv, RowInv
<1> QED
  BY <1>2, <1>3, <1>4 DEF HoldInv

\* A commit keeps it.
LEMMA EffectHold ==
    ASSUME TypeInv, HoldInv, NEW p \in Procs, Effect(p)
    PROVE  HoldInv'
<1>a. PICK t \in Tx, x \in Appts : t = tx[p] /\ x = t.appt
  BY DEF TypeInv, TypeOK, Procs, Effect
<1>0. /\ t = tx[p] /\ x = t.appt /\ tx \in [Procs -> Tx] /\ row \in [Appts -> Row]
      /\ deposit \in [Appts -> {"none", "open", "met", "closed"}]
      /\ TxInv(p) /\ t.op # "idle" /\ RowInv(x)
  BY <1>a DEF TypeInv, TypeOK, Procs, Effect, HoldInv
<1>1. /\ tx'[p] = NoTx /\ \A q \in Procs \ {p} : tx'[q] = tx[q]
      /\ UNCHANGED <<late, paid, bell, sweep>>
  BY <1>0 DEF Effect
<1>2. \A a \in Appts \ {x} : /\ row'[a] = row[a] /\ deposit'[a] = deposit[a]
                             /\ a \in inTime' <=> a \in inTime
  BY <1>0 DEF Effect, Booked, Changed, Unchanged, RowBecomes
<1>3. ASSUME NEW a \in Appts \ {x} PROVE RowInv(a)'
  BY <1>1, <1>2, <1>3 DEF HoldInv, RowInv
\* The row that is committed.
<1>4. /\ RowInv(x)'
      /\ row[x].status # "none" => row'[x].status # "none"
      /\ t.op # "book" => /\ row[x].status # "none"
                          /\ deposit'[x] # "none" => deposit[x] # "none" \/ paid[x] # {}
  <2>1. CASE Booked(t)
    <3>1. /\ row'[x] = [status |-> t.to, slot |-> t.slot, unpaid |-> FALSE]
          /\ deposit'[x] = IF t.to = "awaiting_deposit" THEN "open" ELSE "none"
          /\ inTime' = inTime /\ t.op = "book"
      BY <1>0, <2>1 DEF Booked, RowBecomes
    <3>2. /\ t.to \in {"awaiting_deposit", "confirmed"} /\ row[x].status = "none"
      BY <1>0, <3>1 DEF TxInv
    <3> QED
      BY <1>0, <1>1, <3>1, <3>2 DEF RowInv, Settable
  <2>2. CASE Changed(t)
    <3>1. PICK r \in Row : /\ row'[x] = r /\ r.unpaid = row[x].unpaid
                           /\ Becomes(t, row[x].status, r.status)
      BY <1>0, <2>2 DEF Changed, RowBecomes
    <3>2. /\ deposit'[x] = deposit[x] \/ t.op = "confirm"
          /\ x \in inTime' => x \in inTime \/ (t.op = "confirm" /\ x \notin late)
      BY <1>0, <2>2 DEF Changed
    <3>3. t.op \notin {"idle", "book"} /\ row[x].status # "none"
      BY <1>0, <3>1 DEF Becomes, TxInv
    <3>4. CASE t.op = "cancel"
      BY <1>0, <1>1, <3>1, <3>2, <3>3, <3>4 DEF Becomes, RowInv, Settable
    <3>5. CASE t.op = "move"
      BY <1>0, <1>1, <3>1, <3>2, <3>3, <3>5 DEF Becomes, RowInv, Settable
    <3>6. CASE t.op = "mark"
      BY <1>0, <1>1, <3>1, <3>2, <3>3, <3>6 DEF Becomes, RowInv, Settable, TxInv
    <3>7. CASE t.op = "confirm"
      BY <1>0, <1>1, <3>1, <3>2, <3>3, <3>7 DEF Becomes, RowInv, Settable, TxInv
    <3> QED
      BY <3>1, <3>4, <3>5, <3>6, <3>7 DEF Becomes
  <2>3. CASE Unchanged(t)
    <3>1. /\ row' = row /\ inTime' = inTime
          /\ deposit'[x] = deposit[x] \/ t.op = "confirm"
      BY <1>0, <2>3 DEF Unchanged
    <3> QED
      BY <1>0, <1>1, <3>1 DEF RowInv, TxInv
  <2> QED
    BY <1>0, <2>1, <2>2, <2>3 DEF Effect
<1>5. ASSUME NEW q \in Procs \ {p} PROVE TxInv(q)'
  <2>1. TxInv(q) /\ tx'[q] = tx[q] /\ (tx[q].op # "idle" => tx[q].appt \in Appts)
    BY <1>1, <1>5 DEF HoldInv, TypeInv
  <2>2. NoTx.appt = None /\ None \notin Appts
    BY BookingsAssumption DEF NoTx
  <2>3. CASE tx[q].op = "book"
    <3>1. tx[q].appt # x
      BY <1>0, <2>1, <2>3, <1>5 DEF TxInv
    <3> QED
      BY <1>1, <1>2, <2>1, <2>2, <2>3, <3>1 DEF TxInv
  <2>4. CASE tx[q].op # "book" /\ tx[q].appt # x
    BY <1>1, <1>2, <2>1, <2>4 DEF TxInv
  <2>5. CASE tx[q].op # "book" /\ tx[q].appt = x
    <3>1. tx[q].op # "idle" /\ t.op # "book"
      BY <1>0, <1>5, <2>1, <2>2, <2>5 DEF TxInv
    <3> QED
      BY <1>1, <1>4, <2>1, <2>5, <3>1 DEF TxInv
  <2> QED
    BY <2>3, <2>4, <2>5
<1>6. TxInv(p)'
  BY <1>1 DEF TxInv, NoTx
<1> QED
  BY <1>3, <1>4, <1>5, <1>6 DEF HoldInv

\* So do the steps that touch no transaction.
LEMMA OutsideHold ==
    ASSUME TypeInv, HoldInv, tx' = tx,
           \A a \in Appts : /\ RowInv(a)'
                            /\ row'[a].status = "none" <=> row[a].status = "none"
                            /\ deposit'[a] # "none" => deposit[a] # "none"
                            /\ paid[a] \subseteq paid'[a]
    PROVE  HoldInv'
<1>1. ASSUME NEW p \in Procs PROVE TxInv(p)'
  <2>1. TxInv(p) /\ (tx[p].op # "idle" => tx[p].appt \in Appts)
    BY <1>1 DEF HoldInv, TypeInv
  <2>2. CASE tx[p].op = "idle"
    BY <2>1, <2>2 DEF TxInv
  <2>3. CASE tx[p].op # "idle"
    <3>1. PICK a \in Appts : a = tx[p].appt
      BY <2>1, <2>3
    <3>2. /\ row'[a].status = "none" <=> row[a].status = "none"
          /\ deposit'[a] # "none" => deposit[a] # "none"
          /\ paid[a] # {} => paid'[a] # {}
      BY <3>1
    <3> QED
      BY <2>1, <3>1, <3>2 DEF TxInv
  <2> QED
    BY <2>2, <2>3
<1> QED
  BY <1>1 DEF HoldInv

\* Every step keeps HoldInv.
LEMMA HoldStep == TypeInv /\ HoldInv /\ [Next]_vars => HoldInv'
<1> SUFFICES ASSUME TypeInv, HoldInv, [Next]_vars PROVE HoldInv'
  OBVIOUS
<1>0. /\ row \in [Appts -> Row] /\ \A a \in Appts : row[a].status \in Statuses
      /\ bell \in [Appts -> SUBSET Items] /\ paid \in [Appts -> SUBSET Items]
      /\ deposit \in [Appts -> {"none", "open", "met", "closed"}]
      /\ tx \in [Procs -> Tx]
      /\ \A a \in Appts : RowInv(a)
  BY DEF TypeInv, TypeOK, Row, Procs, HoldInv
<1>1. ASSUME NEW a \in Appts, DeadlinePasses(a) PROVE HoldInv'
  <2>1. \A b \in Appts : RowInv(b)'
    BY <1>0, <1>1 DEF DeadlinePasses, RowInv
  <2> QED
    BY <1>1, <2>1, OutsideHold DEF DeadlinePasses
<1>2. ASSUME NEW a \in Appts, PaidElsewhere(a) PROVE HoldInv'
  <2>1. /\ UNCHANGED <<row, late, paid, bell, inTime, tx, sweep>>
        /\ \A b \in Appts : deposit'[b] # "none" => deposit[b] # "none"
    BY <1>0, <1>2 DEF PaidElsewhere
  <2>2. \A b \in Appts : RowInv(b)'
    BY <1>0, <2>1 DEF RowInv
  <2> QED
    BY <2>1, <2>2, OutsideHold
<1>3. ASSUME NEW a \in Appts, CloseDeposit(a) PROVE HoldInv'
  <2>1. /\ UNCHANGED <<row, late, paid, bell, inTime, tx, sweep>>
        /\ \A b \in Appts : deposit'[b] # "none" => deposit[b] # "none"
    BY <1>0, <1>3 DEF CloseDeposit
  <2>2. \A b \in Appts : RowInv(b)'
    BY <1>0, <2>1 DEF RowInv
  <2> QED
    BY <2>1, <2>2, OutsideHold
<1>4. ASSUME NEW a \in Appts, NEW item \in Items, PayInChat(a, item) PROVE HoldInv'
  <2>1. \A b \in Appts : /\ bell'[b] \subseteq paid'[b] /\ paid[b] \subseteq paid'[b]
                         /\ b # a => paid'[b] = paid[b]
    BY <1>0, <1>4 DEF PayInChat, RowInv
  <2>2. row[a].status # "none" /\ UNCHANGED <<row, deposit, late, inTime, tx, sweep>>
    BY <1>4 DEF PayInChat
  <2>3. \A b \in Appts : RowInv(b)'
    BY <1>0, <2>1, <2>2 DEF RowInv
  <2> QED
    BY <2>1, <2>2, <2>3, OutsideHold
<1>5. ASSUME NEW a \in Appts, NEW p \in Hooks, NEW item \in Items, Hear(p, a, item)
      PROVE  HoldInv'
  <2>1. /\ \A b \in Appts : bell'[b] \subseteq bell[b]
        /\ p \in Procs /\ tx[p].op = "idle" /\ item \in bell[a]
        /\ UNCHANGED <<row, deposit, late, paid, inTime, sweep>>
    BY <1>0, <1>5 DEF Hear, Procs
  <2>2. CASE UNCHANGED tx
    <3>1. \A b \in Appts : RowInv(b)'
      BY <1>0, <2>1 DEF RowInv
    <3> QED
      BY <2>1, <2>2, <3>1, OutsideHold
  <2>3. CASE ~UNCHANGED tx
    <3> DEFINE t == [NoTx EXCEPT !.op = "confirm", !.appt = a, !.seen = row[a].status,
                                 !.item = item]
    <3>1. t \in Tx /\ t.appt = a /\ t.op = "confirm"
      BY <1>0, <1>5 DEF NoTx, Tx, Ops, Statuses
    <3>2. tx' = [tx EXCEPT ![p] = t]
      BY <1>5, <2>3 DEF Hear
    <3>3. paid[a] # {} /\ row[a].status # "none"
      BY <1>0, <2>1 DEF RowInv
    <3> HIDE DEF t
    <3> QED
      BY <2>1, <3>1, <3>2, <3>3, LoadHold
  <2> QED
    BY <2>2, <2>3
<1>6. ASSUME NEW p \in Desk, NEW a \in Appts, Cancel(p, a) PROVE HoldInv'
  <2> DEFINE t == [NoTx EXCEPT !.op = "cancel", !.appt = a, !.seen = row[a].status]
  <2>1. t \in Tx /\ t.appt = a /\ p \in Procs /\ t.op = "cancel"
    BY <1>0, <1>6 DEF NoTx, Tx, Ops, Statuses, Items, Procs
  <2>2. /\ tx' = [tx EXCEPT ![p] = t] /\ tx[p].op = "idle" /\ row[a].status # "none"
        /\ UNCHANGED <<row, deposit, late, paid, bell, inTime, sweep>>
    BY <1>6 DEF Cancel, Request
  <2> HIDE DEF t
  <2> QED
    BY <2>1, <2>2, LoadHold
<1>7. ASSUME NEW p \in Desk, NEW a \in Appts, NEW wanted \in Settable, SetStatus(p, a, wanted)
      PROVE  HoldInv'
  <2> DEFINE t == [NoTx EXCEPT !.op = "mark", !.appt = a, !.seen = row[a].status, !.to = wanted]
  <2>1. t \in Tx /\ t.appt = a /\ p \in Procs /\ t.op = "mark" /\ t.to \in Settable
    BY <1>0, <1>7 DEF NoTx, Tx, Ops, Statuses, Items, Procs, Settable
  <2>2. /\ tx' = [tx EXCEPT ![p] = t] /\ tx[p].op = "idle" /\ row[a].status # "none"
        /\ MayMark(row[a].status)
        /\ UNCHANGED <<row, deposit, late, paid, bell, inTime, sweep>>
    BY <1>7 DEF SetStatus, Request
  <2>3. row[a].status \in Settable
    BY <1>0, <2>2 DEF MayMark, Locked, Statuses, Settable
  <2>4. deposit[a] # "none" => paid[a] # {}
    BY <1>0, <2>3 DEF RowInv
  <2> HIDE DEF t
  <2> QED
    BY <2>1, <2>2, <2>4, LoadHold
<1>8. ASSUME NEW p \in Desk, NEW a \in Appts, NEW s \in Slots, Book(p, a, s) PROVE HoldInv'
  <2>1. PICK policy \in BOOLEAN :
            tx' = [tx EXCEPT ![p] = [NoTx EXCEPT !.op = "book", !.appt = a, !.slot = s,
                                     !.to = IF policy THEN "awaiting_deposit" ELSE "confirmed"]]
    BY <1>8 DEF Book
  <2> DEFINE t == [NoTx EXCEPT !.op = "book", !.appt = a, !.slot = s,
                               !.to = IF policy THEN "awaiting_deposit" ELSE "confirmed"]
  <2>2. /\ t \in Tx /\ t.appt = a /\ p \in Procs /\ t.op = "book"
        /\ t.to \in {"awaiting_deposit", "confirmed"}
    BY DEF NoTx, Tx, Ops, Statuses, Items, Procs
  <2>3. /\ tx' = [tx EXCEPT ![p] = t] /\ tx[p].op = "idle" /\ row[a].status = "none"
        /\ UNCHANGED <<row, deposit, late, paid, bell, inTime, sweep>>
    BY <1>8, <2>1 DEF Book
\* No webhook is about an appointment that does not exist.
  <2>4. ASSUME NEW q \in Hooks PROVE tx[q].appt # a
    BY <2>3, <2>4, BookingsAssumption DEF HoldInv, TxInv, Procs
  <2>5. \A q \in Procs : tx[q].appt # a
    BY <1>8, <2>4 DEF Book, Procs
  <2> HIDE DEF t
  <2> QED
    BY <2>2, <2>3, <2>5, LoadHold
<1>9. ASSUME NEW p \in Desk, NEW a \in Appts, NEW s \in Slots, Reschedule(p, a, s) PROVE HoldInv'
  <2> DEFINE t == [NoTx EXCEPT !.op = "move", !.appt = a, !.slot = s]
  <2>1. t \in Tx /\ t.appt = a /\ p \in Procs /\ t.op = "move"
    BY DEF NoTx, Tx, Ops, Statuses, Items, Procs
  <2>2. /\ tx' = [tx EXCEPT ![p] = t] /\ tx[p].op = "idle" /\ row[a].status # "none"
        /\ UNCHANGED <<row, deposit, late, paid, bell, inTime, sweep>>
    BY <1>9 DEF Reschedule, Request
  <2> HIDE DEF t
  <2> QED
    BY <2>1, <2>2, LoadHold
<1>10. ASSUME NEW p \in Procs, Commit(p) PROVE HoldInv'
  BY <1>10, CommitEffect, EffectHold
<1>11. ASSUME NEW p \in Procs, Abort(p) PROVE HoldInv'
  <2>1. /\ tx'[p] = NoTx /\ \A q \in Procs \ {p} : tx'[q] = tx[q]
        /\ UNCHANGED <<row, deposit, late, paid, bell, inTime, sweep>>
    BY <1>0, <1>11 DEF Abort, End
  <2>2. TxInv(p)'
    BY <2>1 DEF TxInv, NoTx
  <2>3. ASSUME NEW q \in Procs \ {p} PROVE TxInv(q)'
    <3>1. TxInv(q) /\ tx'[q] = tx[q] /\ (tx[q].op # "idle" => tx[q].appt \in Appts)
      BY <2>1, <2>3 DEF HoldInv, TypeInv
    <3>2. NoTx.appt = None /\ None \notin Appts
      BY BookingsAssumption DEF NoTx
    <3> QED
      BY <2>1, <3>1, <3>2 DEF TxInv
  <2>4. \A a \in Appts : RowInv(a)'
    BY <1>0, <2>1 DEF RowInv
  <2> QED
    BY <2>2, <2>3, <2>4 DEF HoldInv
<1>12. CASE SweepRead
  <2>1. \A a \in Appts : RowInv(a)'
    BY <1>0, <1>12 DEF SweepRead, Unpaid, RowInv
  <2> QED
    BY <1>12, <2>1, OutsideHold DEF SweepRead
<1>13. CASE SweepWrite
  <2>1. \A a \in Appts : \/ row'[a] = row[a]
                         \/ /\ a \in sweep
                            /\ row'[a] = [row[a] EXCEPT !.status = "cancelled", !.unpaid = TRUE]
    BY <1>13 DEF SweepWrite
  <2>2. \A r \in Row : [r EXCEPT !.status = "cancelled", !.unpaid = TRUE].status = "cancelled"
    BY DEF Row
  <2>3. /\ sweep' = {} /\ UNCHANGED <<deposit, late, paid, bell, inTime, tx>>
    BY <1>13 DEF SweepWrite
  <2>4. \A a \in Appts : \/ row'[a] = row[a]
                         \/ a \in late /\ row[a].status # "none" /\ row'[a].status = "cancelled"
    BY <1>0, <2>1, <2>2 DEF RowInv
  <2>5. \A a \in Appts : RowInv(a)'
    BY <1>0, <2>3, <2>4 DEF RowInv, Settable
  <2> QED
    BY <2>3, <2>4, <2>5, OutsideHold
<1>14. CASE UNCHANGED vars
  <2>1. \A a \in Appts : RowInv(a)'
    BY <1>0, <1>14 DEF vars, RowInv
  <2> QED
    BY <1>14, <2>1, OutsideHold DEF vars
<1>15. ASSUME NEW a \in Appts,
              \/ DeadlinePasses(a) \/ PaidElsewhere(a) \/ CloseDeposit(a)
              \/ \E item \in Items : PayInChat(a, item)
              \/ \E p \in Hooks, item \in Items : Hear(p, a, item)
              \/ \E p \in Desk :
                    \/ Cancel(p, a)
                    \/ \E wanted \in Settable : SetStatus(p, a, wanted)
                    \/ \E s \in Slots : Book(p, a, s) \/ Reschedule(p, a, s)
       PROVE  HoldInv'
  BY <1>1, <1>2, <1>3, <1>4, <1>5, <1>6, <1>7, <1>8, <1>9, <1>15, Zenon
<1>16. CASE \E p \in Procs : Commit(p) \/ Abort(p)
  BY <1>10, <1>11, <1>16, Zenon
<1> QED
  BY <1>12, <1>13, <1>14, <1>15, <1>16, Zenon DEF Next, Procs

\* HoldInv holds at the start, and so always.
LEMMA HoldAlways == Spec => [](TypeInv /\ HoldInv)
<1>1. Init => HoldInv
  BY DEF Init, HoldInv, TxInv, RowInv, NoRow, NoTx, Procs, Settable
<1> QED
  BY <1>1, TypeInit, TypeStep, HoldStep, PTL DEF Spec

\* Whatever staff do meanwhile, an appointment that had a deposit to pay is confirmed only
\* when a payment for it came in the chat.
THEOREM ConfirmedIsPaid == Spec => []ConfirmedMeansPaid
<1>1. HoldInv => ConfirmedMeansPaid
  BY DEF HoldInv, RowInv, ConfirmedMeansPaid
<1> QED
  BY <1>1, HoldAlways, PTL

\* An appointment confirmed before its deadline is not released, though the sweep writes
\* what it read a while ago.
THEOREM OnTimeIsKept == Spec => []OnTimeIsHonoured
<1>1. TypeInv /\ HoldInv => OnTimeIsHonoured
  BY DEF TypeInv, TypeOK, HoldInv, RowInv, OnTimeIsHonoured
<1> QED
  BY <1>1, HoldAlways, PTL

-----------------------------------------------------------------------------
(***************************************************************************)
(* The calendar                                                            *)
(***************************************************************************)

\* An appointment that exists has a slot, one that does not has no deposit; a booking or
\* a move is to a slot, and a payment of a deposit is for one there is.
ShownInv ==
    /\ \A a \in Appts : IF row[a].status = "none" THEN deposit[a] = "none"
                                                  ELSE row[a].slot \in Slots
    /\ \A p \in Procs :
        /\ tx[p].op \in {"book", "move"} => tx[p].slot \in Slots
        /\ tx[p].op = "confirm" /\ tx[p].item = "deposit" => deposit[tx[p].appt] # "none"

\* An operation begun with a slot, or for a deposit there is, keeps it.
LEMMA LoadShown ==
    ASSUME TypeInv, ShownInv, NEW p \in Procs, NEW t, tx' = [tx EXCEPT ![p] = t],
           UNCHANGED <<row, deposit>>,
           t.op \in {"book", "move"} => t.slot \in Slots,
           t.op = "confirm" /\ t.item = "deposit" => deposit[t.appt] # "none"
    PROVE  ShownInv'
<1>1. tx'[p] = t /\ \A q \in Procs \ {p} : tx'[q] = tx[q]
  BY DEF TypeInv, TypeOK, Procs
<1> QED
  BY <1>1 DEF ShownInv

\* So does a step that moves no row and makes or forgets no row or deposit.
LEMMA StillShown ==
    ASSUME TypeInv, ShownInv, tx' = tx,
           \A a \in Appts : /\ row'[a].slot = row[a].slot
                            /\ row'[a].status = "none" <=> row[a].status = "none"
                            /\ deposit'[a] = "none" <=> deposit[a] = "none"
    PROVE  ShownInv'
<1>1. \A p \in Procs : tx[p].op = "confirm" => tx[p].appt \in Appts
  BY DEF TypeInv
<1> QED
  BY <1>1 DEF ShownInv

\* A commit keeps it.
LEMMA EffectShown ==
    ASSUME TypeInv, HoldInv, ShownInv, NEW p \in Procs, Effect(p)
    PROVE  ShownInv'
<1>a. PICK t \in Tx, x \in Appts : t = tx[p] /\ x = t.appt
  BY DEF TypeInv, TypeOK, Procs, Effect
<1>0. /\ tx \in [Procs -> Tx] /\ row \in [Appts -> Row]
      /\ deposit \in [Appts -> {"none", "open", "met", "closed"}]
      /\ TxInv(p) /\ t.op # "idle"
  BY <1>a DEF TypeInv, TypeOK, Procs, Effect, HoldInv
<1>1. tx'[p] = NoTx /\ \A q \in Procs \ {p} : tx'[q] = tx[q]
  BY <1>0 DEF Effect
<1>2. \A a \in Appts \ {x} : row'[a] = row[a] /\ deposit'[a] = deposit[a]
  BY <1>0, <1>a DEF Effect, Booked, Changed, Unchanged, RowBecomes
\* The row that is committed.
<1>3. /\ IF row'[x].status = "none" THEN deposit'[x] = "none" ELSE row'[x].slot \in Slots
      /\ t.op # "book" => (deposit[x] # "none" => deposit'[x] # "none")
  <2>1. CASE Booked(t)
    <3>1. /\ row'[x] = [status |-> t.to, slot |-> t.slot, unpaid |-> FALSE]
          /\ t.op = "book"
      BY <1>0, <1>a, <2>1 DEF Booked, RowBecomes
    <3>2. t.to \in {"awaiting_deposit", "confirmed"} /\ t.slot \in Slots
      BY <1>0, <1>a, <3>1 DEF TxInv, ShownInv
    <3> QED
      BY <3>1, <3>2
  <2>2. CASE Changed(t)
    <3>1. PICK r \in Row : /\ row'[x] = r /\ Becomes(t, row[x].status, r.status)
                           /\ r.slot = row[x].slot \/ (t.op = "move" /\ r.slot = t.slot)
      BY <1>0, <1>a, <2>2 DEF Changed, RowBecomes
    <3>2. t.op \notin {"idle", "book"} /\ row[x].status # "none"
      BY <1>0, <1>a, <3>1 DEF Becomes, TxInv
    <3>3. row[x].slot \in Slots /\ (t.op = "move" => t.slot \in Slots)
      BY <1>a, <3>2 DEF ShownInv
    <3>4. r.status # "none"
      BY <1>0, <1>a, <3>1, <3>2 DEF Becomes, TxInv, Settable
    <3>5. deposit[x] # "none" => deposit'[x] # "none"
      BY <1>0, <1>a, <2>2 DEF Changed
    <3> QED
      BY <3>1, <3>3, <3>4, <3>5
  <2>3. CASE Unchanged(t)
    <3>1. row' = row
      BY <2>3 DEF Unchanged
    <3>2. \/ deposit'[x] = deposit[x]
          \/ deposit[x] # "none" /\ deposit'[x] # "none"
      BY <1>0, <1>a, <2>3 DEF Unchanged, ShownInv
    <3> QED
      BY <3>1, <3>2 DEF ShownInv
  <2> QED
    BY <1>a, <2>1, <2>2, <2>3 DEF Effect
<1>4. ASSUME NEW q \in Procs
      PROVE  /\ tx'[q].op \in {"book", "move"} => tx'[q].slot \in Slots
             /\ tx'[q].op = "confirm" /\ tx'[q].item = "deposit" => deposit'[tx'[q].appt] # "none"
  <2>1. CASE q = p
    BY <1>1, <2>1 DEF NoTx
  <2>2. CASE q # p /\ tx[q].appt # x
    <3>1. tx'[q] = tx[q] /\ (tx[q].op # "idle" => tx[q].appt \in Appts)
      BY <1>1, <1>4, <2>2 DEF TypeInv
    <3> QED
      BY <1>2, <1>4, <2>2, <3>1 DEF ShownInv
  <2>3. CASE q # p /\ tx[q].appt = x
    <3>1. t.op # "book" /\ tx'[q] = tx[q]
      BY <1>0, <1>1, <1>a, <1>4, <2>3 DEF TxInv
    <3> QED
      BY <1>3, <1>4, <2>3, <3>1 DEF ShownInv
  <2> QED
    BY <2>1, <2>2, <2>3
<1>5. \A a \in Appts : IF row'[a].status = "none" THEN deposit'[a] = "none"
                                                  ELSE row'[a].slot \in Slots
  BY <1>2, <1>3 DEF ShownInv
<1> QED
  BY <1>4, <1>5 DEF ShownInv

\* Every step keeps it.
LEMMA ShownStep == TypeInv /\ HoldInv /\ ShownInv /\ [Next]_vars => ShownInv'
<1> SUFFICES ASSUME TypeInv, HoldInv, ShownInv, [Next]_vars PROVE ShownInv'
  OBVIOUS
<1>0. /\ row \in [Appts -> Row]
      /\ deposit \in [Appts -> {"none", "open", "met", "closed"}]
      /\ tx \in [Procs -> Tx]
  BY DEF TypeInv, TypeOK, Procs
<1>1. ASSUME NEW a \in Appts, NEW p \in Hooks, NEW item \in Items, Hear(p, a, item)
      PROVE  ShownInv'
  <2>1. UNCHANGED <<row, deposit>> /\ p \in Procs
    BY <1>1 DEF Hear, Procs
  <2>2. CASE UNCHANGED tx
    BY <2>1, <2>2, StillShown
  <2>3. CASE ~UNCHANGED tx
    <3> DEFINE t == [NoTx EXCEPT !.op = "confirm", !.appt = a, !.seen = row[a].status,
                                 !.item = item]
    <3>1. t.appt = a /\ t.op = "confirm" /\ t.item = item
      BY DEF NoTx
    <3>2. tx' = [tx EXCEPT ![p] = t] /\ (item = "deposit" => deposit[a] # "none")
      BY <1>1, <2>3 DEF Hear
    <3> HIDE DEF t
    <3> QED
      BY <2>1, <3>1, <3>2, LoadShown
  <2> QED
    BY <2>2, <2>3
<1>2. ASSUME NEW p \in Desk, NEW a \in Appts, Cancel(p, a) PROVE ShownInv'
  <2> DEFINE t == [NoTx EXCEPT !.op = "cancel", !.appt = a, !.seen = row[a].status]
  <2>1. t.op = "cancel" /\ p \in Procs
    BY DEF NoTx, Procs
  <2>2. tx' = [tx EXCEPT ![p] = t] /\ UNCHANGED <<row, deposit>>
    BY <1>2 DEF Cancel
  <2> HIDE DEF t
  <2> QED
    BY <2>1, <2>2, LoadShown
<1>3. ASSUME NEW p \in Desk, NEW a \in Appts, NEW wanted \in Settable, SetStatus(p, a, wanted)
      PROVE  ShownInv'
  <2> DEFINE t == [NoTx EXCEPT !.op = "mark", !.appt = a, !.seen = row[a].status, !.to = wanted]
  <2>1. t.op = "mark" /\ p \in Procs
    BY DEF NoTx, Procs
  <2>2. tx' = [tx EXCEPT ![p] = t] /\ UNCHANGED <<row, deposit>>
    BY <1>3 DEF SetStatus
  <2> HIDE DEF t
  <2> QED
    BY <2>1, <2>2, LoadShown
<1>4. ASSUME NEW p \in Desk, NEW a \in Appts, NEW s \in Slots, Book(p, a, s) PROVE ShownInv'
  <2>1. PICK policy \in BOOLEAN :
            tx' = [tx EXCEPT ![p] = [NoTx EXCEPT !.op = "book", !.appt = a, !.slot = s,
                                     !.to = IF policy THEN "awaiting_deposit" ELSE "confirmed"]]
    BY <1>4 DEF Book
  <2> DEFINE t == [NoTx EXCEPT !.op = "book", !.appt = a, !.slot = s,
                               !.to = IF policy THEN "awaiting_deposit" ELSE "confirmed"]
  <2>2. t.op = "book" /\ t.slot = s /\ p \in Procs
    BY DEF NoTx, Procs
  <2>3. tx' = [tx EXCEPT ![p] = t] /\ UNCHANGED <<row, deposit>>
    BY <1>4, <2>1 DEF Book
  <2> HIDE DEF t
  <2> QED
    BY <2>2, <2>3, LoadShown
<1>5. ASSUME NEW p \in Desk, NEW a \in Appts, NEW s \in Slots, Reschedule(p, a, s) PROVE ShownInv'
  <2> DEFINE t == [NoTx EXCEPT !.op = "move", !.appt = a, !.slot = s]
  <2>1. t.op = "move" /\ t.slot = s /\ p \in Procs
    BY DEF NoTx, Procs
  <2>2. tx' = [tx EXCEPT ![p] = t] /\ UNCHANGED <<row, deposit>>
    BY <1>5 DEF Reschedule
  <2> HIDE DEF t
  <2> QED
    BY <2>1, <2>2, LoadShown
<1>6. ASSUME NEW p \in Procs, Commit(p) PROVE ShownInv'
  BY <1>6, CommitEffect, EffectShown
<1>7. ASSUME NEW p \in Procs, Abort(p) PROVE ShownInv'
  <2>1. NoTx.op = "idle" /\ tx' = [tx EXCEPT ![p] = NoTx] /\ UNCHANGED <<row, deposit>>
    BY <1>7 DEF Abort, End, NoTx
  <2> QED
    BY <2>1, LoadShown
<1>8. ASSUME NEW a \in Appts, PaidElsewhere(a) \/ CloseDeposit(a) PROVE ShownInv'
  <2>1. tx' = tx /\ row' = row /\ deposit[a] # "none"
        /\ \E d \in {"met", "closed"} : deposit' = [deposit EXCEPT ![a] = d]
    BY <1>8 DEF PaidElsewhere, CloseDeposit
  <2>2. \A b \in Appts : deposit'[b] = "none" <=> deposit[b] = "none"
    BY <1>0, <2>1
  <2> QED
    BY <2>1, <2>2, StillShown
<1>9. CASE SweepWrite
  <2>1. \A a \in Appts : \/ row'[a] = row[a]
                         \/ /\ a \in sweep
                            /\ row'[a] = [row[a] EXCEPT !.status = "cancelled", !.unpaid = TRUE]
    BY <1>9 DEF SweepWrite
  <2>2. \A r \in Row : LET c == [r EXCEPT !.status = "cancelled", !.unpaid = TRUE]
                       IN  c.slot = r.slot /\ c.status = "cancelled"
    BY DEF Row
  <2>3. \A a \in Appts : a \in sweep => row[a].status # "none"
    BY DEF HoldInv, RowInv
  <2>4. tx' = tx /\ deposit' = deposit
    BY <1>9 DEF SweepWrite
  <2>5. \A a \in Appts : /\ row'[a].slot = row[a].slot
                         /\ row'[a].status = "none" <=> row[a].status = "none"
    BY <1>0, <2>1, <2>2, <2>3
  <2> QED
    BY <2>4, <2>5, StillShown
<1>10. CASE UNCHANGED <<row, deposit, tx>>
  BY <1>10, StillShown
<1>11. ASSUME NEW a \in Appts,
              \/ DeadlinePasses(a) \/ PaidElsewhere(a) \/ CloseDeposit(a)
              \/ \E item \in Items : PayInChat(a, item)
              \/ \E p \in Hooks, item \in Items : Hear(p, a, item)
              \/ \E p \in Desk :
                    \/ Cancel(p, a)
                    \/ \E wanted \in Settable : SetStatus(p, a, wanted)
                    \/ \E s \in Slots : Book(p, a, s) \/ Reschedule(p, a, s)
       PROVE  ShownInv'
  <2>1. CASE DeadlinePasses(a) \/ \E item \in Items : PayInChat(a, item)
    BY <1>10, <2>1, Zenon DEF DeadlinePasses, PayInChat
  <2> QED
    BY <1>1, <1>2, <1>3, <1>4, <1>5, <1>8, <1>11, <2>1, Zenon
<1>12. CASE SweepRead \/ UNCHANGED vars
  BY <1>10, <1>12, Zenon DEF SweepRead, vars
<1>13. CASE \E p \in Procs : Commit(p) \/ Abort(p)
  BY <1>6, <1>7, <1>13, Zenon
<1> QED
  BY <1>9, <1>11, <1>12, <1>13, Zenon DEF Next, Procs

\* What the calendar shows when one row becomes r.
LEMMA RowShown ==
    ASSUME TypeInv, NEW a \in Appts, NEW r \in Row, row' = [row EXCEPT ![a] = r],
           r.unpaid = row[a].unpaid
    PROVE  /\ Place' = [Place EXCEPT ![a] = IF Live(r.status) THEN r.slot ELSE None]
           /\ Firm' = IF r.status \in Settable THEN Firm \union {a} ELSE Firm \ {a}
           /\ Released' = Released
<1>1. \A b \in Appts : row'[b] = IF b = a THEN r ELSE row[b]
  BY DEF TypeInv, TypeOK
<1> DEFINE slot == IF Live(r.status) THEN r.slot ELSE None
           now(b) == IF Live(row'[b].status) THEN row'[b].slot ELSE None
           changed(b) == IF b = a THEN slot ELSE Place[b]
<1>2. Place' = [b \in Appts |-> now(b)]
  BY DEF Place
<1>3. [Place EXCEPT ![a] = slot] = [b \in Appts |-> changed(b)]
  BY DEF Place
<1>4. \A b \in Appts : now(b) = changed(b)
  BY <1>1 DEF Place
<1>5. Place' = [Place EXCEPT ![a] = slot]
  <2> HIDE DEF now, changed, slot
  <2> QED
    BY <1>2, <1>3, <1>4, Zenon
<1>6. Firm' = IF r.status \in Settable THEN Firm \union {a} ELSE Firm \ {a}
  BY <1>1 DEF Firm
<1>7. Released' = Released
  BY <1>1 DEF Released
<1> QED
  BY <1>5, <1>6, <1>7

\* A slot the index lets a live row have is open, or its own.
LEMMA FreeIsOpen ==
    ASSUME NEW s \in Slots, NEW a \in Appts, Free(s, a), Place[a] = None
    PROVE  Calendar!Open(s)
<1>1. ASSUME NEW b \in Appts \ {a} PROVE Place[b] # s
  BY <1>1, BookingsAssumption DEF Free, Place
<1>2. Place[a] # s
  BY BookingsAssumption
<1> QED
  BY <1>1, <1>2 DEF Calendar!Open

\* A row that is confirmed or marked where it is, paid for if it owes anything, is a step
\* of the calendar.
LEMMA ConfirmShown ==
    ASSUME TypeInv, ShownInv, NEW a \in Appts, NEW r \in Row, RowBecomes(a, r),
           r.unpaid = row[a].unpaid, r.slot = row[a].slot, row[a].status # "none",
           r.status \in Settable, a \in Owing => a \in Payers,
           inTime' = inTime \/ (a \notin Released /\ inTime' = inTime \union {a}),
           Owing' = Owing, Payers' = Payers
    PROVE  Calendar!CalendarNext
<1> DEFINE s == row[a].slot
<1>1. s \in Slots /\ Live(r.status)
  BY DEF ShownInv, Live, Settable
<1>2. /\ Place' = [Place EXCEPT ![a] = s]
      /\ Firm' = Firm \union {a} /\ Released' = Released
  BY <1>1, RowShown DEF RowBecomes
<1>3. Place[a] = s \/ (Place[a] = None /\ Calendar!Open(s))
  <2>1. CASE Live(row[a].status)
    BY <2>1 DEF Place
  <2>2. CASE ~Live(row[a].status)
    <3>1. Place[a] = None /\ Free(s, a)
      BY <1>1, <2>2 DEF Place, RowBecomes
    <3> QED
      BY <1>1, <3>1, FreeIsOpen
  <2> QED
    BY <2>1, <2>2
<1> HIDE DEF s
<1>4. Calendar!Confirm(a, s)
  BY <1>2, <1>3, Zenon DEF Calendar!Confirm, Calendar!Has
<1> QED
  BY <1>1, <1>4, Zenon DEF Calendar!CalendarNext

\* A commit is one step of the calendar at most.
LEMMA EffectCalendar ==
    ASSUME TypeInv, HoldInv, ShownInv, NEW p \in Procs, Effect(p)
    PROVE  [Calendar!CalendarNext]_(Calendar!calendarVars)
<1>a. PICK t \in Tx, x \in Appts : t = tx[p] /\ x = t.appt
  BY DEF TypeInv, TypeOK, Procs, Effect
<1>0. /\ row \in [Appts -> Row] /\ row[x] \in Row
      /\ deposit \in [Appts -> {"none", "open", "met", "closed"}]
      /\ TxInv(p) /\ RowInv(x)
  BY <1>a DEF TypeInv, TypeOK, HoldInv
<1>1. paid' = paid /\ Payers' = Payers
  BY DEF Effect, Payers
<1>2. CASE Booked(t)
  <2> DEFINE r == [status |-> t.to, slot |-> t.slot, unpaid |-> FALSE]
  <2>1. /\ RowBecomes(x, r) /\ t.op = "book" /\ inTime' = inTime
        /\ deposit' = [deposit EXCEPT ![x] = IF t.to = "awaiting_deposit" THEN "open" ELSE "none"]
    BY <1>2, <1>a DEF Booked
  <2>2. /\ t.to \in {"awaiting_deposit", "confirmed"} /\ row[x].status = "none"
        /\ t.slot \in Slots /\ deposit[x] = "none" /\ ~row[x].unpaid
    BY <1>0, <1>a, <2>1 DEF TxInv, RowInv, ShownInv
  <2>3. /\ r \in Row /\ r.unpaid = row[x].unpaid /\ r.status = t.to /\ r.slot = t.slot
        /\ Live(r.status)
    BY <1>0, <2>1, <2>2 DEF RowBecomes, Row, Live
  <2> HIDE DEF r
  <2>4. /\ Place' = [Place EXCEPT ![x] = t.slot]
        /\ Firm' = IF t.to \in Settable THEN Firm \union {x} ELSE Firm \ {x}
        /\ Released' = Released
    BY <2>1, <2>3, RowShown DEF RowBecomes
  <2>5. Place[x] = None /\ x \notin Firm /\ x \notin Owing
    BY <2>2 DEF Place, Live, Firm, Settable, Owing
  <2>6. Calendar!Open(t.slot)
    BY <2>1, <2>2, <2>3, <2>5, FreeIsOpen DEF RowBecomes
  <2>7. CASE t.to = "awaiting_deposit"
    <3>1. Owing' = Owing \union {x}
      BY <1>0, <2>1, <2>7 DEF Owing
    <3>2. Firm' = Firm
      BY <2>4, <2>5, <2>7 DEF Settable
    <3>3. Calendar!Hold(x, t.slot)
      BY <1>1, <2>1, <2>4, <2>5, <2>6, <3>1, <3>2 DEF Calendar!Hold, Calendar!Has
    <3> QED
      BY <2>2, <3>3, Zenon DEF Calendar!CalendarNext
  <2>8. CASE t.to = "confirmed"
    <3>1. Owing' = Owing
      BY <1>0, <2>1, <2>2, <2>8 DEF Owing
    <3>2. Firm' = Firm \union {x}
      BY <2>4, <2>8 DEF Settable
    <3>3. Calendar!Confirm(x, t.slot)
      BY <1>1, <2>1, <2>4, <2>5, <2>6, <3>1, <3>2 DEF Calendar!Confirm, Calendar!Has
    <3> QED
      BY <2>2, <3>3, Zenon DEF Calendar!CalendarNext
  <2> QED
    BY <2>2, <2>7, <2>8
<1>3. CASE Changed(t)
  <2>1. PICK r \in Row : /\ RowBecomes(x, r) /\ r.unpaid = row[x].unpaid
                         /\ r.slot = row[x].slot \/ (t.op = "move" /\ r.slot = t.slot)
                         /\ Becomes(t, row[x].status, r.status)
    BY <1>3, <1>a DEF Changed
  <2>2. /\ t.op \notin {"idle", "book"} /\ row[x].status # "none"
        /\ row[x].slot \in Slots
    BY <1>0, <1>a, <2>1 DEF Becomes, TxInv, ShownInv
  <2>3. Owing' = Owing
    <3>1. \/ deposit' = deposit
          \/ deposit[x] # "none" /\ deposit' = [deposit EXCEPT ![x] = "met"]
      BY <1>3, <1>a DEF Changed, ShownInv
    <3> QED
      BY <1>0, <3>1 DEF Owing
  <2>4. t.op # "confirm" => inTime' = inTime
    BY <1>3 DEF Changed
  <2>5. /\ Place' = [Place EXCEPT ![x] = IF Live(r.status) THEN r.slot ELSE None]
        /\ Firm' = IF r.status \in Settable THEN Firm \union {x} ELSE Firm \ {x}
        /\ Released' = Released
    BY <2>1, RowShown DEF RowBecomes
  <2>6. CASE t.op = "cancel"
    <3>1. r.status = "cancelled"
      BY <2>1, <2>6 DEF Becomes
    <3>2. Place' = [Place EXCEPT ![x] = None] /\ Firm' = Firm \ {x}
      BY <2>5, <3>1 DEF Live, Settable
    <3>3. Place' = [a \in Appts |-> IF a \in {x} THEN None ELSE Place[a]]
      BY <3>2 DEF Place
    <3>4. Calendar!Cancel(x)
      BY <1>1, <2>3, <2>4, <2>5, <2>6, <3>2, <3>3, Zenon DEF Calendar!Cancel, Calendar!Leave
    <3> QED
      BY <3>4, Zenon DEF Calendar!CalendarNext
  <2>7. CASE t.op = "move"
    <3>1. /\ r.status = row[x].status /\ r.slot \in Slots
      BY <1>a, <2>1, <2>2, <2>7 DEF Becomes, ShownInv
    <3>2. Firm' = Firm
      BY <2>5, <3>1 DEF Firm
    <3>3. CASE Live(row[x].status) /\ r.slot # row[x].slot
      <4>1. Place' = [Place EXCEPT ![x] = r.slot] /\ Place[x] = row[x].slot /\ Free(r.slot, x)
        BY <2>1, <2>5, <3>1, <3>3 DEF Place, RowBecomes
      <4>2. ASSUME NEW b \in Appts PROVE Place[b] # r.slot
        BY <3>1, <3>3, <4>1, <4>2, BookingsAssumption DEF Place, Free
      <4>3. Place[x] # None
        BY <2>2, <4>1, BookingsAssumption
      <4>4. Calendar!Move(x, r.slot)
        BY <1>1, <2>3, <2>4, <2>5, <2>7, <3>2, <4>1, <4>2, <4>3
           DEF Calendar!Move, Calendar!Open, Calendar!Has
      <4> QED
        BY <3>1, <4>4, Zenon DEF Calendar!CalendarNext
    <3>4. CASE ~(Live(row[x].status) /\ r.slot # row[x].slot)
      <4>1. Place[x] = IF Live(r.status) THEN r.slot ELSE None
        BY <3>1, <3>4 DEF Place
      <4>2. Place' = Place
        BY <2>5, <4>1 DEF Place
      <4> QED
        BY <1>1, <2>3, <2>4, <2>5, <2>7, <3>2, <4>2, Zenon DEF Calendar!calendarVars
    <3> QED
      BY <3>3, <3>4
  <2>8. CASE t.op \in {"mark", "confirm"}
    <3>1. r.slot = row[x].slot /\ r.status \in Settable
      BY <1>0, <1>a, <2>1, <2>8 DEF Becomes, TxInv, Settable
    <3>2. x \in Owing => x \in Payers
      BY <1>0, <1>a, <2>8 DEF TxInv, Owing, Payers
    <3>3. inTime' = inTime \/ (x \notin Released /\ inTime' = inTime \union {x})
      BY <1>0, <1>3, <1>a DEF Changed, RowInv, Released
    <3> QED
      BY <1>1, <2>1, <2>2, <2>3, <3>1, <3>2, <3>3, ConfirmShown
  <2> QED
    BY <2>1, <2>6, <2>7, <2>8 DEF Becomes
<1>4. CASE Unchanged(t)
  <2>1. \/ deposit' = deposit
        \/ deposit[x] # "none" /\ deposit' = [deposit EXCEPT ![x] = "met"]
    BY <1>4, <1>a DEF Unchanged, ShownInv
  <2>2. Owing' = Owing
    BY <1>0, <2>1 DEF Owing
  <2>3. Place' = Place /\ Firm' = Firm /\ Released' = Released /\ inTime' = inTime
    BY <1>4 DEF Unchanged, Place, Firm, Released
  <2> QED
    BY <1>1, <2>2, <2>3 DEF Calendar!calendarVars
<1> QED
  BY <1>a, <1>2, <1>3, <1>4 DEF Effect

\* Every step is one of the calendar's, or changes nothing it shows.
LEMMA NextCalendar ==
    ASSUME TypeInv, HoldInv, ShownInv, [Next]_vars
    PROVE  [Calendar!CalendarNext]_(Calendar!calendarVars)
<1>0. /\ row \in [Appts -> Row] /\ sweep \subseteq Appts
      /\ deposit \in [Appts -> {"none", "open", "met", "closed"}]
      /\ paid \in [Appts -> SUBSET Items]
  BY DEF TypeInv, TypeOK
<1>1. ASSUME NEW p \in Procs, Commit(p) PROVE [Calendar!CalendarNext]_(Calendar!calendarVars)
  BY <1>1, CommitEffect, EffectCalendar
<1>2. CASE SweepWrite
  <2>1. CASE row' = row
    BY <1>2, <2>1 DEF SweepWrite, Place, Firm, Owing, Payers, Released, Calendar!calendarVars
  <2>2. CASE row' # row
    <3>1. row' = [a \in Appts |-> IF a \in sweep
                        THEN [row[a] EXCEPT !.status = "cancelled", !.unpaid = TRUE]
                        ELSE row[a]]
      BY <1>2, <2>2 DEF SweepWrite
    <3>2. \A r \in Row : LET c == [r EXCEPT !.status = "cancelled", !.unpaid = TRUE]
                         IN  c.status = "cancelled" /\ c.unpaid = TRUE
      BY DEF Row
    <3>3. \A a \in Appts : IF a \in sweep THEN row'[a].status = "cancelled" /\ row'[a].unpaid
                                          ELSE row'[a] = row[a]
      BY <1>0, <3>1, <3>2
    <3>4. Place' = [a \in Appts |-> IF a \in sweep THEN None ELSE Place[a]]
      <4>1. \A a \in Appts : (IF Live(row'[a].status) THEN row'[a].slot ELSE None)
                                = IF a \in sweep THEN None ELSE Place[a]
        BY <3>3 DEF Place, Live
      <4>2. Place' = [a \in Appts |-> IF Live(row'[a].status) THEN row'[a].slot ELSE None]
        BY DEF Place
      <4> QED
        BY <4>1, <4>2, Zenon
    <3>5. Firm' = Firm \ sweep
      BY <3>3 DEF Firm, Settable
    <3>6. Released' = Released \union sweep
      BY <1>0, <3>3 DEF Released
    <3>7. UNCHANGED <<Owing, Payers, inTime>>
      BY <1>2 DEF SweepWrite, Owing, Payers
    <3>8. sweep \intersect inTime = {}
      BY <1>0 DEF HoldInv, RowInv
    <3>9. Calendar!Release(sweep) /\ sweep \in SUBSET Appts
      BY <1>0, <3>4, <3>5, <3>6, <3>7, <3>8 DEF Calendar!Release, Calendar!Leave
    <3> QED
      BY <3>9, Zenon DEF Calendar!CalendarNext
  <2> QED
    BY <2>1, <2>2
<1>3. ASSUME NEW a \in Appts, NEW item \in Items, PayInChat(a, item)
      PROVE  [Calendar!CalendarNext]_(Calendar!calendarVars)
  <2>1. UNCHANGED <<row, deposit, inTime>> /\ paid' = [paid EXCEPT ![a] = @ \union {item}]
    BY <1>3 DEF PayInChat
  <2>2. Payers' = Payers \union {a}
    BY <1>0, <2>1 DEF Payers
  <2>3. UNCHANGED <<Place, Firm, Owing, Released>>
    BY <2>1 DEF Place, Firm, Owing, Released
  <2>4. Calendar!Pay(a)
    BY <2>1, <2>2, <2>3 DEF Calendar!Pay
  <2> QED
    BY <2>4, Zenon DEF Calendar!CalendarNext
<1>4. ASSUME NEW a \in Appts, PaidElsewhere(a) \/ CloseDeposit(a)
      PROVE  [Calendar!CalendarNext]_(Calendar!calendarVars)
  <2>1. UNCHANGED <<row, paid, inTime>> /\ deposit[a] # "none"
        /\ \E d \in {"met", "closed"} : deposit' = [deposit EXCEPT ![a] = d]
    BY <1>4 DEF PaidElsewhere, CloseDeposit
  <2>2. Owing' = Owing
    BY <1>0, <2>1 DEF Owing
  <2> QED
    BY <2>1, <2>2 DEF Place, Firm, Payers, Released, Calendar!calendarVars
<1>5. CASE UNCHANGED <<row, deposit, paid, inTime>>
  BY <1>5 DEF Place, Firm, Owing, Payers, Released, Calendar!calendarVars
<1>6. ASSUME ~SweepWrite, \A p \in Procs : ~Commit(p),
             \A a \in Appts : /\ ~PaidElsewhere(a) /\ ~CloseDeposit(a)
                              /\ \A item \in Items : ~PayInChat(a, item)
      PROVE  UNCHANGED <<row, deposit, paid, inTime>>
  <2>1. CASE UNCHANGED vars
    BY <2>1, Zenon DEF vars
  <2>2. CASE SweepRead \/ \E p \in Procs : Abort(p)
    BY <2>2, Zenon DEF SweepRead, Abort
  <2>3. ASSUME NEW a \in Appts,
               DeadlinePasses(a) \/ \E p \in Hooks, item \in Items : Hear(p, a, item)
        PROVE  UNCHANGED <<row, deposit, paid, inTime>>
    BY <2>3, Zenon DEF DeadlinePasses, Hear
  <2>4. ASSUME NEW p \in Desk, NEW a \in Appts,
               \/ Cancel(p, a)
               \/ \E wanted \in Settable : SetStatus(p, a, wanted)
               \/ \E s \in Slots : Book(p, a, s) \/ Reschedule(p, a, s)
        PROVE  UNCHANGED <<row, deposit, paid, inTime>>
    BY <2>4, Zenon DEF Cancel, SetStatus, Book, Reschedule
  <2> QED
    BY <1>6, <2>1, <2>2, <2>3, <2>4, Zenon DEF Next, Procs
<1> QED
  BY <1>1, <1>2, <1>3, <1>4, <1>5, <1>6, Zenon

\* All that staff, agents, webhooks and the sweep do from stale copies comes to a calendar
\* in which a slot is one appointment's, is passed on only through being open, is firm
\* only for money when a deposit was asked, and is kept for what paid in time.
THEOREM BookingsAreACalendar == Spec => KeepsTheCalendar
<1>1. Init => Calendar!CalendarInit
  <2> SUFFICES ASSUME Init PROVE Calendar!CalendarInit
    OBVIOUS
  <2>1. \A a \in Appts : /\ row[a] = NoRow /\ deposit[a] = "none" /\ paid[a] = {}
    BY DEF Init
  <2>2. \A a \in Appts : (IF Live(row[a].status) THEN row[a].slot ELSE None) = None
    BY <2>1 DEF NoRow, Live
  <2>3. Place = [a \in Appts |-> None]
    BY <2>2, Zenon DEF Place
  <2>4. Firm = {} /\ Owing = {} /\ Payers = {} /\ Released = {} /\ inTime = {}
    BY <2>1 DEF Init, Firm, Owing, Payers, Released, NoRow, Settable
  <2> QED
    BY <2>3, <2>4 DEF Calendar!CalendarInit
<1>2. Init => ShownInv
  BY DEF Init, ShownInv, NoRow, NoTx, Procs
<1>3. Spec => [](TypeInv /\ HoldInv /\ ShownInv)
  BY <1>2, HoldAlways, ShownStep, PTL DEF Spec
<1> QED
  BY <1>1, <1>3, NextCalendar, PTL DEF Spec, KeepsTheCalendar, Calendar!CalendarSpec
=============================================================================
