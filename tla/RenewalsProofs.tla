--------------------------- MODULE RenewalsProofs ---------------------------
(***************************************************************************)
(* Proofs about Renewals: types, the attempts of a month, that debits are  *)
(* made one at a time, and that none is made that PayU was not told of,    *)
(* whatever the sweep's stale copy of the subscription holds when it       *)
(* writes.                                                                 *)
(***************************************************************************)
EXTENDS Renewals, FiniteSetTheorems, TLAPS

-----------------------------------------------------------------------------
(***************************************************************************)
(* What the sweep's run is made of                                         *)
(***************************************************************************)

Loaded == sweep.mine # None

\* What belongs to a run as it goes on: what it changed it has locked, what it settled it
\* holds, and a debit it makes has no row yet.
RunInv ==
    /\ sweep.at = "off" => sweep = Off
    /\ sweep.at \in {"sub", "call"} =>
            Loaded /\ sweep.good = {} /\ sweep.bad = {} /\ sweep.todo = {} /\ sweep.held = {}
    /\ sweep.at = "sub" => sweep.dirty = {} /\ ~sweep.locks /\ sweep.made = None
    /\ sweep.at = "call" => sweep.made # None
    /\ ~Loaded => sweep.dirty = {}
    /\ sweep.dirty # {} => sweep.locks
    /\ sweep.made # None => sweep.locks /\ payment[sweep.made] = "none"
    /\ \A p \in sweep.good \union sweep.bad :
            p = sweep.made \/ (p \in sweep.held /\ payment[p] = "pending")
    /\ sweep.good \intersect sweep.bad = {} /\ sweep.made \notin sweep.good
    /\ sweep.todo \intersect sweep.held = {}
    /\ sweep.made \notin sweep.todo \union sweep.held

\* A request has its payment for itself.
HookInv ==
    \A h \in Hooks : hook[h] # None =>
        /\ payment[hook[h]] = "pending" /\ hook[h] \notin sweep.held
        /\ \A g \in Hooks : g # h => hook[g] # hook[h]

-----------------------------------------------------------------------------
(***************************************************************************)
(* Announcements                                                           *)
(***************************************************************************)

\* What brought m about is on record.
Happened(m) ==
    m # None => /\ m.why = "paid" => payment[m.by] = "success"
                /\ m.why = "failed" => payment[m.by] = "failed"
                /\ m.why = "asked" => payment[m.by] # "none"

Announced(s) == s.notice = s.next /\ s.next # None => told[s.mandate] = s.next

\* What a run's copy has to do with the row it will be merged into: the row keeps its notice
\* only as long as nobody else writes it, a new date of the copy comes from what the run
\* settles or asks for itself, and a new notice is for the date and the mandate it read.
Fits(run) ==
    LET s == run.mine
        new(f) == f \in run.dirty
    IN  /\ sub.notice # None => /\ new("notice") \/ sub.notice = s.notice
                                /\ new("next") \/ sub.next = s.next
                                /\ new("mandate") \/ sub.mandate = s.mandate
        /\ ~new("next") /\ ~new("mandate") /\ s.next # None /\ sub.next = s.next
                => sub.mandate = s.mandate
        /\ Happened(s.notice)
        /\ ~new("next") => Happened(s.next)
        /\ new("next") /\ s.next # None =>
                \/ s.next.why = "paid" /\ s.next.by \in run.good
                \/ s.next.why = "failed" /\ s.next.by \in run.bad
                \/ s.next.why = "asked" /\ s.next.by = run.made
        /\ new("notice") /\ s.notice # None =>
                /\ ~new("next") /\ ~new("mandate")
                /\ s.next = s.notice /\ told[s.mandate] = s.notice
        /\ new("next") /\ s.next # None => s.notice = None
        /\ new("mandate") => s.notice = None

NoticeInv ==
    /\ Happened(sub.next) /\ Happened(sub.notice)
    /\ Announced(sub)
    /\ sweep.at = "sub" => Announced(sweep.mine)
    /\ Loaded => Fits(sweep)

-----------------------------------------------------------------------------
(***************************************************************************)
(* Attempts                                                                *)
(***************************************************************************)

\* The attempts a run's copy counts: another's success or its own is all that takes them back,
\* and after the last one a failure leaves no next date.
Counts(run) ==
    LET s == run.mine
        new(f) == f \in run.dirty
    IN  /\ s.attempts <= MaxAttempts
        /\ ~new("attempts") => sub.attempts \in {0, s.attempts}
        /\ ~new("attempts") /\ ~new("next") /\ sub.attempts = MaxAttempts
                => sub.next \in {None, s.next}
        /\ run.good # {} => s.attempts = 0
        /\ new("notice") /\ s.notice # None /\ sub.attempts = MaxAttempts => sub.next = None
        /\ run.made = None =>
            /\ run.good = {} => ~new("attempts")
            /\ new("next") /\ s.next # None => s.attempts < MaxAttempts
            /\ run.bad \intersect Debits # {} /\ s.attempts = MaxAttempts => s.next = None
        /\ run.made # None =>
            /\ new("attempts") /\ new("next") /\ new("notice") /\ s.notice = None
            /\ run.made \in run.bad /\ s.attempts = MaxAttempts => s.next = None

\* After the last attempt there is no other: it is in flight, or the plan is paused.
TriesInv ==
    /\ TriedInMonth
    /\ sub.attempts <= MaxAttempts
    /\ sweep.made = None \/ sweep.at = "call" => tried <= sub.attempts + faults
    /\ sub.attempts = MaxAttempts => sub.next = None \/ (Waiting /\ sub.notice = None)
    /\ sweep.made # None => Loaded /\ ~Waiting /\ tried <= sub.attempts + 1 + faults
    /\ ~Loaded => sweep.good = {} /\ sweep.bad \intersect Debits = {}
    /\ Loaded => Counts(sweep)
    /\ sweep.at = "sub" =>
            /\ tried <= sweep.mine.attempts + faults
            /\ sweep.mine.attempts = MaxAttempts => sweep.mine.next = None \/ sweep.mine.notice = None
    /\ sweep.at = "call" => tried + 1 <= sweep.mine.attempts + faults
    /\ sweep.at = "settle" /\ sweep.made # None /\ sweep.good = {}
            => tried <= sweep.mine.attempts + faults

-----------------------------------------------------------------------------
(***************************************************************************)
(* Types                                                                   *)
(***************************************************************************)

Runs == [at : {"off", "sub", "call", "settle"}, mine : Sub \union {None},
         dirty : SUBSET Columns, locks : BOOLEAN,
         todo : SUBSET Payments, held : SUBSET Payments,
         good : SUBSET Payments, bad : SUBSET Payments, made : Debits \union {None}]

LEMMA Constants ==
    /\ MaxCheckouts \in Nat \ {0} /\ MaxDebits \in Nat /\ MaxAttempts \in Nat \ {0}
    /\ Month \in Nat /\ Gap \in Nat /\ Window \in Nat /\ Lead \in Nat
    /\ Checkouts \subseteq Payments /\ Debits \subseteq Payments
    /\ Payments \subseteq Nat /\ Checkouts \intersect Debits = {}
    /\ \A p \in Payments : p \notin Checkouts => p \in Debits
    /\ 1 \in Checkouts
    /\ None \notin Payments /\ None \notin Nat
BY RenewalsAssumption DEF RenewalsAssumption, Payments, Checkouts, Debits

LEMMA DueType ==
    ASSUME NEW day \in Nat, NEW p \in Payments, NEW why \in {"paid", "asked", "failed"}
    PROVE  Due(day, p, why) \in Dates /\ Due(day, p, why) \in Moments /\ Due(day, p, why) # None
BY NoneAssumption DEF Due, Dates, Moments, NoneAssumption

LEMMA PaidType ==
    ASSUME NEW s \in Sub, NEW p \in Payments, now \in Nat
    PROVE  Paid(s, p) \in Sub
<1>1. (IF p \in Checkouts THEN now + Month ELSE Later(s.ends, now) + Month) \in Nat
  BY Constants DEF Sub, Later
<1> DEFINE end == IF p \in Checkouts THEN now + Month ELSE Later(s.ends, now) + Month
<1>2. Due(end, p, "paid") \in Moments
  BY <1>1, DueType
<1>3. (IF p \in Checkouts THEN p ELSE s.mandate) \in Checkouts
  BY DEF Sub
<1>4. None \in Moments
  BY DEF Moments
<1> QED
  BY <1>1, <1>2, <1>3, <1>4 DEF Paid, Sub

LEMMA PausedType ==
    ASSUME NEW s \in Sub PROVE Paused(s) \in Sub
BY DEF Paused, Sub, Moments

LEMMA UnpaidType ==
    ASSUME NEW s \in Sub, NEW p \in Payments, now \in Nat
    PROVE  Unpaid(s, p) \in Sub
<1> DEFINE until == IF s.retry = None THEN now + Window ELSE s.retry
           after == [s EXCEPT !.retry = until, !.notice = None]
<1>1. until \in Nat
  BY Constants DEF Sub
<1>2. after \in Sub
  BY <1>1 DEF Sub, Moments
<1>3. Paused(after) \in Sub
  BY <1>2, PausedType
<1>4. Due(now + Gap, p, "failed") \in Moments
  BY DueType, Constants
<1>5. [after EXCEPT !.status = "past_due", !.next = Due(now + Gap, p, "failed")] \in Sub
  BY <1>2, <1>4 DEF Sub
<1> HIDE DEF after, until
<1>6. Unpaid(s, p) \in {s, Paused(after), [after EXCEPT !.status = "past_due", !.next = Due(now + Gap, p, "failed")]}
  BY DEF Unpaid, after, until
<1> QED
  BY <1>3, <1>5, <1>6

\* What _charge makes of the copy before it asks PayU.
Asked(s, d) == [s EXCEPT !.attempts = @ + 1, !.notice = None, !.next = Due(now + Gap, d, "asked")]

LEMMA AskedType ==
    ASSUME NEW s \in Sub, NEW d \in Debits, now \in Nat
    PROVE  Asked(s, d) \in Sub
<1>1. Due(now + Gap, d, "asked") \in Moments
  BY DueType, Constants
<1>2. [s EXCEPT !.attempts = @ + 1] \in Sub
  BY DEF Sub
<1>3. \A u \in Sub : [u EXCEPT !.notice = None, !.next = Due(now + Gap, d, "asked")] \in Sub
  BY <1>1 DEF Sub, Moments
<1>4. Asked(s, d) = [[s EXCEPT !.attempts = @ + 1] EXCEPT !.notice = None,
                                                          !.next = Due(now + Gap, d, "asked")]
  BY DEF Asked
<1> QED
  BY <1>2, <1>3, <1>4

LEMMA EditedType ==
    ASSUME NEW run \in Runs, NEW t \in Sub
    PROVE  Edited(run, t) \in Runs
BY DEF Edited, Runs

LEMMA ListedType ==
    ASSUME NEW run \in Runs
    PROVE  Listed(run) \in Runs
BY DEF Listed, Pending, Runs

LEMMA OffType == Off \in Runs
BY DEF Off, Runs

\* A commit writes columns one by one: what comes out is a subscription again.
LEMMA MergeType ==
    ASSUME NEW s \in Sub, NEW t \in Sub, NEW D
    PROVE  [f \in Columns |-> IF f \in D THEN t[f] ELSE s[f]] \in Sub
<1> DEFINE u == [f \in Columns |-> IF f \in D THEN t[f] ELSE s[f]]
<1>1. /\ u["status"] \in {"active", "past_due", "suspended", "cancelled"}
      /\ u["ends"] \in Nat /\ u["next"] \in Moments /\ u["notice"] \in Moments
      /\ u["attempts"] \in Nat /\ u["retry"] \in Nat \union {None}
      /\ u["mandate"] \in Checkouts /\ u["stop"] \in BOOLEAN
  BY DEF Columns, Sub
<1>2. u = [status |-> u["status"], ends |-> u["ends"], next |-> u["next"], notice |-> u["notice"],
           attempts |-> u["attempts"], retry |-> u["retry"], mandate |-> u["mandate"], stop |-> u["stop"]]
  BY DEF Columns
<1> HIDE DEF u
<1>3. u \in Sub
  BY <1>1, <1>2 DEF Sub
<1> QED
  BY <1>3 DEF u

LEMMA TypeInit == Init => TypeOK
<1> SUFFICES ASSUME Init PROVE TypeOK
  OBVIOUS
<1>1. sub \in Sub
  <2>1. Due(Month, 1, "paid") \in Moments /\ None \in Moments
    BY DueType, Constants DEF Moments
  <2> QED
    BY <2>1, Constants DEF Init, Sub
<1>2. sweep \in Runs
  BY OffType DEF Init
<1> QED
  BY <1>1, <1>2, Constants DEF Init, TypeOK, Runs, Moments

LEMMA SweepType ==
    ASSUME TypeOK, sweep' \in Runs,
           UNCHANGED <<now, sub, payment, since, payu, told, tried, hook, faults>>
    PROVE  TypeOK'
BY DEF TypeOK, Runs

LEMMA TypeStep == TypeOK /\ RunInv /\ [Next]_vars => TypeOK'
<1> SUFFICES ASSUME TypeOK, RunInv, [Next]_vars PROVE TypeOK'
  OBVIOUS
<1> USE Constants
<1>a. /\ now \in Nat /\ sub \in Sub /\ sweep \in Runs
      /\ sweep.at \in {"sub", "call"} => sweep.mine \in Sub
  BY DEF TypeOK, Runs, RunInv, Loaded
<1>1. CASE Tick
  BY <1>1 DEF Tick, TypeOK
<1>2. ASSUME NEW p \in Payments, Decide(p) PROVE TypeOK'
  BY <1>2 DEF Decide, TypeOK
<1>3. ASSUME NEW c \in Checkouts, Subscribe(c) PROVE TypeOK'
  BY <1>3 DEF Subscribe, TypeOK
<1>4. ASSUME NEW stop \in BOOLEAN, SetStop(stop) PROVE TypeOK'
  <2>1. [sub EXCEPT !.stop = stop] \in Sub
    BY <1>a DEF Sub
  <2> QED
    BY <2>1, <1>4 DEF SetStop, TypeOK
<1>5. ASSUME NEW h \in Hooks, NEW p \in Payments, HookBegins(h, p) PROVE TypeOK'
  BY <1>5 DEF HookBegins, TypeOK
<1>6. ASSUME NEW h \in Hooks, HookApplies(h) PROVE TypeOK'
  <2>1. hook[h] \in Payments
    BY <1>6 DEF HookApplies, TypeOK
  <2>2. Paid(sub, hook[h]) \in Sub /\ Unpaid(sub, hook[h]) \in Sub
    BY <2>1, <1>a, PaidType, UnpaidType
  <2>3. sub' \in Sub
    BY <2>2, <1>6 DEF HookApplies
  <2>4. /\ payment' \in [Payments -> {"none", "pending", "success", "failed"}]
        /\ since' \in [Payments -> Nat] /\ tried' \in Nat
        /\ hook' \in [Hooks -> Payments \union {None}]
    BY <2>1, <1>6 DEF HookApplies, TypeOK
  <2> QED
    BY <2>3, <2>4, <1>6 DEF HookApplies, TypeOK
<1>7. ASSUME NEW h \in Hooks, HookFails(h) PROVE TypeOK'
  BY <1>7 DEF HookFails, TypeOK
<1>8. CASE SweepReads
  <2>1. [Off EXCEPT !.at = "sub", !.mine = sub] \in Runs
    BY <1>a, OffType DEF Runs
  <2>2. sweep' \in Runs
    BY <2>1, <1>8, OffType, ListedType DEF SweepReads
  <2> QED
    BY <2>2, <1>8, SweepType DEF SweepReads
<1>9. CASE SweepPauses
  <2>1. sweep' \in Runs
    BY <1>9, <1>a, PausedType, EditedType, ListedType DEF SweepPauses, Turn
  <2> QED
    BY <2>1, <1>9, SweepType DEF SweepPauses
<1>10. CASE SweepEnds
  <2>1. [sweep.mine EXCEPT !.status = "cancelled"] \in Sub
    BY <1>10, <1>a DEF SweepEnds, Turn, Sub
  <2>2. sweep' \in Runs
    BY <2>1, <1>10, <1>a, EditedType, ListedType DEF SweepEnds
  <2> QED
    BY <2>2, <1>10, SweepType DEF SweepEnds
<1>11. CASE SweepPasses
  <2>1. sweep' \in Runs
    BY <1>11, <1>a, OffType, ListedType DEF SweepPasses
  <2> QED
    BY <2>1, <1>11, SweepType DEF SweepPasses
<1>12. CASE SweepNotifies
  <2>1. /\ sweep.mine.next \in Moments
        /\ [sweep.mine EXCEPT !.notice = sweep.mine.next] \in Sub
    BY <1>12, <1>a DEF SweepNotifies, Turn, Sub
  <2>2. sweep' \in Runs
    BY <2>1, <1>12, <1>a, EditedType, ListedType DEF SweepNotifies
  <2>3. told' \in [Checkouts -> Moments]
    BY <2>1, <1>12 DEF SweepNotifies, TypeOK
  <2> QED
    BY <2>2, <2>3, <1>12 DEF SweepNotifies, TypeOK, Runs
<1>13. ASSUME NEW d \in Debits, SweepCharges(d) PROVE TypeOK'
  <2> DEFINE t == Asked(sweep.mine, d)
  <2>2. t \in Sub
    BY <1>13, <1>a, AskedType DEF SweepCharges, Turn
  <2>3. Edited(sweep, t) \in Runs
    BY <2>2, <1>a, EditedType
  <2>4. sweep' = [Edited(sweep, t) EXCEPT !.at = "call", !.locks = TRUE, !.made = d]
    BY <1>13 DEF SweepCharges, Asked
  <2> HIDE DEF t
  <2>5. sweep' \in Runs
    BY <2>3, <2>4 DEF Runs
  <2>6. since' \in [Payments -> Nat]
    BY <1>13 DEF SweepCharges, TypeOK
  <2> QED
    BY <2>5, <2>6, <1>13 DEF SweepCharges, TypeOK, Runs
<1>14. CASE SweepCalls
  <2>1. sweep.made \in Debits
    BY <1>14, <1>a DEF SweepCalls, RunInv, Runs
  <2>2. Edited(sweep, Unpaid(sweep.mine, sweep.made)) \in Runs
    BY <2>1, <1>14, <1>a, UnpaidType, EditedType DEF SweepCalls
  <2>3. Listed(sweep) \in Runs /\ Listed(Edited(sweep, Unpaid(sweep.mine, sweep.made))) \in Runs
    BY <2>2, <1>a, ListedType
  <2>4. sweep' \in Runs
    BY <2>1, <2>3, <1>14 DEF SweepCalls, Runs
  <2>5. payu' \in [Payments -> {"none", "pending", "captured", "failed"}]
    BY <2>1, <1>14 DEF SweepCalls, TypeOK
  <2> QED
    BY <2>4, <2>5, <1>14 DEF SweepCalls, TypeOK, Runs
<1>15. ASSUME NEW p \in Payments, SweepSettles(p) PROVE TypeOK'
  <2> DEFINE run == [sweep EXCEPT !.todo = @ \ {p}, !.held = @ \union {p}]
             copy == IF sweep.mine = None THEN [run EXCEPT !.mine = sub] ELSE run
  <2>1. run \in Runs /\ copy \in Runs /\ copy.mine \in Sub
    BY <1>a DEF Runs
  <2>2. /\ Edited(copy, Paid(copy.mine, p)) \in Runs
        /\ Edited(copy, Unpaid(copy.mine, p)) \in Runs
    BY <2>1, <1>a, PaidType, UnpaidType, EditedType
  <2>3. \/ sweep' = run
        \/ sweep' = [Edited(copy, Paid(copy.mine, p)) EXCEPT !.locks = TRUE, !.good = @ \union {p}]
        \/ sweep' = [Edited(copy, Unpaid(copy.mine, p)) EXCEPT !.locks = TRUE, !.bad = @ \union {p}]
        \/ sweep' = [run EXCEPT !.bad = @ \union {p}]
    BY <1>15 DEF SweepSettles
  <2> HIDE DEF run, copy
  <2>4. ASSUME sweep' = [Edited(copy, Paid(copy.mine, p)) EXCEPT !.locks = TRUE, !.good = @ \union {p}]
        PROVE  sweep' \in Runs
    BY <2>2, <2>4 DEF Runs
  <2>5. ASSUME sweep' = [Edited(copy, Unpaid(copy.mine, p)) EXCEPT !.locks = TRUE, !.bad = @ \union {p}]
        PROVE  sweep' \in Runs
    BY <2>2, <2>5 DEF Runs
  <2>6. ASSUME sweep' = [run EXCEPT !.bad = @ \union {p}] PROVE sweep' \in Runs
    BY <2>1, <2>6 DEF Runs
  <2>7. sweep' \in Runs
    BY <2>1, <2>3, <2>4, <2>5, <2>6
  <2> QED
    BY <2>7, <1>15, SweepType DEF SweepSettles
<1>16. CASE SweepCommits
  <2>1. sub' \in Sub
    <3>1. CASE sweep.mine \in Sub
      BY <3>1, <1>16, <1>a, MergeType DEF SweepCommits
    <3>2. CASE sweep.mine \notin Sub
      <4>1. sweep.dirty = {}
        BY <3>2, <1>a DEF RunInv, Loaded, Runs
      <4>2. sub' = [f \in Columns |-> IF f \in sweep.dirty THEN sub[f] ELSE sub[f]]
        BY <4>1, <1>16 DEF SweepCommits
      <4> QED
        BY <4>2, <1>a, MergeType
    <3> QED
      BY <3>1, <3>2
  <2>2. /\ payment' \in [Payments -> {"none", "pending", "success", "failed"}]
        /\ since' \in [Payments -> Nat] /\ tried' \in Nat
    BY <1>16 DEF SweepCommits, TypeOK
  <2> QED
    BY <2>1, <2>2, <1>16, OffType DEF SweepCommits, TypeOK, Runs
<1>17. CASE SweepFails
  <2>1. since' \in [Payments -> Nat] /\ faults' \in Nat /\ sweep' \in Runs
    <3>1. since \in [Payments -> Nat] /\ faults \in Nat
      BY DEF TypeOK
    <3>2. since' = [since EXCEPT ![sweep.made] = 0] /\ faults' = faults + 1 /\ sweep' = Off
      BY <1>17 DEF SweepFails
    <3>3. since' \in [Payments -> Nat]
      BY <3>1, <3>2
    <3> QED
      BY <3>1, <3>2, <3>3, OffType
  <2>2. UNCHANGED <<now, sub, payment, payu, told, tried, hook>>
    BY <1>17 DEF SweepFails
  <2> QED
    BY <2>1, <2>2 DEF TypeOK, Runs
<1>18. CASE UNCHANGED vars
  BY <1>18 DEF vars, TypeOK
<1> QED
  BY <1>1, <1>2, <1>3, <1>4, <1>5, <1>6, <1>7, <1>8, <1>9, <1>10, <1>11, <1>12, <1>13, <1>14,
     <1>15, <1>16, <1>17, <1>18, Zenon DEF Next, SweepStep

-----------------------------------------------------------------------------
(***************************************************************************)
(* The run and the requests                                                *)
(***************************************************************************)

LEMMA RunInit == Init => RunInv /\ HookInv
BY DEF Init, RunInv, HookInv, Off, Loaded

\* While the run stands still, all it asks of the others is to leave its payments alone.
LEMMA RunKept ==
    ASSUME RunInv, UNCHANGED sweep,
           \A p \in Payments : p \in sweep.held \/ p = sweep.made => payment'[p] = payment[p],
           sweep \in Runs
    PROVE  RunInv'
<1>1. sweep.made = None \/ sweep.made \in Payments
  BY Constants DEF Runs
<1>2. sweep.held \subseteq Payments
  BY DEF Runs
<1> QED
  BY <1>1, <1>2 DEF RunInv, Loaded

LEMMA RunOff == ASSUME sweep' = Off PROVE RunInv'
BY DEF RunInv, Off, Loaded

\* A run that turns to the pending payments, whether or not it has changed its copy.
LEMMA RunListed ==
    ASSUME RunInv, sweep \in Runs, sweep.at \in {"sub", "call"}, UNCHANGED payment,
           NEW t \in Sub,
           sweep' = Listed(sweep) \/ sweep' = Listed(Edited(sweep, t))
    PROVE  RunInv'
<1>1. /\ sweep'.at = "settle" /\ sweep'.todo = Pending /\ sweep'.mine # None
      /\ UNCHANGED <<sweep.made, sweep.good, sweep.bad, sweep.held>>
      /\ sweep.locks => sweep'.locks
      /\ sweep'.dirty # {} => sweep'.locks
  <2>1. sweep.mine # None /\ (sweep.dirty # {} => sweep.locks)
    BY DEF RunInv, Loaded
  <2>2. t # None
    BY NoneAssumption DEF NoneAssumption
  <2>3. CASE sweep' = Listed(sweep)
    BY <2>1, <2>3 DEF Listed, Runs
  <2>4. CASE sweep' = Listed(Edited(sweep, t))
    <3> DEFINE e == Edited(sweep, t)
    <3>1. e \in Runs
      BY DEF Edited, Runs
    <3>2. e.mine = t /\ e.locks = sweep.locks /\ e.made = sweep.made
          /\ e.good = sweep.good /\ e.bad = sweep.bad /\ e.held = sweep.held
      BY DEF Edited, Runs
    <3>3. sweep' = Listed(e)
      BY <2>4
    <3> HIDE DEF e
    <3> QED
      BY <2>2, <3>1, <3>2, <3>3 DEF Listed, Runs
  <2> QED
    BY <2>3, <2>4
<1>2. sweep.made \notin Pending
  BY Constants DEF RunInv, Pending
<1> QED
  BY <1>1, <1>2 DEF RunInv, Loaded

LEMMA RunStep == TypeOK /\ RunInv /\ HookInv /\ [Next]_vars => RunInv'
<1> SUFFICES ASSUME TypeOK, RunInv, HookInv, [Next]_vars PROVE RunInv'
  OBVIOUS
<1>a. /\ now \in Nat /\ sub \in Sub /\ sweep \in Runs
      /\ sweep.at \in {"sub", "call"} => sweep.mine \in Sub
      /\ hook \in [Hooks -> Payments \union {None}]
      /\ payment \in [Payments -> {"none", "pending", "success", "failed"}]
  BY DEF TypeOK, Runs, RunInv, Loaded
<1>b. sub # None /\ sub' # None
  BY <1>a, NoneAssumption, TypeStep DEF NoneAssumption, TypeOK
<1>1. CASE Tick
  BY <1>1, <1>a, RunKept DEF Tick
<1>2. ASSUME NEW p \in Payments, Decide(p) PROVE RunInv'
  BY <1>2, <1>a, RunKept DEF Decide
<1>3. ASSUME NEW c \in Checkouts, Subscribe(c) PROVE RunInv'
  <2>1. c # sweep.made
    BY <1>a, Constants DEF Runs
  <2>2. \A p \in Payments : p # c => payment'[p] = payment[p]
    BY <1>3, <1>a DEF Subscribe
  <2>3. sweep.made = None \/ sweep.made \in Payments
    BY <1>a, Constants DEF Runs
  <2>4. c \notin sweep.good \union sweep.bad
    BY <2>1, <1>3 DEF RunInv, Subscribe
  <2>5. sweep.good \subseteq Payments /\ sweep.bad \subseteq Payments /\ UNCHANGED sweep
    BY <1>3, <1>a DEF Runs, Subscribe
  <2> QED
    BY <2>1, <2>2, <2>3, <2>4, <2>5 DEF RunInv, Loaded
<1>4. ASSUME NEW stop \in BOOLEAN, SetStop(stop) PROVE RunInv'
  BY <1>4, <1>a, RunKept DEF SetStop
<1>5. ASSUME NEW h \in Hooks, NEW p \in Payments, HookBegins(h, p) PROVE RunInv'
  BY <1>5, <1>a, RunKept DEF HookBegins
<1>6. ASSUME NEW h \in Hooks, HookApplies(h) PROVE RunInv'
  <2>1. hook[h] \in Payments /\ hook[h] \notin sweep.held /\ hook[h] # sweep.made
    BY <1>6, <1>a DEF HookApplies, HookInv, RunInv
  <2>2. \A p \in Payments : p # hook[h] => payment'[p] = payment[p]
    BY <1>6, <1>a DEF HookApplies
  <2> QED
    BY <2>1, <2>2, <1>6, <1>a, RunKept DEF HookApplies
<1>7. ASSUME NEW h \in Hooks, HookFails(h) PROVE RunInv'
  BY <1>7, <1>a, RunKept DEF HookFails
<1>8. CASE SweepReads
  <2>1. CASE sweep' = Listed(Off)
    BY <2>1, <1>8, Constants DEF SweepReads, Listed, Off, RunInv, Loaded, Pending
  <2>2. CASE sweep' = [Off EXCEPT !.at = "sub", !.mine = sub]
    BY <2>2, <1>8, <1>b DEF SweepReads, Off, RunInv, Loaded
  <2> QED
    BY <2>1, <2>2, <1>8 DEF SweepReads

<1>9. CASE SweepPauses
  <2>1. sweep' = Listed(Edited(sweep, Paused(sweep.mine))) /\ Turn /\ UNCHANGED payment
    BY <1>9 DEF SweepPauses
  <2> QED
    BY <2>1, <1>a, PausedType, RunListed DEF Turn
<1>10. CASE SweepEnds
  <2>1. /\ sweep' = Listed(Edited(sweep, [sweep.mine EXCEPT !.status = "cancelled"]))
        /\ Turn /\ UNCHANGED payment
    BY <1>10 DEF SweepEnds
  <2>2. [sweep.mine EXCEPT !.status = "cancelled"] \in Sub
    BY <2>1, <1>a DEF Turn, Sub
  <2> QED
    BY <2>1, <2>2, <1>a, RunListed DEF Turn
<1>11. CASE SweepPasses
  <2>1. CASE sweep' = Off
    BY <2>1, RunOff
  <2>2. CASE sweep' = Listed(sweep)
    BY <2>2, <1>11, <1>a, RunListed DEF SweepPasses, Turn
  <2> QED
    BY <2>1, <2>2, <1>11 DEF SweepPasses
<1>12. CASE SweepNotifies
  <2>1. CASE sweep' = Listed(Edited(sweep, [sweep.mine EXCEPT !.notice = sweep.mine.next]))
    <3>1. [sweep.mine EXCEPT !.notice = sweep.mine.next] \in Sub
      BY <1>12, <1>a DEF SweepNotifies, Turn, Sub
    <3> QED
      BY <3>1, <2>1, <1>12, <1>a, RunListed DEF SweepNotifies, Turn
  <2>2. CASE sweep' = Listed(sweep)
    BY <2>2, <1>12, <1>a, RunListed DEF SweepNotifies, Turn
  <2> QED
    BY <2>1, <2>2, <1>12 DEF SweepNotifies
<1>13. ASSUME NEW d \in Debits, SweepCharges(d) PROVE RunInv'
  <2> DEFINE t == Asked(sweep.mine, d)
  <2>1. /\ sweep' = [Edited(sweep, t) EXCEPT !.at = "call", !.locks = TRUE, !.made = d]
        /\ sweep.at = "sub" /\ payment[d] = "none" /\ UNCHANGED payment
    BY <1>13 DEF SweepCharges, Fresh, Turn, Asked
  <2>3. t # None
    BY <2>1, <1>a, AskedType, NoneAssumption DEF NoneAssumption
  <2> HIDE DEF t
  <2>4. /\ sweep'.at = "call" /\ sweep'.mine = t /\ sweep'.locks /\ sweep'.made = d
        /\ UNCHANGED <<sweep.good, sweep.bad, sweep.todo, sweep.held>>
    BY <2>1, <1>a DEF Edited, Runs
  <2>5. d \in Payments /\ d # None
    BY Constants
  <2> QED
    BY <2>1, <2>3, <2>4, <2>5 DEF RunInv, Loaded
<1>14. CASE SweepCalls
  <2>1. sweep.made \in Debits /\ sweep.made \in Payments /\ sweep.at = "call" /\ UNCHANGED payment
    BY <1>14, <1>a, Constants DEF SweepCalls, RunInv, Runs
  <2>2. CASE sweep' = Listed(sweep)
    BY <2>1, <2>2, <1>a, RunListed
  <2>3. CASE sweep' = [Listed(Edited(sweep, Unpaid(sweep.mine, sweep.made))) EXCEPT !.bad = {sweep.made}]
    <3> DEFINE t == Unpaid(sweep.mine, sweep.made)
               run == Listed(Edited(sweep, t))
    <3>1. t \in Sub /\ t # None
      BY <2>1, <1>a, UnpaidType, NoneAssumption DEF NoneAssumption
    <3> HIDE DEF t
    <3>2. /\ sweep'.at = "settle" /\ sweep'.mine = t /\ sweep'.locks
          /\ sweep'.made = sweep.made /\ sweep'.bad = {sweep.made}
          /\ sweep'.good = sweep.good /\ sweep'.held = sweep.held /\ sweep'.todo = Pending
      BY <2>1, <2>3, <1>a DEF Edited, Listed, Runs, RunInv, t
    <3>3. sweep.made \notin Pending
      BY <2>1 DEF RunInv, Pending
    <3> QED
      BY <3>1, <3>2, <3>3, <2>1 DEF RunInv, Loaded
  <2> QED
    BY <2>2, <2>3, <1>14 DEF SweepCalls
<1>15. ASSUME NEW p \in Payments, SweepSettles(p) PROVE RunInv'
  <2> DEFINE run == [sweep EXCEPT !.todo = @ \ {p}, !.held = @ \union {p}]
             copy == IF sweep.mine = None THEN [run EXCEPT !.mine = sub] ELSE run
  <2>1. /\ sweep.at = "settle" /\ p \in sweep.todo /\ UNCHANGED payment
        /\ p # sweep.made /\ p \notin sweep.held /\ p \notin sweep.good \union sweep.bad
    BY <1>15 DEF SweepSettles, RunInv
  <2>2. /\ copy \in Runs /\ copy.mine \in Sub
        /\ copy.at = "settle" /\ copy.todo = sweep.todo \ {p} /\ copy.held = sweep.held \union {p}
        /\ copy.good = sweep.good /\ copy.bad = sweep.bad /\ copy.made = sweep.made
        /\ copy.locks = sweep.locks /\ copy.dirty = sweep.dirty
    BY <2>1, <1>a DEF Runs
  <2>3. /\ Paid(copy.mine, p) \in Sub /\ Unpaid(copy.mine, p) \in Sub
        /\ Paid(copy.mine, p) # None /\ Unpaid(copy.mine, p) # None
    BY <2>2, <1>a, PaidType, UnpaidType, NoneAssumption DEF NoneAssumption
  <2>4. CASE sweep' = run
    BY <2>1, <2>4, <1>a DEF RunInv, Loaded, Runs
  <2>5. ASSUME NEW t \in Sub, payment[p] = "pending", t # None,
               \/ sweep' = [Edited(copy, t) EXCEPT !.locks = TRUE, !.good = @ \union {p}]
               \/ sweep' = [Edited(copy, t) EXCEPT !.locks = TRUE, !.bad = @ \union {p}]
        PROVE  RunInv'
    <3> HIDE DEF copy
    <3>1. /\ sweep'.at = "settle" /\ sweep'.mine = t /\ sweep'.locks /\ sweep'.made = sweep.made
          /\ sweep'.todo = sweep.todo \ {p} /\ sweep'.held = sweep.held \union {p}
          /\ \/ sweep'.good = sweep.good \union {p} /\ sweep'.bad = sweep.bad
             \/ sweep'.good = sweep.good /\ sweep'.bad = sweep.bad \union {p}
      BY <2>2, <2>5 DEF Edited, Runs
    <3> QED
      BY <3>1, <2>1, <2>5 DEF RunInv, Loaded
  <2>6. CASE payment[p] = "pending" /\ sweep' = [run EXCEPT !.bad = @ \union {p}]
    BY <2>1, <2>6, <1>a DEF RunInv, Loaded, Runs
  <2>7. \/ sweep' = run
        \/ payment[p] = "pending" /\ sweep' = [Edited(copy, Paid(copy.mine, p)) EXCEPT !.locks = TRUE, !.good = @ \union {p}]
        \/ payment[p] = "pending" /\ sweep' = [Edited(copy, Unpaid(copy.mine, p)) EXCEPT !.locks = TRUE, !.bad = @ \union {p}]
        \/ payment[p] = "pending" /\ sweep' = [run EXCEPT !.bad = @ \union {p}]
    BY <1>15 DEF SweepSettles, Succeeded, GivenUp
  <2> HIDE DEF run, copy
  <2> QED
    BY <2>3, <2>4, <2>5, <2>6, <2>7
<1>16. CASE SweepCommits
  BY <1>16, RunOff DEF SweepCommits
<1>17. CASE SweepFails
  BY <1>17, RunOff DEF SweepFails
<1>18. CASE UNCHANGED vars
  BY <1>18, <1>a, RunKept DEF vars
<1> QED
  BY <1>1, <1>2, <1>3, <1>4, <1>5, <1>6, <1>7, <1>8, <1>9, <1>10, <1>11, <1>12, <1>13, <1>14,
     <1>15, <1>16, <1>17, <1>18, Zenon DEF Next, SweepStep

\* A request keeps what it has as long as its payment is untouched and not taken by the sweep.
LEMMA HookKept ==
    ASSUME HookInv, UNCHANGED hook,
           \A h \in Hooks : hook[h] # None =>
                payment'[hook[h]] = payment[hook[h]] /\ hook[h] \notin sweep'.held
    PROVE  HookInv'
BY DEF HookInv

LEMMA HookStep == TypeOK /\ RunInv /\ HookInv /\ [Next]_vars => HookInv'
<1> SUFFICES ASSUME TypeOK, RunInv, HookInv, [Next]_vars PROVE HookInv'
  OBVIOUS
<1>a. /\ sweep \in Runs
      /\ hook \in [Hooks -> Payments \union {None}]
      /\ payment \in [Payments -> {"none", "pending", "success", "failed"}]
  BY DEF TypeOK, Runs
<1>b. \A h \in Hooks : hook[h] # None =>
            hook[h] \in Payments /\ hook[h] \notin sweep.held /\ payment[hook[h]] = "pending"
  BY <1>a DEF HookInv
<1>1. CASE Tick
  BY <1>1, <1>b, HookKept DEF Tick
<1>2. ASSUME NEW p \in Payments, Decide(p) PROVE HookInv'
  BY <1>2, <1>b, HookKept DEF Decide
<1>3. ASSUME NEW c \in Checkouts, Subscribe(c) PROVE HookInv'
  <2>1. \A p \in Payments : p # c => payment'[p] = payment[p]
    BY <1>3, <1>a DEF Subscribe
  <2>2. payment[c] = "none" /\ UNCHANGED <<sweep, hook>>
    BY <1>3 DEF Subscribe
  <2> QED
    BY <2>1, <2>2, <1>b, HookKept
<1>4. ASSUME NEW stop \in BOOLEAN, SetStop(stop) PROVE HookInv'
  BY <1>4, <1>b, HookKept DEF SetStop
<1>5. ASSUME NEW h \in Hooks, NEW p \in Payments, HookBegins(h, p) PROVE HookInv'
  <2>1. /\ payment[p] = "pending" /\ p \notin sweep.held /\ \A g \in Hooks : hook[g] # p
        /\ \A g \in Hooks : hook'[g] = IF g = h THEN p ELSE hook[g]
        /\ UNCHANGED <<payment, sweep>>
    BY <1>5, <1>a DEF HookBegins, Succeeded, GivenUp
  <2> QED
    BY <2>1 DEF HookInv
<1>6. ASSUME NEW h \in Hooks, HookApplies(h) PROVE HookInv'
  <2>1. /\ \A p \in Payments : p # hook[h] => payment'[p] = payment[p]
        /\ \A g \in Hooks : hook'[g] = IF g = h THEN None ELSE hook[g]
        /\ UNCHANGED sweep /\ hook[h] # None
    BY <1>6, <1>a DEF HookApplies
  <2> QED
    BY <2>1, <1>b DEF HookInv
<1>7. ASSUME NEW h \in Hooks, HookFails(h) PROVE HookInv'
  <2>1. /\ \A g \in Hooks : hook'[g] = IF g = h THEN None ELSE hook[g]
        /\ UNCHANGED <<payment, sweep>>
    BY <1>7, <1>a DEF HookFails
  <2> QED
    BY <2>1 DEF HookInv
\* A run leaves its payments for one that holds none or still holds what it had.
<1>8. ASSUME UNCHANGED <<hook, payment>>, sweep'.held \in {{}, sweep.held} PROVE HookInv'
  BY <1>8, <1>b, HookKept
<1>9. CASE SweepReads
  BY <1>9, <1>8 DEF SweepReads, Listed, Off
<1>10. CASE SweepPauses \/ SweepEnds \/ SweepPasses \/ SweepNotifies
  <2>1. \A t : Listed(sweep).held = sweep.held /\ Listed(Edited(sweep, t)).held = sweep.held
    BY <1>a DEF Listed, Edited, Runs
  <2>2. sweep' = Off \/ sweep' = Listed(sweep) \/ \E t : sweep' = Listed(Edited(sweep, t))
    BY <1>10 DEF SweepPauses, SweepEnds, SweepPasses, SweepNotifies
  <2>3. UNCHANGED <<hook, payment>>
    BY <1>10 DEF SweepPauses, SweepEnds, SweepPasses, SweepNotifies
  <2> QED
    BY <2>1, <2>2, <2>3, <1>8 DEF Off
<1>11. ASSUME NEW d \in Debits, SweepCharges(d) PROVE HookInv'
  BY <1>11, <1>a, <1>8 DEF SweepCharges, Edited, Runs
<1>12. CASE SweepCalls
  BY <1>12, <1>a, <1>8 DEF SweepCalls, Edited, Listed, Runs
<1>13. ASSUME NEW p \in Payments, SweepSettles(p) PROVE HookInv'
  <2>1. sweep'.held = sweep.held \union {p}
    <3> DEFINE run == [sweep EXCEPT !.todo = @ \ {p}, !.held = @ \union {p}]
               copy == IF sweep.mine = None THEN [run EXCEPT !.mine = sub] ELSE run
    <3>1. /\ run.held = sweep.held \union {p} /\ copy.held = sweep.held \union {p}
          /\ DOMAIN run = DOMAIN sweep /\ DOMAIN copy = DOMAIN sweep
      BY <1>a DEF Runs
    <3>2. \E t : \/ sweep' = run \/ sweep' = [run EXCEPT !.bad = @ \union {p}]
                 \/ sweep' = [Edited(copy, t) EXCEPT !.locks = TRUE, !.good = @ \union {p}]
                 \/ sweep' = [Edited(copy, t) EXCEPT !.locks = TRUE, !.bad = @ \union {p}]
      BY <1>13 DEF SweepSettles
    <3> HIDE DEF run, copy
    <3> QED
      BY <3>1, <3>2, <1>a DEF Edited, Runs
  <2>2. UNCHANGED <<hook, payment>> /\ \A h \in Hooks : hook[h] # p
    BY <1>13 DEF SweepSettles
  <2> QED
    BY <2>1, <2>2, <1>b, HookKept
<1>14. CASE SweepCommits
  <2>1. \A p \in Payments :
            p \notin sweep.good \union sweep.bad /\ p # sweep.made => payment'[p] = payment[p]
    BY <1>14 DEF SweepCommits
  <2>2. \A p \in Payments : payment[p] = "pending" /\ p \notin sweep.held
            => p \notin sweep.good \union sweep.bad /\ p # sweep.made
    BY Constants DEF RunInv
  <2>3. UNCHANGED hook /\ sweep'.held = {}
    BY <1>14 DEF SweepCommits, Off
  <2> QED
    BY <2>1, <2>2, <2>3, <1>b, HookKept
<1>15. CASE SweepFails
  BY <1>15, <1>8 DEF SweepFails, Off
<1>16. CASE UNCHANGED vars
  BY <1>16, <1>8 DEF vars
<1> QED
  BY <1>1, <1>2, <1>3, <1>4, <1>5, <1>6, <1>7, <1>9, <1>10, <1>11, <1>12, <1>13, <1>14,
     <1>15, <1>16, Zenon DEF Next, SweepStep

-----------------------------------------------------------------------------
(***************************************************************************)
(* Every debit was announced                                               *)
(***************************************************************************)

\* A settled payment stays settled, and one that was made stays made.
Onward == \A p \in Payments :
    /\ payment[p] \in {"success", "failed"} => payment'[p] = payment[p]
    /\ payment[p] # "none" => payment'[p] # "none"

LEMMA OnwardStep == TypeOK /\ RunInv /\ HookInv /\ [Next]_vars => Onward
<1> SUFFICES ASSUME TypeOK, RunInv, HookInv, [Next]_vars PROVE Onward
  OBVIOUS
<1>a. /\ payment \in [Payments -> {"none", "pending", "success", "failed"}]
      /\ hook \in [Hooks -> Payments \union {None}]
      /\ Checkouts \subseteq Payments
  BY Constants DEF TypeOK
<1>1. CASE UNCHANGED payment
  BY <1>1 DEF Onward
<1>2. ASSUME NEW c \in Checkouts, Subscribe(c) PROVE Onward
  BY <1>2, <1>a DEF Subscribe, Onward
<1>3. ASSUME NEW h \in Hooks, HookApplies(h) PROVE Onward
  <2>1. hook[h] \in Payments /\ payment[hook[h]] = "pending"
    BY <1>3, <1>a DEF HookApplies, HookInv
  <2> QED
    BY <2>1, <1>3, <1>a DEF HookApplies, Onward
<1>4. CASE SweepCommits
  <2>1. \A p \in Payments :
            payment'[p] = IF p \in sweep.good THEN "success" ELSE IF p \in sweep.bad THEN "failed"
                          ELSE IF p = sweep.made THEN "pending" ELSE payment[p]
    BY <1>4 DEF SweepCommits
  <2>2. \A p \in Payments : p \in sweep.good \union sweep.bad \/ p = sweep.made
            => payment[p] \in {"none", "pending"}
    BY Constants DEF RunInv
  <2> QED
    BY <2>1, <2>2, <1>a DEF Onward
<1>5. \/ UNCHANGED payment
      \/ \E c \in Checkouts : Subscribe(c)
      \/ \E h \in Hooks : HookApplies(h)
      \/ SweepCommits
  BY Zenon DEF Next, SweepStep, vars, Tick, Decide, SetStop, HookBegins, HookFails, SweepReads,
         SweepPauses, SweepEnds, SweepPasses, SweepNotifies, SweepCharges, SweepCalls,
         SweepSettles, SweepFails
<1> QED
  BY <1>1, <1>2, <1>3, <1>4, <1>5

LEMMA HappenedType ==
    ASSUME NEW m \in Moments, m # None
    PROVE  m \in Dates /\ m.by \in Payments /\ m.why \in {"paid", "asked", "failed"}
BY DEF Moments, Dates

LEMMA NoticeInit == Init => NoticeInv
<1> SUFFICES ASSUME Init PROVE NoticeInv
  OBVIOUS
<1>1. Due(Month, 1, "paid") # None
  BY DueType, Constants
<1> QED
  BY <1>1, Constants DEF Init, NoticeInv, Happened, Announced, Due, Off, Loaded

\* Nothing happens to what is announced and charged; payments may settle.
LEMMA NoticeKept ==
    ASSUME TypeOK, NoticeInv, Onward, UNCHANGED <<sweep, told>>,
           sub'.next = sub.next, sub'.notice = sub.notice, sub'.mandate = sub.mandate
    PROVE  NoticeInv'
<1>1. /\ sub.next \in Moments /\ sub.notice \in Moments
      /\ Loaded => sweep.mine.next \in Moments /\ sweep.mine.notice \in Moments
  BY DEF TypeOK, Sub, Loaded
<1>2. \A m \in Moments : Happened(m) =>
        (m # None => /\ m.why = "paid" => payment'[m.by] = "success"
                     /\ m.why = "failed" => payment'[m.by] = "failed"
                     /\ m.why = "asked" => payment'[m.by] # "none")
  BY HappenedType DEF Happened, Onward
<1>3. (Happened(sub.next) /\ Happened(sub.notice))'
  BY <1>1, <1>2 DEF NoticeInv, Happened
<1>4. (Announced(sub) /\ (sweep.at = "sub" => Announced(sweep.mine)))'
  BY DEF NoticeInv, Announced
<1>5. ASSUME Loaded PROVE Fits(sweep)'
  <2>1. /\ Happened(sweep.mine.notice)'
        /\ "next" \notin sweep.dirty => Happened(sweep.mine.next)'
    BY <1>1, <1>2, <1>5 DEF NoticeInv, Fits, Happened
  <2> QED
    BY <2>1, <1>5 DEF NoticeInv, Fits
<1> QED
  BY <1>3, <1>4, <1>5 DEF NoticeInv, Loaded

\* A request settles p: the row's notice is gone, and its next date is p's doing.
LEMMA NoticeSettled ==
    ASSUME TypeOK, NoticeInv, Onward, UNCHANGED <<sweep, told>>,
           NEW p \in Payments, payment[p] = "pending",
           sub' \in Sub, sub'.notice = None,
           sub'.next = None
           \/ (sub'.next # None /\ sub'.next.by = p
               /\ \/ sub'.next.why = "paid" /\ payment'[p] = "success"
                  \/ sub'.next.why = "failed" /\ payment'[p] = "failed")
    PROVE  NoticeInv'
<1>1. Loaded => sweep.mine.next \in Moments /\ sweep.mine.notice \in Moments
  BY DEF TypeOK, Sub, Loaded
<1>2. \A m \in Moments : Happened(m) =>
        (m # None => /\ m.why = "paid" => payment'[m.by] = "success"
                     /\ m.why = "failed" => payment'[m.by] = "failed"
                     /\ m.why = "asked" => payment'[m.by] # "none")
  BY HappenedType DEF Happened, Onward
<1>3. (Happened(sub.next) /\ Happened(sub.notice))'
  BY DEF Happened
<1>4. (Announced(sub) /\ (sweep.at = "sub" => Announced(sweep.mine)))'
  BY DEF NoticeInv, Announced
<1>5. ASSUME Loaded PROVE Fits(sweep)'
  <2>1. /\ Happened(sweep.mine.notice)'
        /\ "next" \notin sweep.dirty => Happened(sweep.mine.next)'
    BY <1>1, <1>2, <1>5 DEF NoticeInv, Fits, Happened
  <2>2. "next" \notin sweep.dirty /\ sweep.mine.next # None => sub'.next # sweep.mine.next
    BY <1>5 DEF NoticeInv, Fits, Happened
  <2> QED
    BY <2>1, <2>2, <1>5 DEF NoticeInv, Fits
<1> QED
  BY <1>3, <1>4, <1>5 DEF NoticeInv, Loaded

\* The copy changes for something that had not happened: its notice is gone too.
LEMMA FitsEvent ==
    ASSUME NEW run \in Runs, run.mine \in Sub, Fits(run),
           NEW t \in Sub, t.notice = None,
           NEW r \in Runs, r.mine = t,
           r.dirty = run.dirty \union {f \in Columns : run.mine[f] # t[f]},
           t.next # None =>
                /\ ~Happened(t.next)
                /\ \/ t.next.why = "paid" /\ t.next.by \in r.good
                   \/ t.next.why = "failed" /\ t.next.by \in r.bad
                   \/ t.next.why = "asked" /\ t.next.by = r.made
    PROVE  Fits(r)
<1>1. /\ run.mine["next"] = run.mine.next /\ t["next"] = t.next
      /\ run.mine["notice"] = run.mine.notice /\ t["notice"] = t.notice
      /\ run.mine["mandate"] = run.mine.mandate /\ t["mandate"] = t.mandate
  OBVIOUS
<1>2. {"next", "notice", "mandate"} \subseteq Columns
  BY DEF Columns
<1>3. /\ "next" \in r.dirty <=> "next" \in run.dirty \/ run.mine.next # t.next
      /\ "notice" \in r.dirty <=> "notice" \in run.dirty \/ run.mine.notice # t.notice
      /\ "mandate" \in r.dirty <=> "mandate" \in run.dirty \/ run.mine.mandate # t.mandate
  BY <1>1, <1>2
<1>4. "next" \notin r.dirty => t.next = None
  BY <1>3 DEF Fits
<1>5. Happened(None)
  BY DEF Happened
<1> QED
  BY <1>3, <1>4, <1>5 DEF Fits

\* The sweep goes on, and the rest stands still.
LEMMA NoticeRun ==
    ASSUME NoticeInv, UNCHANGED <<sub, payment, told>>,
           sweep'.at # "sub", sweep'.mine # None => Fits(sweep')
    PROVE  NoticeInv'
BY DEF NoticeInv, Loaded, Fits, Happened, Announced

\* Turning to the pending payments changes nothing of the copy.
LEMMA FitsListed ==
    ASSUME NEW run \in Runs, Fits(run)
    PROVE  Fits(Listed(run))
<1>1. /\ Listed(run).mine = run.mine /\ Listed(run).dirty = run.dirty
      /\ Listed(run).good = run.good /\ Listed(run).bad = run.bad /\ Listed(run).made = run.made
  BY DEF Listed, Runs
<1> QED
  BY <1>1 DEF Fits

LEMMA NoticeListed ==
    ASSUME NoticeInv, UNCHANGED <<sub, payment, told>>,
           NEW run \in Runs, Fits(run), sweep' = Listed(run)
    PROVE  NoticeInv'
<1>1. sweep'.at = "settle"
  BY DEF Listed, Runs
<1> QED
  BY <1>1, FitsListed, NoticeRun

\* A copy just read changes, but not what is announced.
LEMMA EditedFits ==
    ASSUME sweep \in Runs, sweep.mine \in Sub, sweep.dirty = {}, Fits(sweep),
           NEW t \in Sub, t.notice = sweep.mine.notice, t.mandate = sweep.mine.mandate,
           t.next \in {None, sweep.mine.next}
    PROVE  Fits(Edited(sweep, t))
<1>1. /\ Edited(sweep, t).mine = t
      /\ Edited(sweep, t).dirty = {f \in Columns : sweep.mine[f] # t[f]}
  BY DEF Edited, Runs
<1>2. /\ sweep.mine["next"] = sweep.mine.next /\ t["next"] = t.next
      /\ sweep.mine["notice"] = sweep.mine.notice /\ t["notice"] = t.notice
      /\ sweep.mine["mandate"] = sweep.mine.mandate /\ t["mandate"] = t.mandate
  OBVIOUS
<1>3. /\ "notice" \notin Edited(sweep, t).dirty /\ "mandate" \notin Edited(sweep, t).dirty
      /\ "next" \in Edited(sweep, t).dirty <=> sweep.mine.next # t.next
  BY <1>1, <1>2 DEF Columns
<1>4. Happened(None)
  BY DEF Happened
<1> QED
  BY <1>1, <1>3, <1>4 DEF Fits

\* What a failed debit leaves of a subscription.
LEMMA UnpaidNotice ==
    ASSUME NEW s \in Sub, NEW p \in Debits, now \in Nat
    PROVE  /\ Unpaid(s, p).notice = None /\ Unpaid(s, p).mandate = s.mandate
           /\ Unpaid(s, p).attempts = s.attempts
           /\ \/ Unpaid(s, p).next = None
              \/ /\ Unpaid(s, p).next = Due(now + Gap, p, "failed") /\ Unpaid(s, p).next # None
                 /\ Unpaid(s, p).next.by = p /\ Unpaid(s, p).next.why = "failed"
                 /\ s.attempts < MaxAttempts
<1> DEFINE until == IF s.retry = None THEN now + Window ELSE s.retry
           after == [s EXCEPT !.retry = until, !.notice = None]
           due == Due(now + Gap, p, "failed")
<1>1. due # None /\ due.by = p /\ due.why = "failed"
  <2>1. due # None
    BY DueType, Constants
  <2> QED
    BY <2>1 DEF Due
<1>2. /\ after.notice = None /\ after.mandate = s.mandate /\ after.attempts = s.attempts
      /\ DOMAIN after = DOMAIN s
  BY DEF Sub
<1>3. s.attempts \in Nat /\ MaxAttempts \in Nat
  BY Constants DEF Sub
<1>4. \/ Unpaid(s, p) = Paused(after)
      \/ /\ Unpaid(s, p) = [after EXCEPT !.status = "past_due", !.next = due]
         /\ ~(after.attempts >= MaxAttempts)
  <2>1. p \notin Checkouts
    BY Constants
  <2> QED
    BY <2>1 DEF Unpaid, Spent
<1>5. {"status", "next", "notice", "mandate", "attempts"} \subseteq DOMAIN after
  BY <1>2 DEF Sub
<1> HIDE DEF after, due
<1>6. CASE Unpaid(s, p) = Paused(after)
  BY <1>6, <1>2, <1>5 DEF Paused
<1>7. CASE /\ Unpaid(s, p) = [after EXCEPT !.status = "past_due", !.next = due]
           /\ ~(after.attempts >= MaxAttempts)
  BY <1>7, <1>1, <1>2, <1>3, <1>5 DEF due
<1> QED
  BY <1>4, <1>6, <1>7

LEMMA NoticeStep ==
    TypeOK /\ RunInv /\ HookInv /\ NoticeInv /\ Onward /\ [Next]_vars => NoticeInv'
<1> SUFFICES ASSUME TypeOK, RunInv, HookInv, NoticeInv, Onward, [Next]_vars PROVE NoticeInv'
  OBVIOUS
<1>a. /\ now \in Nat /\ sub \in Sub /\ sweep \in Runs
      /\ sweep.at \in {"sub", "call"} => sweep.mine \in Sub
      /\ hook \in [Hooks -> Payments \union {None}]
      /\ payment \in [Payments -> {"none", "pending", "success", "failed"}]
      /\ sweep.mine # None => Fits(sweep)
  BY DEF TypeOK, Runs, RunInv, Loaded, NoticeInv
<1>b. sub # None /\ sub' # None /\ sub' \in Sub
  BY <1>a, NoneAssumption, TypeStep DEF NoneAssumption, TypeOK
<1>c. \A s \in Sub : s # None
  BY NoneAssumption DEF NoneAssumption
<1>1. CASE Tick
  BY <1>1, NoticeKept DEF Tick
<1>2. ASSUME NEW p \in Payments, Decide(p) PROVE NoticeInv'
  BY <1>2, NoticeKept DEF Decide
<1>3. ASSUME NEW c \in Checkouts, Subscribe(c) PROVE NoticeInv'
  BY <1>3, NoticeKept DEF Subscribe
<1>4. ASSUME NEW stop \in BOOLEAN, SetStop(stop) PROVE NoticeInv'
  <2>1. sub'.next = sub.next /\ sub'.notice = sub.notice /\ sub'.mandate = sub.mandate
    BY <1>4, <1>a DEF SetStop, Sub
  <2> QED
    BY <2>1, <1>4, NoticeKept DEF SetStop
<1>5. ASSUME NEW h \in Hooks, NEW p \in Payments, HookBegins(h, p) PROVE NoticeInv'
  BY <1>5, NoticeKept DEF HookBegins
<1>6. ASSUME NEW h \in Hooks, HookApplies(h) PROVE NoticeInv'
  <2> DEFINE p == hook[h]
  <2>1. p \in Payments /\ payment[p] = "pending" /\ UNCHANGED <<sweep, told>>
    BY <1>6, <1>a DEF HookApplies, HookInv
  <2>2. CASE Succeeded(p)
    <3>1. payment'[p] = "success" /\ sub' = Paid(sub, p)
      BY <2>1, <2>2, <1>6, <1>a DEF HookApplies
    <3>2. sub'.notice = None /\ sub'.next.by = p /\ sub'.next.why = "paid"
      BY <3>1 DEF Paid, Due
    <3>3. sub'.next # None
      <4>1. \A day \in Nat : Due(day, p, "paid") # None
        BY <2>1, DueType
      <4>2. sub'.ends \in Nat /\ sub'.next = Due(sub'.ends, p, "paid")
        BY <3>1, <1>b DEF Paid, Sub
      <4> QED
        BY <4>1, <4>2
    <3> QED
      BY <2>1, <3>1, <3>2, <3>3, <1>b, NoticeSettled
  <2>3. CASE ~Succeeded(p) /\ p \in Debits
    <3>1. payment'[p] = "failed" /\ sub' = Unpaid(sub, p)
      BY <2>1, <2>3, <1>6, <1>a DEF HookApplies
    <3>2. /\ sub'.notice = None
          /\ sub'.next = None \/ (sub'.next # None /\ sub'.next.by = p /\ sub'.next.why = "failed")
      BY <2>3, <3>1, <1>a, UnpaidNotice
    <3> QED
      BY <2>1, <3>1, <3>2, <1>b, NoticeSettled
  <2>4. CASE ~Succeeded(p) /\ p \in Checkouts
    BY <2>4, <1>6, NoticeKept DEF HookApplies, Unpaid
  <2> QED
    BY <2>1, <2>2, <2>3, <2>4, Constants
<1>7. ASSUME NEW h \in Hooks, HookFails(h) PROVE NoticeInv'
  BY <1>7, NoticeKept DEF HookFails
<1>8. CASE SweepReads
  <2>1. CASE sweep' = Listed(Off)
    BY <2>1, <1>8, NoticeRun DEF SweepReads, Listed, Off
  <2>2. CASE sweep' = [Off EXCEPT !.at = "sub", !.mine = sub]
    <3>1. sweep'.mine = sub /\ sweep'.dirty = {}
      BY <2>2 DEF Off
    <3>2. UNCHANGED <<sub, payment, told>>
      BY <1>8 DEF SweepReads
    <3> QED
      BY <3>1, <3>2 DEF NoticeInv, Fits, Loaded, Announced, Happened
  <2> QED
    BY <2>1, <2>2, <1>8 DEF SweepReads
<1>9. CASE SweepPauses
  <2> DEFINE t == Paused(sweep.mine)
  <2>1. /\ sweep' = Listed(Edited(sweep, t)) /\ sweep.at = "sub"
        /\ UNCHANGED <<sub, payment, told>>
    BY <1>9 DEF SweepPauses, Turn
  <2>2. sweep.dirty = {} /\ t \in Sub /\ t.next = None
        /\ t.notice = sweep.mine.notice /\ t.mandate = sweep.mine.mandate
    BY <2>1, <1>a, PausedType DEF RunInv, Paused, Sub
  <2> HIDE DEF t
  <2>3. Fits(Edited(sweep, t))
    BY <2>1, <2>2, <1>a, <1>c, EditedFits
  <2> QED
    BY <2>1, <2>2, <2>3, <1>a, EditedType, NoticeListed
<1>10. CASE SweepEnds
  <2> DEFINE t == [sweep.mine EXCEPT !.status = "cancelled"]
  <2>1. /\ sweep' = Listed(Edited(sweep, t)) /\ sweep.at = "sub"
        /\ UNCHANGED <<sub, payment, told>>
    BY <1>10 DEF SweepEnds, Turn
  <2>2. sweep.dirty = {} /\ t \in Sub /\ t.next = sweep.mine.next
        /\ t.notice = sweep.mine.notice /\ t.mandate = sweep.mine.mandate
    BY <2>1, <1>a DEF RunInv, Sub
  <2> HIDE DEF t
  <2>3. Fits(Edited(sweep, t))
    BY <2>1, <2>2, <1>a, <1>c, EditedFits
  <2> QED
    BY <2>1, <2>2, <2>3, <1>a, EditedType, NoticeListed
<1>11. CASE SweepPasses
  <2>1. UNCHANGED <<sub, payment, told>> /\ sweep.mine # None /\ sweep' \in {Off, Listed(sweep)}
    BY <1>11, <1>a, <1>c DEF SweepPasses, Turn
  <2>2. CASE sweep' = Off
    BY <2>1, <2>2, NoticeRun DEF Off
  <2> QED
    BY <2>1, <2>2, <1>a, NoticeListed
<1>12. CASE SweepNotifies
  <2> DEFINE s == sweep.mine
             t == [s EXCEPT !.notice = s.next]
  <2>1. /\ UNCHANGED <<sub, payment>> /\ sweep.at = "sub" /\ s \in Sub
        /\ s.notice # s.next /\ s.next # None
        /\ told' \in {told, [told EXCEPT ![s.mandate] = s.next]}
        /\ \/ sweep' = Listed(sweep)
           \/ sweep' = Listed(Edited(sweep, t)) /\ told' = [told EXCEPT ![s.mandate] = s.next]
    BY <1>12, <1>a DEF SweepNotifies, Turn, NoticeDue, Renewable
  <2>2. sweep.dirty = {} /\ s # None /\ Fits(sweep)
    BY <2>1, <1>a, <1>c DEF RunInv
  <2>3. Announced(sub)'
    <3>1. sub.notice = sub.next /\ sub.next # None => FALSE
      BY <2>1, <2>2 DEF Fits
    <3> QED
      BY <3>1, <2>1 DEF Announced
  <2>4. sub.mandate \in Checkouts /\ s.mandate \in Checkouts /\ told \in [Checkouts -> Moments]
    BY <2>1, <1>a DEF Sub, TypeOK
  <2>5. /\ t.notice = s.next /\ t.next = s.next /\ t.mandate = s.mandate
        /\ {f \in Columns : s[f] # t[f]} = {"notice"}
    BY <2>1 DEF Sub, Columns
  <2>6. /\ sweep'.at = "settle"
        /\ \/ sweep'.mine = s /\ sweep'.dirty = {}
           \/ sweep'.mine = t /\ sweep'.dirty = {"notice"} /\ told'[s.mandate] = s.next
    <3> HIDE DEF t
    <3>1. Listed(sweep).at = "settle" /\ Listed(sweep).mine = s /\ Listed(sweep).dirty = {}
      BY <2>2, <1>a DEF Listed, Runs
    <3>2. /\ Listed(Edited(sweep, t)).at = "settle" /\ Listed(Edited(sweep, t)).mine = t
          /\ Listed(Edited(sweep, t)).dirty = {f \in Columns : s[f] # t[f]}
      BY <2>2, <1>a DEF Listed, Edited, Runs
    <3> QED
      BY <3>1, <3>2, <2>1, <2>4, <2>5
  <2> HIDE DEF t
  <2>7. Fits(sweep)'
    BY <2>1, <2>2, <2>5, <2>6 DEF Fits, Happened
  <2>8. sweep'.at # "sub"
    BY <2>6
  <2> QED
    BY <2>1, <2>3, <2>7, <2>8 DEF NoticeInv, Happened
<1>13. ASSUME NEW d \in Debits, SweepCharges(d) PROVE NoticeInv'
  <2> DEFINE t == Asked(sweep.mine, d)
  <2>1. /\ sweep' = [Edited(sweep, t) EXCEPT !.at = "call", !.locks = TRUE, !.made = d]
        /\ sweep.at = "sub" /\ payment[d] = "none" /\ UNCHANGED <<sub, payment, told>>
    BY <1>13 DEF SweepCharges, Fresh, Turn, Asked
  <2>2. t \in Sub
    BY <2>1, <1>a, AskedType
  <2>3. t.notice = None /\ t.next = Due(now + Gap, d, "asked")
    BY <2>1, <1>a DEF Asked, Sub
  <2>4. t.next # None => ~Happened(t.next) /\ t.next.why = "asked" /\ t.next.by = d
    BY <2>1, <2>3 DEF Happened, Due
  <2>5. Edited(sweep, t) \in Runs
    BY <2>2, <1>a, EditedType
  <2> HIDE DEF t
  <2>6. /\ sweep' \in Runs /\ sweep'.at = "call" /\ sweep'.made = d /\ sweep'.mine = t
        /\ sweep'.dirty = sweep.dirty \union {f \in Columns : sweep.mine[f] # t[f]}
    BY <2>1, <2>5, <1>a DEF Edited, Runs
  <2>7. Fits(sweep')
    <3>1. sweep \in Runs /\ sweep.mine \in Sub /\ Fits(sweep)
      BY <2>1, <1>a, <1>c
    <3>2. t.notice = None /\ (t.next # None => ~Happened(t.next) /\ t.next.why = "asked" /\ t.next.by = sweep'.made)
      BY <2>3, <2>4, <2>6
    <3> QED
      BY <3>1, <3>2, <2>2, <2>6, FitsEvent
  <2> QED
    BY <2>1, <2>6, <2>7, NoticeRun
<1>14. CASE SweepCalls
  <2> DEFINE d == sweep.made
             t == Unpaid(sweep.mine, d)
  <2>1. /\ d \in Debits /\ sweep.at = "call" /\ payment[d] = "none"
        /\ UNCHANGED <<sub, payment, told>>
    BY <1>14, <1>a DEF SweepCalls, RunInv, Runs
  <2>2. CASE sweep' = Listed(sweep)
    BY <2>1, <2>2, <1>a, <1>c, NoticeListed
  <2>3. CASE sweep' = [Listed(Edited(sweep, t)) EXCEPT !.bad = {d}]
    <3>1. t \in Sub
      BY <2>1, <1>a, UnpaidType, Constants
    <3>2. /\ t.notice = None
          /\ t.next # None => ~Happened(t.next) /\ t.next.why = "failed" /\ t.next.by = d
      BY <2>1, <1>a, UnpaidNotice DEF Happened
    <3>3. Listed(Edited(sweep, t)) \in Runs
      BY <3>1, <1>a, EditedType, ListedType
    <3> HIDE DEF t, d
    <3>4. /\ sweep' \in Runs /\ sweep'.at = "settle" /\ sweep'.bad = {d} /\ sweep'.mine = t
          /\ sweep'.dirty = sweep.dirty \union {f \in Columns : sweep.mine[f] # t[f]}
      <4>1. {d} \subseteq Payments
        BY <2>1, Constants
      <4>2. /\ Listed(Edited(sweep, t)).at = "settle" /\ Listed(Edited(sweep, t)).mine = t
            /\ Listed(Edited(sweep, t)).dirty = sweep.dirty \union {f \in Columns : sweep.mine[f] # t[f]}
        BY <1>a DEF Edited, Listed, Runs
      <4> DEFINE run == Listed(Edited(sweep, t))
      <4>3. run \in Runs /\ sweep' = [run EXCEPT !.bad = {d}]
        BY <2>3, <3>3
      <4> HIDE DEF run
      <4>4. sweep' \in Runs
        BY <4>1, <4>3 DEF Runs
      <4>5. sweep'.at = run.at /\ sweep'.bad = {d} /\ sweep'.mine = run.mine /\ sweep'.dirty = run.dirty
        BY <4>3 DEF Runs
      <4> QED
        BY <4>2, <4>4, <4>5 DEF run
    <3>5. Fits(sweep')
      BY <2>1, <3>1, <3>2, <3>4, <1>a, <1>c, FitsEvent
    <3> QED
      BY <2>1, <3>4, <3>5, NoticeRun
  <2> QED
    BY <2>2, <2>3, <1>14 DEF SweepCalls
<1>15. ASSUME NEW p \in Payments, SweepSettles(p) PROVE NoticeInv'
  <2> DEFINE run == [sweep EXCEPT !.todo = @ \ {p}, !.held = @ \union {p}]
             copy == IF sweep.mine = None THEN [run EXCEPT !.mine = sub] ELSE run
  <2>1. sweep.at = "settle" /\ UNCHANGED <<sub, payment, told>>
    BY <1>15 DEF SweepSettles
  <2>2. /\ copy \in Runs /\ copy.mine \in Sub
        /\ copy.mine = IF Loaded THEN sweep.mine ELSE sub
        /\ copy.good = sweep.good /\ copy.bad = sweep.bad /\ copy.made = sweep.made
        /\ copy.dirty = IF Loaded THEN sweep.dirty ELSE {}
    BY <1>a DEF Runs, RunInv, Loaded
  <2>3. Fits(copy)
    <3>1. CASE Loaded
      BY <3>1, <2>2, <1>a DEF Fits, Loaded
    <3>2. CASE ~Loaded
      BY <3>2, <2>2 DEF Fits, NoticeInv
    <3> QED
      BY <3>1, <3>2
  <2>4. ASSUME sweep'.at = "settle", sweep'.mine = sweep.mine, sweep'.dirty = sweep.dirty,
               sweep.good \subseteq sweep'.good, sweep.bad \subseteq sweep'.bad,
               sweep'.made = sweep.made
        PROVE  NoticeInv'
    <3>1. sweep'.mine # None => Fits(sweep')
      BY <2>4, <1>a DEF Fits
    <3> QED
      BY <3>1, <2>1, <2>4, NoticeRun
  <2>5. ASSUME NEW t \in Sub, t.notice = None, payment[p] = "pending",
               \/ /\ sweep' = [Edited(copy, t) EXCEPT !.locks = TRUE, !.good = @ \union {p}]
                  /\ t.next = None \/ (t.next.why = "paid" /\ t.next.by = p)
               \/ /\ sweep' = [Edited(copy, t) EXCEPT !.locks = TRUE, !.bad = @ \union {p}]
                  /\ t.next = None \/ (t.next.why = "failed" /\ t.next.by = p)
        PROVE  NoticeInv'
    <3> HIDE DEF copy
    <3>1. Edited(copy, t) \in Runs
      BY <2>2, EditedType
    <3>2. /\ sweep' \in Runs /\ sweep'.at = "settle" /\ sweep'.mine = t
          /\ sweep'.dirty = copy.dirty \union {f \in Columns : copy.mine[f] # t[f]}
          /\ \/ p \in sweep'.good /\ (t.next = None \/ (t.next.why = "paid" /\ t.next.by = p))
             \/ p \in sweep'.bad /\ (t.next = None \/ (t.next.why = "failed" /\ t.next.by = p))
      <4>1. copy.at = "settle"
        BY <2>1, <1>a DEF copy, Runs
      <4>2. /\ Edited(copy, t).at = "settle" /\ Edited(copy, t).mine = t
            /\ Edited(copy, t).dirty = copy.dirty \union {f \in Columns : copy.mine[f] # t[f]}
        BY <2>2, <4>1 DEF Edited, Runs
      <4>3. CASE /\ sweep' = [Edited(copy, t) EXCEPT !.locks = TRUE, !.good = @ \union {p}]
                 /\ t.next = None \/ (t.next.why = "paid" /\ t.next.by = p)
        BY <3>1, <4>2, <4>3 DEF Runs
      <4>4. CASE /\ sweep' = [Edited(copy, t) EXCEPT !.locks = TRUE, !.bad = @ \union {p}]
                 /\ t.next = None \/ (t.next.why = "failed" /\ t.next.by = p)
        BY <3>1, <4>2, <4>4 DEF Runs
      <4> QED
        BY <2>5, <4>3, <4>4
    <3>3. t.next # None => ~Happened(t.next)
      BY <2>5 DEF Happened
    <3>4. Fits(sweep')
      BY <2>2, <2>3, <2>5, <3>2, <3>3, FitsEvent
    <3> QED
      BY <2>1, <3>2, <3>4, NoticeRun
  <2>6. CASE sweep' = run
    BY <2>1, <2>4, <2>6, <1>a DEF Runs
  <2>7. CASE sweep' = [run EXCEPT !.bad = @ \union {p}]
    BY <2>1, <2>4, <2>7, <1>a DEF Runs
  <2>8. CASE /\ payment[p] = "pending"
             /\ sweep' = [Edited(copy, Paid(copy.mine, p)) EXCEPT !.locks = TRUE, !.good = @ \union {p}]
    <3>1. Paid(copy.mine, p) \in Sub
      BY <2>2, <1>a, PaidType
    <3>2. /\ Paid(copy.mine, p).notice = None
          /\ Paid(copy.mine, p).next.why = "paid" /\ Paid(copy.mine, p).next.by = p
      BY DEF Paid, Due
    <3> HIDE DEF copy
    <3> QED
      BY <2>5, <2>8, <3>1, <3>2
  <2>9. CASE /\ payment[p] = "pending" /\ p \in Debits
             /\ sweep' = [Edited(copy, Unpaid(copy.mine, p)) EXCEPT !.locks = TRUE, !.bad = @ \union {p}]
    <3> HIDE DEF copy
    <3>1. Unpaid(copy.mine, p) \in Sub
      BY <2>2, <1>a, UnpaidType
    <3>2. LET t == Unpaid(copy.mine, p)
          IN  t.notice = None /\ (t.next = None \/ (t.next.why = "failed" /\ t.next.by = p))
      BY <2>2, <2>9, <1>a, UnpaidNotice
    <3> QED
      BY <2>5, <2>9, <3>1, <3>2
  <2> QED
    BY <2>6, <2>7, <2>8, <2>9, <1>15 DEF SweepSettles, Succeeded, GivenUp
<1>16. CASE SweepCommits
  <2> DEFINE s == sweep.mine
             new(f) == f \in sweep.dirty
  <2>1. /\ sub'.next = (IF new("next") THEN s["next"] ELSE sub["next"])
        /\ sub'.notice = (IF new("notice") THEN s["notice"] ELSE sub["notice"])
        /\ sub'.mandate = (IF new("mandate") THEN s["mandate"] ELSE sub["mandate"])
        /\ UNCHANGED told /\ sweep' = Off
    BY <1>16 DEF SweepCommits, Columns
  <2>2. /\ ~Loaded => ~new("next") /\ ~new("notice") /\ ~new("mandate")
        /\ Loaded => s \in Sub /\ Fits(sweep)
    BY <1>a DEF RunInv, Loaded, Runs
  <2>3. /\ sub["next"] = sub.next /\ sub["notice"] = sub.notice /\ sub["mandate"] = sub.mandate
        /\ Loaded => s["next"] = s.next /\ s["notice"] = s.notice /\ s["mandate"] = s.mandate
    OBVIOUS
  <2>4. \A m \in Moments : Happened(m) =>
        (m # None => /\ m.why = "paid" => payment'[m.by] = "success"
                     /\ m.why = "failed" => payment'[m.by] = "failed"
                     /\ m.why = "asked" => payment'[m.by] # "none")
    BY HappenedType DEF Happened, Onward
  <2>5. \A p \in Payments : /\ p \in sweep.good => payment'[p] = "success"
                            /\ p \in sweep.bad => payment'[p] = "failed"
                            /\ p = sweep.made => payment'[p] # "none"
    BY <1>16 DEF SweepCommits, RunInv
  <2>6. sub.next \in Moments /\ sub.notice \in Moments
        /\ (Loaded => s.next \in Moments /\ s.notice \in Moments)
    BY <2>2, <1>a DEF Sub
  <2>7. Happened(sub.next)'
    <3>1. CASE ~new("next")
      BY <3>1, <2>1, <2>3, <2>4, <2>6 DEF NoticeInv, Happened
    <3>2. CASE new("next")
      <4>1. Loaded /\ sub'.next = s.next
        BY <3>2, <2>1, <2>2, <2>3
      <4>2. s.next # None => s.next.by \in Payments /\ s.next.why \in {"paid", "asked", "failed"}
        BY <4>1, <2>6, HappenedType
      <4> QED
        BY <4>1, <4>2, <3>2, <2>2, <2>5 DEF Fits, Happened
    <3> QED
      BY <3>1, <3>2
  <2>8. Happened(sub.notice)'
    <3>1. CASE ~new("notice")
      BY <3>1, <2>1, <2>3, <2>4, <2>6 DEF NoticeInv, Happened
    <3>2. CASE new("notice")
      <4>1. Loaded /\ sub'.notice = s.notice /\ Happened(s.notice) /\ s.notice \in Moments
        BY <3>2, <2>1, <2>2, <2>3, <2>6 DEF Fits
      <4> QED
        BY <4>1, <2>4 DEF Happened
    <3> QED
      BY <3>1, <3>2
  <2>9. Announced(sub)'
    BY <2>1, <2>2, <2>3 DEF NoticeInv, Announced, Fits
  <2> QED
    BY <2>1, <2>7, <2>8, <2>9 DEF NoticeInv, Off, Loaded
<1>17. CASE SweepFails
  BY <1>17, NoticeRun DEF SweepFails, Off
<1>18. CASE UNCHANGED vars
  BY <1>18, NoticeKept DEF vars
<1> QED
  BY <1>1, <1>2, <1>3, <1>4, <1>5, <1>6, <1>7, <1>8, <1>9, <1>10, <1>11, <1>12, <1>13, <1>14,
     <1>15, <1>16, <1>17, <1>18, Zenon DEF Next, SweepStep

-----------------------------------------------------------------------------
(***************************************************************************)
(* The attempts of a month                                                 *)
(***************************************************************************)

LEMMA TriesInit == Init => TriesInv
<1> SUFFICES ASSUME Init PROVE TriesInv
  OBVIOUS
<1>1. /\ sub.attempts = 0 /\ tried = 0 /\ faults = 0
      /\ sweep.made = None /\ sweep.mine = None /\ sweep.at = "off"
      /\ sweep.good = {} /\ sweep.bad = {}
  BY DEF Init, Off
<1> QED
  BY <1>1, Constants DEF TriesInv, TriedInMonth, Loaded

\* Numbers, so that the steps below can be compared.
LEMMA Numbers ==
    ASSUME TypeOK
    PROVE  /\ tried \in Nat /\ faults \in Nat /\ sub.attempts \in Nat
           /\ MaxAttempts \in Nat /\ MaxAttempts # 0
           /\ \A s \in Sub : s.attempts \in Nat
BY Constants DEF TypeOK, Sub

\* Nothing happens to what is counted; checkouts may come and fail.
LEMMA TriesKept ==
    ASSUME TriesInv, UNCHANGED <<sweep, tried, faults>>,
           \A d \in Debits : payment'[d] = payment[d],
           sub'.next = sub.next, sub'.notice = sub.notice, sub'.attempts = sub.attempts
    PROVE  TriesInv'
<1>1. Waiting' <=> Waiting
  BY DEF Waiting
<1>2. Loaded => Counts(sweep)'
  BY DEF TriesInv, Counts
<1> QED
  BY <1>1, <1>2 DEF TriesInv, TriedInMonth, Loaded

\* A request settles a payment: the run has written nothing, or the row would be locked.
LEMMA TriesSettled ==
    ASSUME TypeOK, RunInv, TriesInv, UNCHANGED <<sweep, faults>>,
           sweep.dirty = {}, sweep.made = None, sub'.notice = None,
           \/ sub'.attempts = 0 /\ tried' = 0
           \/ /\ sub'.attempts = sub.attempts /\ tried' = tried
              /\ sub.attempts = MaxAttempts => sub'.next = None
    PROVE  TriesInv'
<1> USE Numbers
<1>1. sweep.at # "call"
  BY DEF RunInv
<1>2. /\ TriedInMonth' /\ sub'.attempts <= MaxAttempts /\ tried' <= sub'.attempts + faults'
      /\ sub'.attempts = MaxAttempts => sub'.next = None
  BY DEF TriesInv, TriedInMonth
<1>3. Loaded => Counts(sweep)'
  BY DEF TriesInv, Counts
<1>4. sweep.at = "sub" => tried' <= sweep.mine.attempts + faults
  <2>1. sweep.at = "sub" => sweep.mine.attempts \in Nat
    BY DEF RunInv, Loaded, TypeOK
  <2> QED
    BY <2>1 DEF TriesInv
<1> QED
  BY <1>1, <1>2, <1>3, <1>4 DEF TriesInv, Loaded

\* The run goes on, and what it may still write fits what the row counts.
LEMMA TriesRun ==
    ASSUME TriesInv, UNCHANGED <<sub, payment, tried, faults>>,
           sweep'.at = "settle", sweep'.made = sweep.made,
           sweep'.mine = None => sweep'.made = None /\ sweep'.good = {}
                                 /\ sweep'.bad \intersect Debits = {},
           sweep'.mine # None => Counts(sweep'),
           sweep'.made # None /\ sweep'.good = {} => tried <= sweep'.mine.attempts + faults
    PROVE  TriesInv'
<1>1. Loaded' => Counts(sweep)'
  BY DEF Counts, Loaded
<1> QED
  BY <1>1 DEF TriesInv, TriedInMonth, Waiting, Loaded

LEMMA TriesOff ==
    ASSUME TriesInv, UNCHANGED <<sub, payment, tried, faults>>,
           sweep.made = None, sweep' = Off
    PROVE  TriesInv'
BY DEF TriesInv, TriedInMonth, Waiting, Loaded, Off

\* Which of the columns that matter a change makes dirty.
LEMMA DirtyColumns ==
    ASSUME NEW s \in Sub, NEW t \in Sub, NEW D, NEW E,
           E = D \union {f \in Columns : s[f] # t[f]}
    PROVE  /\ "next" \in E <=> "next" \in D \/ s.next # t.next
           /\ "notice" \in E <=> "notice" \in D \/ s.notice # t.notice
           /\ "attempts" \in E <=> "attempts" \in D \/ s.attempts # t.attempts
<1>1. /\ s["next"] = s.next /\ t["next"] = t.next
      /\ s["notice"] = s.notice /\ t["notice"] = t.notice
      /\ s["attempts"] = s.attempts /\ t["attempts"] = t.attempts
  OBVIOUS
<1> QED
  BY <1>1 DEF Columns

\* Before it settles anything, a run that turns to the pending payments has changed its copy
\* but not the attempts, or not at all.
LEMMA TriesListed ==
    ASSUME TypeOK, RunInv, TriesInv, sweep.at = "sub",
           UNCHANGED <<sub, payment, tried, faults>>,
           NEW t \in Sub, t.attempts = sweep.mine.attempts, t.next \in {None, sweep.mine.next},
           \/ t.notice = sweep.mine.notice
           \/ sub.attempts = MaxAttempts => sub.next = None,
           sweep' = Listed(sweep) \/ sweep' = Listed(Edited(sweep, t))
    PROVE  TriesInv'
<1>1. /\ sweep \in Runs /\ sweep.mine \in Sub /\ sweep.mine # None /\ t # None
      /\ sweep.dirty = {} /\ sweep.good = {} /\ sweep.bad = {} /\ sweep.made = None
      /\ Counts(sweep)
  BY NoneAssumption DEF NoneAssumption, TypeOK, Runs, RunInv, TriesInv, Loaded
<1>2. /\ sweep'.at = "settle" /\ sweep'.good = {} /\ sweep'.bad = {} /\ sweep'.made = None
      /\ \/ sweep'.mine = sweep.mine /\ sweep'.dirty = {}
         \/ sweep'.mine = t /\ sweep'.dirty = {f \in Columns : sweep.mine[f] # t[f]}
  BY <1>1 DEF Listed, Edited, Runs
<1>3. CASE sweep'.mine = sweep.mine /\ sweep'.dirty = {}
  <2>1. Counts(sweep')
    BY <1>1, <1>2, <1>3 DEF Counts
  <2> QED
    BY <2>1, <1>1, <1>2, <1>3, TriesRun
<1>4. CASE sweep'.mine = t /\ sweep'.dirty = {f \in Columns : sweep.mine[f] # t[f]}
  <2>1. /\ "next" \in sweep'.dirty <=> sweep.mine.next # t.next
        /\ "notice" \in sweep'.dirty <=> sweep.mine.notice # t.notice
        /\ "attempts" \notin sweep'.dirty
    <3>1. sweep'.dirty = {} \union {f \in Columns : sweep.mine[f] # t[f]}
      BY <1>4
    <3> QED
      BY <3>1, <1>1, DirtyColumns
  <2>2. Counts(sweep')
    BY <2>1, <1>1, <1>2, <1>4 DEF Counts
  <2> QED
    BY <2>2, <1>1, <1>2, <1>4, TriesRun
<1> QED
  BY <1>2, <1>3, <1>4

LEMMA TriesStep ==
    TypeOK /\ RunInv /\ HookInv /\ NoticeInv /\ TriesInv /\ [Next]_vars => TriesInv'
<1> SUFFICES ASSUME TypeOK, RunInv, HookInv, NoticeInv, TriesInv, [Next]_vars PROVE TriesInv'
  OBVIOUS
<1>a. /\ now \in Nat /\ sub \in Sub /\ sweep \in Runs
      /\ sweep.at \in {"sub", "call"} => sweep.mine \in Sub /\ sweep.mine # None
      /\ hook \in [Hooks -> Payments \union {None}]
      /\ payment \in [Payments -> {"none", "pending", "success", "failed"}]
      /\ sweep.mine # None => Counts(sweep) /\ Fits(sweep)
  BY DEF TypeOK, Runs, RunInv, Loaded, NoticeInv, TriesInv
<1>b. \A d \in Debits : d \in Payments /\ d \notin Checkouts /\ d # None
  BY Constants
<1>c. \A s \in Sub : s # None
  BY NoneAssumption DEF NoneAssumption
<1>1. CASE Tick
  BY <1>1, TriesKept DEF Tick
<1>2. ASSUME NEW p \in Payments, Decide(p) PROVE TriesInv'
  BY <1>2, TriesKept DEF Decide
<1>3. ASSUME NEW c \in Checkouts, Subscribe(c) PROVE TriesInv'
  <2>1. \A d \in Debits : payment'[d] = payment[d]
    BY <1>3, <1>a, <1>b DEF Subscribe
  <2> QED
    BY <2>1, <1>3, TriesKept DEF Subscribe
<1>4. ASSUME NEW stop \in BOOLEAN, SetStop(stop) PROVE TriesInv'
  <2>1. sub'.next = sub.next /\ sub'.notice = sub.notice /\ sub'.attempts = sub.attempts
    BY <1>4, <1>a DEF SetStop, Sub
  <2> QED
    BY <2>1, <1>4, TriesKept DEF SetStop
<1>5. ASSUME NEW h \in Hooks, NEW p \in Payments, HookBegins(h, p) PROVE TriesInv'
  BY <1>5, TriesKept DEF HookBegins
<1>6. ASSUME NEW h \in Hooks, HookApplies(h) PROVE TriesInv'
  <2> DEFINE p == hook[h]
  <2>1. p \in Payments /\ UNCHANGED <<sweep, faults>>
    BY <1>6, <1>a DEF HookApplies
  <2>2. NeedsSub(p) => sweep.dirty = {} /\ sweep.made = None
    BY <1>6 DEF HookApplies, RunInv
  <2>3. CASE Succeeded(p)
    <3>1. sub'.attempts = 0 /\ tried' = 0 /\ sub'.notice = None
      BY <2>3, <1>6 DEF HookApplies, Paid
    <3> QED
      BY <3>1, <2>1, <2>2, <2>3, TriesSettled DEF NeedsSub
  <2>4. CASE ~Succeeded(p) /\ p \in Debits
    <3>1. sub' = Unpaid(sub, p) /\ tried' = tried
      BY <2>4, <1>6 DEF HookApplies
    <3>2. /\ Unpaid(sub, p).notice = None /\ Unpaid(sub, p).attempts = sub.attempts
          /\ Unpaid(sub, p).next = None \/ sub.attempts < MaxAttempts
      BY <2>4, <1>a, UnpaidNotice
    <3>3. sub.attempts = MaxAttempts => sub'.next = None
      BY <3>1, <3>2, Numbers
    <3> QED
      BY <3>1, <3>2, <3>3, <2>1, <2>2, <2>4, TriesSettled DEF NeedsSub
  <2>5. CASE ~Succeeded(p) /\ p \in Checkouts
    <3>1. \A d \in Debits : payment'[d] = payment[d]
      BY <2>5, <1>6, <1>a, <1>b DEF HookApplies
    <3> QED
      BY <3>1, <2>5, <1>6, TriesKept DEF HookApplies, Unpaid
  <2> QED
    BY <2>1, <2>3, <2>4, <2>5, Constants
<1>7. ASSUME NEW h \in Hooks, HookFails(h) PROVE TriesInv'
  BY <1>7, TriesKept DEF HookFails
<1>8. CASE SweepReads
  <2>1. sweep = Off /\ UNCHANGED <<sub, payment, tried, faults>>
    BY <1>8 DEF SweepReads, RunInv
  <2>2. CASE sweep' = Listed(Off)
    BY <2>1, <2>2, TriesRun DEF Listed, Off
  <2>3. CASE sweep' = [Off EXCEPT !.at = "sub", !.mine = sub]
    <3>1. /\ sweep'.at = "sub" /\ sweep'.mine = sub /\ sweep'.dirty = {} /\ sweep'.made = None
          /\ sweep'.good = {} /\ sweep'.bad = {} /\ sweep.made = None
      BY <2>1, <2>3 DEF Off
    <3>2. Counts(sweep)'
      BY <2>1, <3>1 DEF Counts, TriesInv
    <3>3. Waiting' <=> Waiting
      BY <2>1 DEF Waiting
    <3> QED
      BY <2>1, <3>1, <3>2, <3>3, <1>a, <1>c DEF TriesInv, TriedInMonth, Loaded
  <2> QED
    BY <2>2, <2>3, <1>8 DEF SweepReads
<1>9. CASE SweepPauses
  <2>1. /\ Paused(sweep.mine) \in Sub /\ Paused(sweep.mine).next = None
        /\ Paused(sweep.mine).notice = sweep.mine.notice
        /\ Paused(sweep.mine).attempts = sweep.mine.attempts
    BY <1>9, <1>a, PausedType DEF SweepPauses, Turn, Paused, Sub
  <2> QED
    BY <2>1, <1>9, TriesListed DEF SweepPauses, Turn
<1>10. CASE SweepEnds
  <2> DEFINE t == [sweep.mine EXCEPT !.status = "cancelled"]
  <2>1. /\ t \in Sub /\ t.next = sweep.mine.next /\ t.notice = sweep.mine.notice
        /\ t.attempts = sweep.mine.attempts
    BY <1>10, <1>a DEF SweepEnds, Turn, Sub
  <2>2. /\ sweep' = Listed(Edited(sweep, t)) /\ sweep.at = "sub"
        /\ UNCHANGED <<sub, payment, tried, faults>>
    BY <1>10 DEF SweepEnds, Turn
  <2> HIDE DEF t
  <2> QED
    BY <2>1, <2>2, TriesListed
<1>11. CASE SweepPasses
  <2>1. UNCHANGED <<sub, payment, tried, faults>> /\ sweep.at = "sub" /\ sweep.made = None
    BY <1>11 DEF SweepPasses, Turn, RunInv
  <2>2. CASE sweep' = Off
    BY <2>1, <2>2, TriesOff
  <2>3. CASE sweep' = Listed(sweep)
    BY <2>1, <2>3, <1>a, TriesListed
  <2> QED
    BY <2>2, <2>3, <1>11 DEF SweepPasses
<1>12. CASE SweepNotifies
  <2> DEFINE s == sweep.mine
             t == [s EXCEPT !.notice = s.next]
  <2>1. /\ UNCHANGED <<sub, payment, tried, faults>> /\ sweep.at = "sub" /\ s \in Sub
        /\ s.notice # s.next /\ s.next # None /\ ~Waiting
        /\ sweep' = Listed(sweep) \/ sweep' = Listed(Edited(sweep, t))
    BY <1>12, <1>a DEF SweepNotifies, Turn, NoticeDue, Renewable
  <2>2. t \in Sub /\ t.next = s.next /\ t.attempts = s.attempts
    BY <2>1 DEF Sub
  <2>3. sub.attempts = MaxAttempts => sub.next = None
    <3>1. /\ sub.attempts \in {0, s.attempts}
          /\ s.attempts = MaxAttempts => s.next = None \/ s.notice = None
          /\ sub.attempts = MaxAttempts => sub.next = None \/ (Waiting /\ sub.notice = None)
      BY <2>1, <1>a DEF TriesInv, Counts, RunInv
    <3> QED
      BY <3>1, <2>1, Numbers
  <2> HIDE DEF t
  <2> QED
    BY <2>1, <2>2, <2>3, TriesListed
<1>13. ASSUME NEW d \in Debits, SweepCharges(d) PROVE TriesInv'
  <2> DEFINE s == sweep.mine
             t == Asked(s, d)
  <2>1. /\ sweep' = [Edited(sweep, t) EXCEPT !.at = "call", !.locks = TRUE, !.made = d]
        /\ sweep.at = "sub" /\ payment[d] = "none" /\ UNCHANGED <<sub, payment, tried, faults>>
        /\ s.notice = s.next /\ s.next # None /\ ~Waiting
    BY <1>13 DEF SweepCharges, Fresh, Turn, Asked, ChargeDue, Renewable
  <2>2. s \in Sub /\ t \in Sub /\ t # None
    BY <2>1, <1>a, <1>c, AskedType
  <2>3. t.notice = None /\ t.next = Due(now + Gap, d, "asked") /\ t.attempts = s.attempts + 1
    BY <2>2 DEF Asked, Sub
  <2>4. /\ s.attempts <= MaxAttempts /\ tried <= s.attempts + faults /\ s.attempts # MaxAttempts
        /\ sweep.made = None /\ sweep.good = {} /\ sweep.bad = {} /\ tried <= sub.attempts + faults
    BY <2>1, <1>a DEF TriesInv, Counts, RunInv
  <2>5. t.next # s.next
    <3>1. Happened(s.next)
      BY <2>1, <1>a DEF Fits, RunInv
    <3>2. t.next # None
      BY <2>3, <1>a, DueType, Constants
    <3> QED
      BY <3>1, <3>2, <2>1, <2>3 DEF Happened, Due
  <2>6. Edited(sweep, t) \in Runs
    BY <2>2, <1>a, EditedType
  <2> HIDE DEF t
  <2>7. /\ sweep'.at = "call" /\ sweep'.made = d /\ sweep'.mine = t
        /\ sweep'.good = {} /\ sweep'.bad = {}
        /\ sweep'.dirty = sweep.dirty \union {f \in Columns : s[f] # t[f]}
    BY <2>1, <2>4, <2>6, <1>a DEF Edited, Runs
  <2>8. {"next", "notice", "attempts"} \subseteq sweep'.dirty
    <3>1. s.attempts # t.attempts
      BY <2>2, <2>3, Numbers
    <3> QED
      BY <3>1, <2>1, <2>2, <2>3, <2>5, <2>7, DirtyColumns
  <2>9. t.attempts <= MaxAttempts /\ tried + 1 <= t.attempts + faults /\ tried <= sub.attempts + 1 + faults
    BY <2>2, <2>3, <2>4, Numbers
  <2>10. Counts(sweep)'
    BY <2>1, <2>3, <2>7, <2>8, <2>9, <1>b DEF Counts
  <2>11. Waiting' <=> Waiting
    BY <2>1 DEF Waiting
  <2> QED
    BY <2>1, <2>2, <2>4, <2>7, <2>9, <2>10, <2>11 DEF TriesInv, TriedInMonth, Loaded
<1>14. CASE SweepCalls
  <2> DEFINE d == sweep.made
             s == sweep.mine
             t == Unpaid(s, d)
  <2>1. /\ d \in Debits /\ d # None /\ sweep.at = "call" /\ s \in Sub /\ s # None
        /\ sweep.good = {} /\ sweep.bad = {}
        /\ UNCHANGED <<sub, payment, faults>> /\ tried' = tried + 1
        /\ \/ sweep' = Listed(sweep)
           \/ sweep' = [Listed(Edited(sweep, t)) EXCEPT !.bad = {d}]
    BY <1>14, <1>a DEF SweepCalls, RunInv, Runs
  <2>2. /\ t \in Sub /\ t # None /\ t.notice = None /\ t.attempts = s.attempts
        /\ t.next = None \/ s.attempts < MaxAttempts
    BY <2>1, <1>a, <1>b, <1>c, UnpaidType, UnpaidNotice
  <2> HIDE DEF t
  <2>3. /\ sweep'.at = "settle" /\ sweep'.made = d /\ sweep'.good = {} /\ sweep'.mine # None
        /\ sweep'.mine.attempts = s.attempts
        /\ sweep'.mine.notice = None
        /\ sweep.dirty \subseteq sweep'.dirty
        /\ sweep'.bad = {} \/ sweep'.mine.next = None \/ s.attempts < MaxAttempts
    <3>1. s.notice = None
      BY <2>1, <1>a DEF Counts
    <3>2. CASE sweep' = Listed(sweep)
      <4>1. /\ Listed(sweep).at = "settle" /\ Listed(sweep).made = d /\ Listed(sweep).good = {}
            /\ Listed(sweep).mine = s /\ Listed(sweep).dirty = sweep.dirty /\ Listed(sweep).bad = {}
        BY <2>1, <1>a DEF Listed, Runs
      <4> QED
        BY <2>1, <3>1, <3>2, <4>1
    <3>3. CASE sweep' = [Listed(Edited(sweep, t)) EXCEPT !.bad = {d}]
      <4>1. /\ sweep'.at = "settle" /\ sweep'.made = d /\ sweep'.good = {} /\ sweep'.mine = t
            /\ sweep.dirty \subseteq sweep'.dirty
        BY <2>1, <3>3, <1>a DEF Listed, Edited, Runs
      <4> QED
        BY <2>2, <4>1
    <3> QED
      BY <2>1, <3>2, <3>3
  <2>4. /\ tried' <= s.attempts + faults /\ tried' <= sub.attempts + 1 + faults
        /\ s.attempts <= MaxAttempts /\ tried' <= MaxAttempts + faults /\ ~Waiting
        /\ {"next", "notice", "attempts"} \subseteq sweep'.dirty
    <3>1. {"next", "notice", "attempts"} \subseteq sweep.dirty /\ s.attempts <= MaxAttempts
      BY <2>1, <1>a DEF Counts
    <3>2. tried + 1 <= s.attempts + faults /\ tried <= sub.attempts + faults /\ ~Waiting
      BY <2>1 DEF TriesInv
    <3>3. s.attempts \in Nat
      BY <2>1, Numbers
    <3> QED
      BY <2>1, <2>3, <3>1, <3>2, <3>3, Numbers
  <2>5. Counts(sweep)'
    <3>1. s.attempts < MaxAttempts => s.attempts # MaxAttempts
      BY <2>1, Numbers
    <3> QED
      BY <2>1, <2>3, <2>4, <3>1 DEF Counts
  <2>6. Waiting' <=> Waiting
    BY <2>1 DEF Waiting
  <2> QED
    BY <2>1, <2>3, <2>4, <2>5, <2>6 DEF TriesInv, TriedInMonth, Loaded
<1>15. ASSUME NEW p \in Payments, SweepSettles(p) PROVE TriesInv'
  <2> DEFINE run == [sweep EXCEPT !.todo = @ \ {p}, !.held = @ \union {p}]
             copy == IF sweep.mine = None THEN [run EXCEPT !.mine = sub] ELSE run
             s == copy.mine
  <2>1. /\ sweep.at = "settle" /\ p \in sweep.todo /\ p # sweep.made
        /\ UNCHANGED <<sub, payment, tried, faults>>
    BY <1>15 DEF SweepSettles, RunInv
  <2>2. /\ copy \in Runs /\ s \in Sub /\ copy.at = "settle"
        /\ s = (IF Loaded THEN sweep.mine ELSE sub)
        /\ copy.good = sweep.good /\ copy.bad = sweep.bad /\ copy.made = sweep.made
        /\ copy.dirty = IF Loaded THEN sweep.dirty ELSE {}
    BY <2>1, <1>a DEF Runs, RunInv, Loaded
  <2>3. Counts(copy)
    <3>1. CASE Loaded
      BY <3>1, <2>2, <1>a DEF Counts, Loaded
    <3>2. CASE ~Loaded
      <4>1. /\ s = sub /\ copy.dirty = {} /\ copy.good = {} /\ copy.made = None
            /\ copy.bad \intersect Debits = {} /\ sub.attempts <= MaxAttempts
        BY <3>2, <2>2 DEF TriesInv
      <4> HIDE DEF copy
      <4> QED
        BY <4>1 DEF Counts
    <3> QED
      BY <3>1, <3>2
  <2>4. ASSUME sweep'.at = "settle", sweep'.mine = sweep.mine, sweep'.dirty = sweep.dirty,
               sweep'.good = sweep.good, sweep'.made = sweep.made,
               sweep'.bad = sweep.bad \/ (sweep'.bad = sweep.bad \union {p} /\ p \in Checkouts)
        PROVE  TriesInv'
    <3>1. sweep'.bad \intersect Debits = sweep.bad \intersect Debits
          /\ (sweep.made \in sweep'.bad <=> sweep.made \in sweep.bad)
      BY <2>1, <2>4, <1>b
    <3>2. sweep'.mine # None => Counts(sweep')
      BY <2>4, <3>1, <1>a DEF Counts
    <3> QED
      BY <2>1, <2>4, <3>1, <3>2, TriesRun DEF TriesInv, Loaded
  <2>5. ASSUME NEW t \in Sub, t.notice = None, payment[p] = "pending",
               \/ /\ sweep' = [Edited(copy, t) EXCEPT !.locks = TRUE, !.good = @ \union {p}]
                  /\ t.attempts = 0
               \/ /\ sweep' = [Edited(copy, t) EXCEPT !.locks = TRUE, !.bad = @ \union {p}]
                  /\ p \in Debits /\ t.attempts = s.attempts
                  /\ t.next = None \/ s.attempts < MaxAttempts
        PROVE  TriesInv'
    <3> HIDE DEF copy
    <3>1. Edited(copy, t) \in Runs
      BY <2>2, EditedType
    <3>2. /\ Edited(copy, t).at = "settle" /\ Edited(copy, t).mine = t
          /\ Edited(copy, t).made = copy.made
          /\ Edited(copy, t).good = copy.good /\ Edited(copy, t).bad = copy.bad
          /\ Edited(copy, t).dirty = copy.dirty \union {f \in Columns : s[f] # t[f]}
      BY <2>2 DEF Edited, Runs
    <3>3. /\ sweep'.at = "settle" /\ sweep'.mine = t /\ sweep'.made = sweep.made
          /\ sweep'.dirty = copy.dirty \union {f \in Columns : s[f] # t[f]}
          /\ \/ /\ sweep'.good = sweep.good \union {p} /\ sweep'.bad = sweep.bad /\ t.attempts = 0
             \/ /\ sweep'.good = sweep.good /\ sweep'.bad = sweep.bad \union {p}
                /\ p \in Debits /\ t.attempts = s.attempts
                /\ t.next = None \/ s.attempts < MaxAttempts
      <4>1. CASE /\ sweep' = [Edited(copy, t) EXCEPT !.locks = TRUE, !.good = @ \union {p}]
                 /\ t.attempts = 0
        BY <4>1, <3>1, <3>2, <2>2 DEF Runs
      <4>2. CASE /\ sweep' = [Edited(copy, t) EXCEPT !.locks = TRUE, !.bad = @ \union {p}]
                 /\ p \in Debits /\ t.attempts = s.attempts
                 /\ t.next = None \/ s.attempts < MaxAttempts
        BY <4>2, <3>1, <3>2, <2>2 DEF Runs
      <4> QED
        BY <4>1, <4>2, <2>5
    <3>4. /\ "next" \in sweep'.dirty <=> "next" \in copy.dirty \/ s.next # t.next
          /\ "notice" \in sweep'.dirty <=> "notice" \in copy.dirty \/ s.notice # t.notice
          /\ "attempts" \in sweep'.dirty <=> "attempts" \in copy.dirty \/ s.attempts # t.attempts
      BY <3>3, <2>2, DirtyColumns
    <3>5. t # None /\ s.attempts \in Nat /\ t.attempts \in Nat
          /\ sub.attempts \in Nat /\ MaxAttempts \in Nat /\ MaxAttempts # 0
      BY <2>2, <1>c, Numbers
    <3>6. CASE sweep'.good = sweep.good \union {p} /\ sweep'.bad = sweep.bad /\ t.attempts = 0
      <4>1. Counts(sweep')
        BY <2>2, <2>3, <2>5, <3>3, <3>4, <3>5, <3>6 DEF Counts
      <4> QED
        BY <4>1, <2>1, <3>3, <3>5, <3>6, TriesRun
    <3>7. CASE /\ sweep'.good = sweep.good /\ sweep'.bad = sweep.bad \union {p}
               /\ p \in Debits /\ t.attempts = s.attempts
               /\ t.next = None \/ s.attempts < MaxAttempts
      <4>1. sweep.made = None
        BY <2>5, <3>7 DEF TriesInv, Waiting
      <4>2. Counts(sweep')
        BY <2>2, <2>3, <2>5, <3>3, <3>4, <3>5, <3>7, <4>1 DEF Counts
      <4> QED
        BY <4>1, <4>2, <2>1, <3>3, <3>5, TriesRun
    <3> QED
      BY <3>3, <3>6, <3>7
  <2>6. CASE sweep' = run
    BY <2>1, <2>4, <2>6, <1>a DEF Runs
  <2>7. CASE sweep' = [run EXCEPT !.bad = @ \union {p}] /\ p \in Checkouts
    BY <2>1, <2>4, <2>7, <1>a DEF Runs
  <2>8. CASE /\ payment[p] = "pending"
             /\ sweep' = [Edited(copy, Paid(s, p)) EXCEPT !.locks = TRUE, !.good = @ \union {p}]
    <3>1. Paid(s, p) \in Sub /\ Paid(s, p).notice = None /\ Paid(s, p).attempts = 0
      <4>1. Paid(s, p) \in Sub
        BY <2>2, <1>a, PaidType
      <4> QED
        BY <4>1 DEF Paid
    <3> HIDE DEF copy
    <3> QED
      BY <2>5, <2>8, <3>1
  <2>9. CASE /\ payment[p] = "pending" /\ p \in Debits
             /\ sweep' = [Edited(copy, Unpaid(s, p)) EXCEPT !.locks = TRUE, !.bad = @ \union {p}]
    <3> HIDE DEF copy
    <3>1. LET t == Unpaid(s, p)
          IN  /\ t \in Sub /\ t.notice = None /\ t.attempts = s.attempts
              /\ t.next = None \/ s.attempts < MaxAttempts
      BY <2>2, <2>9, <1>a, UnpaidType, UnpaidNotice
    <3> QED
      BY <2>5, <2>9, <3>1
  <2> QED
    BY <2>6, <2>7, <2>8, <2>9, <1>15 DEF SweepSettles, Succeeded, GivenUp
<1>16. CASE SweepCommits
  <2> DEFINE s == sweep.mine
             new(f) == f \in sweep.dirty
  <2>1. /\ sub'.next = (IF new("next") THEN s["next"] ELSE sub["next"])
        /\ sub'.notice = (IF new("notice") THEN s["notice"] ELSE sub["notice"])
        /\ sub'.attempts = (IF new("attempts") THEN s["attempts"] ELSE sub["attempts"])
        /\ tried' = (IF sweep.good # {} THEN 0 ELSE tried)
        /\ sweep' = Off /\ sweep.at = "settle" /\ UNCHANGED faults
    BY <1>16 DEF SweepCommits, Columns
  <2>2. /\ sub["next"] = sub.next /\ sub["notice"] = sub.notice /\ sub["attempts"] = sub.attempts
        /\ Loaded => s["next"] = s.next /\ s["notice"] = s.notice /\ s["attempts"] = s.attempts
    OBVIOUS
  <2>3. /\ ~Loaded => /\ ~new("next") /\ ~new("notice") /\ ~new("attempts")
                      /\ sweep.good = {} /\ sweep.made = None /\ sweep.bad \intersect Debits = {}
        /\ Loaded => s \in Sub /\ Counts(sweep)
    BY <1>a DEF RunInv, TriesInv, Loaded, Runs
  <2>4. sub'.attempts <= MaxAttempts
    BY <2>1, <2>2, <2>3 DEF TriesInv, Counts
  <2>5. tried' <= sub'.attempts + faults'
    <3>1. CASE sweep.good # {}
      <4>1. sub'.attempts \in Nat /\ faults' \in Nat
        BY <2>1, <2>2, <2>3, Numbers
      <4> QED
        BY <3>1, <4>1, <2>1
    <3>2. CASE sweep.good = {} /\ sweep.made = None
      BY <3>2, <2>1, <2>2, <2>3 DEF TriesInv, Counts
    <3>3. CASE sweep.good = {} /\ sweep.made # None
      BY <3>3, <2>1, <2>2, <2>3 DEF TriesInv, Counts
    <3> QED
      BY <3>1, <3>2, <3>3
  <2>6. ASSUME sub'.attempts = MaxAttempts, sub'.next # None
        PROVE  Waiting' /\ sub'.notice = None
    <3>1. sweep.good = {}
      BY <2>1, <2>2, <2>3, <2>6, Numbers DEF Counts
    <3>2. \A d \in Debits : payment'[d] = IF d \in sweep.bad THEN "failed"
                                         ELSE IF d = sweep.made THEN "pending" ELSE payment[d]
      BY <3>1, <1>16, <1>b DEF SweepCommits
    <3>3. CASE sweep.made # None
      <4>1. /\ Loaded /\ s.attempts = MaxAttempts /\ sub'.next = s.next
            /\ sub'.notice = None /\ sweep.made \notin sweep.bad
        BY <2>1, <2>2, <2>3, <2>6, <3>3 DEF Counts
      <4>2. sweep.made \in Debits
        BY <3>3, <1>a DEF Runs
      <4> QED
        BY <3>2, <4>1, <4>2 DEF Waiting
    <3>4. CASE sweep.made = None
      <4>1. ~new("attempts") /\ sub.attempts = MaxAttempts
        BY <2>1, <2>2, <2>3, <2>6, <3>1, <3>4 DEF Counts
      <4>2. Loaded => s.attempts = MaxAttempts
        BY <2>3, <4>1, Numbers DEF Counts
      <4>3. ~new("next") /\ sub'.next = sub.next
        <5>1. ~(new("next") /\ s.next # None)
          BY <2>3, <3>4, <4>2, Numbers DEF Counts
        <5> QED
          BY <5>1, <2>1, <2>2, <2>3, <2>6
      <4>4. Waiting /\ sub.notice = None
        BY <4>1, <4>3, <2>6 DEF TriesInv
      <4>5. sweep.bad \intersect Debits = {}
        BY <2>3, <2>6, <3>4, <4>1, <4>2, <4>3 DEF Counts
      <4>6. Waiting'
        <5>1. PICK d \in Debits : payment[d] = "pending"
          BY <4>4 DEF Waiting
        <5>2. d # None /\ d \notin sweep.bad
          BY <4>5, <1>b, Constants
        <5>3. payment'[d] = "pending"
          BY <3>2, <3>4, <5>1, <5>2
        <5> QED
          BY <5>3 DEF Waiting
      <4>7. sub'.notice = None
        BY <2>1, <2>2, <2>3, <2>6, <4>1, <4>3, <4>4 DEF Counts
      <4> QED
        BY <4>6, <4>7
    <3> QED
      BY <3>3, <3>4
  <2>7. /\ sweep'.at = "off" /\ sweep'.made = None /\ sweep'.mine = None
        /\ sweep'.good = {} /\ sweep'.bad = {}
    BY <2>1 DEF Off
  <2>8. TriedInMonth'
    BY <2>1, Numbers DEF TriesInv, TriedInMonth
  <2> QED
    BY <2>4, <2>5, <2>6, <2>7, <2>8 DEF TriesInv, Loaded
<1>17. CASE SweepFails
  <2>1. /\ sweep.made # None /\ sweep' = Off /\ faults' = faults + 1
        /\ UNCHANGED <<sub, payment, tried>>
    BY <1>17 DEF SweepFails
  <2>2. /\ sweep'.at = "off" /\ sweep'.made = None /\ sweep'.mine = None
        /\ sweep'.good = {} /\ sweep'.bad = {}
    BY <2>1 DEF Off
  <2>3. tried' <= sub'.attempts + faults' /\ TriedInMonth'
    BY <2>1, Numbers DEF TriesInv, TriedInMonth
  <2>4. Waiting' <=> Waiting
    BY <2>1 DEF Waiting
  <2> QED
    BY <2>1, <2>2, <2>3, <2>4 DEF TriesInv, Loaded
<1>18. CASE UNCHANGED vars
  BY <1>18, TriesKept DEF vars
<1> QED
  BY <1>1, <1>2, <1>3, <1>4, <1>5, <1>6, <1>7, <1>8, <1>9, <1>10, <1>11, <1>12, <1>13, <1>14,
     <1>15, <1>16, <1>17, <1>18, Zenon DEF Next, SweepStep

-----------------------------------------------------------------------------
(***************************************************************************)
(* Debits in flight                                                        *)
(***************************************************************************)

\* What PayU was asked for by a run that was lost before its payment had a row.
Forgotten ==
    {d \in Debits : payment[d] = "none" /\ payu[d] # "none" /\ d # sweep.made}

\* Lost runs are as many as what they forgot, and no two debits wait here for PayU.
FlightInv ==
    /\ Cardinality(Forgotten) <= faults
    /\ \A d, e \in Debits : payment[d] = "pending" /\ payment[e] = "pending" => d = e

\* Only a charge, a commit and a lost run change what debit a run has made.
LEMMA MadeKept ==
    ASSUME TypeOK, RunInv,
           \/ SweepReads \/ SweepPauses \/ SweepEnds \/ SweepPasses \/ SweepNotifies \/ SweepCalls
           \/ \E p \in Payments : SweepSettles(p)
    PROVE  sweep'.made = sweep.made
<1>1. sweep \in Runs
  BY DEF TypeOK, Runs
<1>2. /\ Listed(sweep).made = sweep.made
      /\ \A t : /\ Edited(sweep, t).made = sweep.made
                /\ Listed(Edited(sweep, t)).made = sweep.made
                /\ [Listed(Edited(sweep, t)) EXCEPT !.bad = {sweep.made}].made = sweep.made
  BY <1>1 DEF Listed, Edited, Runs
<1>3. sweep.at \in {"off", "sub"} => sweep.made = None
  BY DEF RunInv, Off
<1>4. ASSUME SweepReads PROVE sweep'.made = sweep.made
  BY <1>3, <1>4 DEF SweepReads, Listed, Off
<1>5. ASSUME SweepPauses \/ SweepEnds \/ SweepPasses \/ SweepNotifies
      PROVE  sweep'.made = sweep.made
  BY <1>2, <1>3, <1>5 DEF SweepPauses, SweepEnds, SweepPasses, SweepNotifies, Turn, Off
<1>6. ASSUME SweepCalls PROVE sweep'.made = sweep.made
  BY <1>2, <1>6 DEF SweepCalls
<1>7. ASSUME NEW p \in Payments, SweepSettles(p) PROVE sweep'.made = sweep.made
  <2> DEFINE run == [sweep EXCEPT !.todo = @ \ {p}, !.held = @ \union {p}]
             copy == IF sweep.mine = None THEN [run EXCEPT !.mine = sub] ELSE run
  <2>1. /\ run.made = sweep.made /\ copy.made = sweep.made
        /\ run \in Runs /\ copy \in Runs
    BY <1>1 DEF Runs, TypeOK
  <2>2. \E t : \/ sweep' = run \/ sweep' = [run EXCEPT !.bad = @ \union {p}]
               \/ sweep' = [Edited(copy, t) EXCEPT !.locks = TRUE, !.good = @ \union {p}]
               \/ sweep' = [Edited(copy, t) EXCEPT !.locks = TRUE, !.bad = @ \union {p}]
    BY <1>7 DEF SweepSettles
  <2> HIDE DEF run, copy
  <2> QED
    BY <2>1, <2>2 DEF Edited, Runs
<1> QED
  BY <1>4, <1>5, <1>6, <1>7

\* Debits are finitely many, and so is what was forgotten.
LEMMA DebitsFinite == IsFiniteSet(Debits)
BY Constants, FS_Interval DEF Debits

\* One element more is one more at most.
LEMMA OneMore ==
    ASSUME NEW S, IsFiniteSet(S), NEW x
    PROVE  /\ IsFiniteSet(S \union {x})
           /\ Cardinality(S \union {x}) \in Nat /\ Cardinality(S) \in Nat
           /\ Cardinality(S \union {x}) <= Cardinality(S) + 1
<1>1. /\ IsFiniteSet(S \union {x})
      /\ Cardinality(S \union {x}) = IF x \in S THEN Cardinality(S) ELSE Cardinality(S) + 1
  BY FS_AddElement
<1>2. Cardinality(S) \in Nat
  BY FS_CardinalityType
<1> QED
  BY <1>1, <1>2

LEMMA FlightInit == Init => FlightInv
<1> SUFFICES ASSUME Init PROVE FlightInv
  OBVIOUS
<1>1. 1 \notin Debits
  BY Constants
<1>2. Forgotten = {} /\ \A d \in Debits : payment[d] # "pending"
  BY <1>1, Constants DEF Init, Forgotten
<1> QED
  BY <1>2, FS_EmptySet DEF Init, FlightInv

\* A step that makes no debit pending and forgets none.
LEMMA FlightKept ==
    ASSUME TypeOK, FlightInv, faults' = faults, Forgotten' \subseteq Forgotten,
           \A d \in Debits : payment'[d] = "pending" => payment[d] = "pending"
    PROVE  FlightInv'
<1>1. IsFiniteSet(Forgotten)
  BY DebitsFinite, FS_Subset DEF Forgotten
<1>2. IsFiniteSet(Forgotten') /\ Cardinality(Forgotten') <= Cardinality(Forgotten)
  BY <1>1, FS_Subset
<1>3. Cardinality(Forgotten) \in Nat /\ Cardinality(Forgotten') \in Nat /\ faults \in Nat
  BY <1>1, <1>2, FS_CardinalityType DEF TypeOK
<1>4. Cardinality(Forgotten') <= faults'
  BY <1>2, <1>3 DEF FlightInv
<1>5. \A d, e \in Debits : payment'[d] = "pending" /\ payment'[e] = "pending" => d = e
  BY DEF FlightInv
<1> QED
  BY <1>4, <1>5 DEF FlightInv

LEMMA FlightStep ==
    TypeOK /\ RunInv /\ HookInv /\ TriesInv /\ FlightInv /\ [Next]_vars => FlightInv'
<1> SUFFICES ASSUME TypeOK, RunInv, HookInv, TriesInv, FlightInv, [Next]_vars PROVE FlightInv'
  OBVIOUS
<1>a. /\ payment \in [Payments -> {"none", "pending", "success", "failed"}]
      /\ payu \in [Payments -> {"none", "pending", "captured", "failed"}]
      /\ sweep \in Runs /\ faults \in Nat /\ Debits \subseteq Payments /\ None \notin Debits
      /\ Checkouts \intersect Debits = {}
      /\ hook \in [Hooks -> Payments \union {None}]
  BY Constants DEF TypeOK, Runs
<1>b. ASSUME UNCHANGED <<payment, payu, faults>>, sweep'.made = sweep.made PROVE FlightInv'
  BY <1>b, FlightKept DEF Forgotten
<1>1. ASSUME Tick \/ (\E stop \in BOOLEAN : SetStop(stop)) \/ UNCHANGED vars
      PROVE  FlightInv'
  BY <1>1, <1>b DEF Tick, SetStop, vars
<1>2. ASSUME NEW h \in Hooks, HookFails(h) \/ \E p \in Payments : HookBegins(h, p)
      PROVE  FlightInv'
  BY <1>2, <1>b DEF HookFails, HookBegins
<1>3. ASSUME NEW p \in Payments, Decide(p) PROVE FlightInv'
  <2>1. \A d \in Debits : payu'[d] # "none" => payu[d] # "none"
    BY <1>3, <1>a DEF Decide
  <2>2. Forgotten' \subseteq Forgotten
    BY <1>3, <2>1 DEF Decide, Forgotten
  <2> QED
    BY <1>3, <2>2, FlightKept DEF Decide
<1>4. ASSUME NEW c \in Checkouts, Subscribe(c) PROVE FlightInv'
  <2>1. \A d \in Debits : payment'[d] = payment[d]
    BY <1>4, <1>a DEF Subscribe
  <2>2. Forgotten' \subseteq Forgotten
    BY <1>4, <2>1 DEF Subscribe, Forgotten
  <2> QED
    BY <1>4, <2>1, <2>2, FlightKept DEF Subscribe
<1>5. ASSUME NEW h \in Hooks, HookApplies(h) PROVE FlightInv'
  <2>1. payment[hook[h]] = "pending" /\ hook[h] \in Payments
    BY <1>5, <1>a DEF HookApplies, HookInv
  <2>2. \A d \in Payments : payment'[d] # payment[d] => payment'[d] \in {"success", "failed"}
    BY <1>5, <1>a, <2>1 DEF HookApplies
  <2>3. Forgotten' \subseteq Forgotten
    BY <1>5, <1>a, <2>2 DEF HookApplies, Forgotten
  <2> QED
    BY <1>5, <1>a, <2>2, <2>3, FlightKept DEF HookApplies
<1>6. ASSUME SweepReads \/ SweepPauses \/ SweepEnds \/ SweepPasses \/ SweepNotifies
             \/ \E p \in Payments : SweepSettles(p)
      PROVE  FlightInv'
  <2>1. sweep'.made = sweep.made
    BY <1>6, MadeKept
  <2> QED
    BY <1>6, <1>b, <2>1, Zenon DEF SweepReads, SweepPauses, SweepEnds, SweepPasses, SweepNotifies,
                            SweepSettles
<1>7. ASSUME NEW d \in Debits, SweepCharges(d) PROVE FlightInv'
  <2>1. sweep'.made = d /\ sweep.made = None
    BY <1>7, <1>a DEF SweepCharges, Edited, Runs, Turn, RunInv
  <2>2. UNCHANGED <<payment, payu, faults>>
    BY <1>7 DEF SweepCharges
  <2>3. Forgotten' \subseteq Forgotten
    BY <1>a, <2>1, <2>2 DEF Forgotten
  <2> QED
    BY <2>2, <2>3, FlightKept
<1>8. CASE SweepCalls
  <2>1. sweep'.made = sweep.made /\ UNCHANGED <<payment, faults>>
    BY <1>8, MadeKept DEF SweepCalls
  <2>2. \A d \in Debits : d # sweep.made => payu'[d] = payu[d]
    BY <1>8, <1>a DEF SweepCalls
  <2>3. Forgotten' \subseteq Forgotten
    BY <2>1, <2>2 DEF Forgotten
  <2> QED
    BY <2>1, <2>3, FlightKept
<1>9. CASE SweepCommits
  <2>1. /\ sweep'.made = None /\ UNCHANGED <<payu, faults>>
        /\ payment' = [p \in Payments |-> IF p \in sweep.good THEN "success"
                                          ELSE IF p \in sweep.bad THEN "failed"
                                          ELSE IF p = sweep.made THEN "pending"
                                          ELSE payment[p]]
    BY <1>9 DEF SweepCommits, Off
  <2>2. Forgotten' \subseteq Forgotten
    <3>1. SUFFICES ASSUME NEW d \in Forgotten' PROVE d \in Forgotten
      OBVIOUS
    <3>2. d \in Debits /\ payment'[d] = "none" /\ payu[d] # "none"
      BY <2>1, <3>1 DEF Forgotten
    <3>3. payment[d] = "none" /\ d # sweep.made
      BY <1>a, <2>1, <3>2
    <3> QED
      BY <3>2, <3>3 DEF Forgotten
  <2>3. \A d \in Debits : payment'[d] = "pending" => payment[d] = "pending" \/ d = sweep.made
    BY <1>a, <2>1
  <2>4. sweep.made # None => \A d \in Debits : payment[d] # "pending"
    BY DEF TriesInv, Waiting
  <2>5. CASE sweep.made = None
    BY <1>a, <2>1, <2>2, <2>3, <2>5, FlightKept
  <2>6. CASE sweep.made # None
    <3>1. \A d, e \in Debits : payment'[d] = "pending" /\ payment'[e] = "pending" => d = e
      BY <2>3, <2>4, <2>6
    <3>2. IsFiniteSet(Forgotten)
      BY DebitsFinite, FS_Subset DEF Forgotten
    <3>3. IsFiniteSet(Forgotten') /\ Cardinality(Forgotten') <= Cardinality(Forgotten)
      BY <2>2, <3>2, FS_Subset
    <3>4. Cardinality(Forgotten) \in Nat /\ Cardinality(Forgotten') \in Nat
      BY <3>2, <3>3, FS_CardinalityType
    <3>5. Cardinality(Forgotten') <= faults'
      BY <1>a, <2>1, <3>3, <3>4 DEF FlightInv
    <3> QED
      BY <3>1, <3>5 DEF FlightInv
  <2> QED
    BY <2>5, <2>6
<1>10. CASE SweepFails
  <2>1. sweep'.made = None /\ UNCHANGED <<payment, payu>> /\ faults' = faults + 1
        /\ sweep.made \in Debits
    BY <1>10, <1>a DEF SweepFails, Off, Runs
  <2>2. Forgotten' \subseteq Forgotten \union {sweep.made}
    BY <2>1 DEF Forgotten
  <2>3. IsFiniteSet(Forgotten)
    BY DebitsFinite, FS_Subset DEF Forgotten
  <2>4. /\ IsFiniteSet(Forgotten \union {sweep.made})
        /\ Cardinality(Forgotten \union {sweep.made}) \in Nat /\ Cardinality(Forgotten) \in Nat
        /\ Cardinality(Forgotten \union {sweep.made}) <= Cardinality(Forgotten) + 1
    BY <2>3, OneMore
  <2>5. IsFiniteSet(Forgotten')
        /\ Cardinality(Forgotten') <= Cardinality(Forgotten \union {sweep.made})
    BY <2>2, <2>4, FS_Subset
  <2>6. Cardinality(Forgotten') \in Nat
    BY <2>5, FS_CardinalityType
  <2>7. Cardinality(Forgotten') <= faults'
    BY <1>a, <2>1, <2>4, <2>5, <2>6 DEF FlightInv
  <2>8. \A d, e \in Debits : payment'[d] = "pending" /\ payment'[e] = "pending" => d = e
    BY <2>1 DEF FlightInv
  <2> QED
    BY <2>7, <2>8 DEF FlightInv
<1> QED
  BY <1>1, <1>2, <1>3, <1>4, <1>5, <1>6, <1>7, <1>8, <1>9, <1>10 DEF Next, SweepStep

\* What is in flight was forgotten, or is the one debit that waits here or that a run has made.
LEMMA FlightBound ==
    ASSUME TypeOK, RunInv, TriesInv, FlightInv
    PROVE  OneDebitInFlight
<1>a. faults \in Nat /\ sweep \in Runs
  BY DEF TypeOK, Runs
<1>1. \E x : InFlight \subseteq Forgotten \union {x}
  <2>1. CASE sweep.made # None
    <3>1. \A d \in Debits : payment[d] # "pending"
      BY <2>1 DEF TriesInv, Waiting
    <3> QED
      BY <3>1 DEF InFlight, Forgotten
  <2>2. CASE sweep.made = None
    <3>1. \A d \in InFlight : d \in Forgotten \/ payment[d] = "pending"
      BY <2>2, Constants DEF InFlight, Forgotten
    <3>2. CASE \E x \in Debits : payment[x] = "pending"
      BY <3>1, <3>2 DEF FlightInv, InFlight
    <3>3. CASE \A x \in Debits : payment[x] # "pending"
      BY <3>1, <3>3 DEF InFlight
    <3> QED
      BY <3>2, <3>3
  <2> QED
    BY <2>1, <2>2
<1>2. PICK x : InFlight \subseteq Forgotten \union {x}
  BY <1>1
<1>3. IsFiniteSet(Forgotten)
  BY DebitsFinite, FS_Subset DEF Forgotten
<1>4. /\ IsFiniteSet(Forgotten \union {x})
      /\ Cardinality(Forgotten \union {x}) \in Nat /\ Cardinality(Forgotten) \in Nat
      /\ Cardinality(Forgotten \union {x}) <= Cardinality(Forgotten) + 1
  BY <1>3, OneMore
<1>5. IsFiniteSet(InFlight) /\ Cardinality(InFlight) <= Cardinality(Forgotten \union {x})
  BY <1>2, <1>4, FS_Subset
<1>6. Cardinality(InFlight) \in Nat
  BY <1>5, FS_CardinalityType
<1> QED
  BY <1>a, <1>4, <1>5, <1>6 DEF FlightInv, OneDebitInFlight

-----------------------------------------------------------------------------
(***************************************************************************)
(* Theorems                                                                *)
(***************************************************************************)

IInv == TypeOK /\ RunInv /\ HookInv /\ NoticeInv /\ TriesInv /\ FlightInv

LEMMA Invariant == Spec => []IInv
<1>1. Init => IInv
  BY TypeInit, RunInit, NoticeInit, TriesInit, FlightInit DEF IInv
<1>2. IInv /\ [Next]_vars => IInv'
  <2> SUFFICES ASSUME IInv, [Next]_vars PROVE IInv'
    OBVIOUS
  <2>1. TypeOK /\ RunInv /\ HookInv /\ NoticeInv /\ TriesInv /\ FlightInv
    BY DEF IInv
  <2>2. Onward
    BY <2>1, OnwardStep
  <2>3. TypeOK' /\ RunInv' /\ HookInv' /\ NoticeInv' /\ TriesInv' /\ FlightInv'
    BY <2>1, <2>2, TypeStep, RunStep, HookStep, NoticeStep, TriesStep, FlightStep
  <2> QED
    BY <2>3 DEF IInv
<1> QED
  BY <1>1, <1>2, PTL DEF Spec

\* Whatever the sweep's copy held when it was loaded, what a commit makes of the row has the
\* form of a subscription, and so has every other record of the plan.
THEOREM TypeCorrect == Spec => []TypeOK
<1>1. IInv => TypeOK
  BY DEF IInv
<1> QED
  BY <1>1, Invariant, PTL

\* However runs, webhooks and returns interleave, PayU is asked for no more debits between
\* two months paid for than MAX_ATTEMPTS, and one for each run that was lost.
THEOREM TriesAreLimited == Spec => []TriedInMonth
<1>1. IInv => TriedInMonth
  BY DEF IInv, TriesInv
<1> QED
  BY <1>1, Invariant, PTL

\* However stale the sweep's copy is, what it debits is what PayU was last told of for that
\* mandate: a notice never outlives the date it was for.
THEOREM DebitsAreAnnounced == Spec => DebitWasAnnounced
<1>1. IInv /\ [Next]_vars =>
        [sweep.made = None /\ sweep'.made # None => told[sweep.mine.mandate] = sweep.mine.next]_vars
  <2> SUFFICES ASSUME IInv, [Next]_vars, sweep.made = None, sweep'.made # None
               PROVE  told[sweep.mine.mandate] = sweep.mine.next
    OBVIOUS
  <2>1. PICK d \in Debits : SweepCharges(d)
    <3>1. sweep' = sweep \/ sweep' = Off => FALSE
      BY DEF Off
    <3>2. ~\/ SweepReads \/ SweepPauses \/ SweepEnds \/ SweepPasses \/ SweepNotifies \/ SweepCalls
           \/ \E p \in Payments : SweepSettles(p)
      BY MadeKept DEF IInv
    <3>3. ~SweepCommits /\ ~SweepFails
      BY <3>1 DEF SweepCommits, SweepFails
    <3>4. UNCHANGED sweep \/ SweepReads \/ SweepPauses \/ SweepEnds \/ SweepPasses
          \/ SweepNotifies \/ (\E d \in Debits : SweepCharges(d)) \/ SweepCalls
          \/ (\E p \in Payments : SweepSettles(p)) \/ SweepCommits \/ SweepFails
      BY DEF Next, SweepStep, vars, Tick, Decide, Subscribe, SetStop, HookBegins, HookApplies,
             HookFails
    <3> QED
      BY <3>1, <3>2, <3>3, <3>4
  <2>2. sweep.at = "sub" /\ sweep.mine.notice = sweep.mine.next /\ sweep.mine.next # None
    BY <2>1 DEF SweepCharges, Turn, ChargeDue, Renewable
  <2> QED
    BY <2>2 DEF IInv, NoticeInv, Announced
<1> QED
  BY <1>1, Invariant, PTL DEF Spec, DebitWasAnnounced

\* PayU is never left with two debits it may still collect and that are not settled here, but
\* for one for each run that was lost: a new one is made only when none is pending, whoever
\* settles the old one meanwhile (renewal_sweep, _charge).
THEOREM OneDebitAtATime == Spec => []OneDebitInFlight
<1>1. IInv => OneDebitInFlight
  BY FlightBound DEF IInv
<1> QED
  BY <1>1, Invariant, PTL

=============================================================================
