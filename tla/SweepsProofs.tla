---------------------------- MODULE SweepsProofs ----------------------------
(***************************************************************************)
(* Proofs about Sweeps, for any rows, any of the jobs, any batch limit and *)
(* any number of crashes, exceptions and missed runs.                      *)
(*                                                                         *)
(* RunInv says how the messages a person was sent relate to the markers:   *)
(* each of them had its marker lost with a run, or has it in the database, *)
(* or is this run's own; and a row this run has still to come to has       *)
(* neither.                                                                *)
(*                                                                         *)
(* Then proofs about PaymentLinks, which has a sweep of its own: see the   *)
(* section below.                                                          *)
(***************************************************************************)
EXTENDS Sweeps, PaymentLinks, TLAPS

LEMMA TypeInit == Init => TypeOK
<1> SUFFICES ASSUME Init PROVE TypeOK
  OBVIOUS
<1>1. kind \in Job
  BY KindsAssumption DEF Init
<1>2. kind.period \in Nat \ {0}
  BY <1>1 DEF Job
<1>3. /\ 0 .. kind.period \subseteq Nat
      /\ 0 .. (kind.period - 1) \subseteq Nat
  BY <1>2
<1>4. /\ opens \in [Items -> Nat] /\ next \in Nat
  BY <1>3 DEF Init
<1> QED BY <1>4, BoundAssumption DEF Init, TypeOK, Idle, Runs

LEMMA StampedType ==
  ASSUME TypeOK, NEW i \in Items, NEW sent \in BOOLEAN
  PROVE  Stamped(i, sent) \in SUBSET Items
BY DEF Stamped, TypeOK, Runs

LEMMA GoneType ==
  ASSUME TypeOK, NEW sent \in SUBSET Items, Gone(sent)
  PROVE  /\ run' = Idle /\ run' \in Runs
         /\ lost' \in [Items -> Nat]
BY DEF Gone, TypeOK, Runs, Idle

LEMMA TypeStep == TypeOK /\ [Next]_vars => TypeOK'
<1> SUFFICES ASSUME TypeOK, [Next]_vars PROVE TypeOK'
  OBVIOUS
<1>0. /\ kind \in Job /\ kind.period \in Nat
      /\ run.todo \in SUBSET Items /\ run.sent \in SUBSET Items /\ run.stamps \in SUBSET Items
  BY KindsAssumption DEF TypeOK, Job, Runs
<1> USE DEF TypeOK, choices
<1>1. CASE Tick
  BY <1>1, BoundAssumption DEF Tick
<1>2. CASE Miss
  BY <1>0, <1>2, BoundAssumption DEF Miss
<1>3. CASE Crash
  <2>1. /\ run' = Idle /\ run' \in Runs
        /\ lost' \in [Items -> Nat]
    BY <1>0, <1>3, GoneType DEF Crash
  <2>2. missed' \in Nat
    BY <1>3 DEF Crash
  <2> QED BY <1>0, <1>3, <2>1, <2>2, BoundAssumption DEF Crash
<1>4. ASSUME NEW i \in Items, Settle(i) PROVE TypeOK'
  BY <1>4 DEF Settle
<1>5. CASE Begin
  <2> PICK rows \in AtHand(Due) : run' = [Idle EXCEPT !.on = TRUE, !.todo = rows]
    BY <1>5 DEF Begin
  <2>1. rows \in SUBSET Items
    BY DEF AtHand, Due
  <2>2. run' \in Runs /\ run'.on
    BY <2>1 DEF Idle, Runs
  <2> QED BY <1>0, <1>5, <2>2 DEF Begin
<1>6. CASE Skip
  BY <1>0, <1>6 DEF Skip
<1>7. CASE Commit
  <2>1. run' = Idle /\ run' \in Runs
    BY <1>7 DEF Commit, Idle, Runs
  <2> QED BY <1>0, <1>7, <2>1 DEF Commit
<1>8. ASSUME NEW i \in Items, Take(i) PROVE TypeOK'
  <2> PICK sent \in Sent(i) :
        /\ run' = [run EXCEPT !.todo = @ \ {i}, !.stamps = Stamped(i, sent),
                              !.sent = IF sent THEN @ \cup {i} ELSE @]
        /\ got' = [got EXCEPT ![i] = IF sent THEN @ + 1 ELSE @]
    BY <1>8 DEF Take
  <2>1. sent \in BOOLEAN
    BY DEF Sent
  <2>2. Stamped(i, sent) \in SUBSET Items
    BY <2>1, StampedType
  <2>3. run' \in Runs /\ run'.on
    BY <1>8, <2>1, <2>2 DEF Take, Runs
  <2>4. got' \in [Items -> Nat]
    BY <2>1
  <2> QED BY <1>8, <2>3, <2>4 DEF Take
<1>9. ASSUME NEW i \in Items, Caught(i) PROVE TypeOK'
  <2>1. run' \in Runs /\ run'.on
    BY <1>9 DEF Caught, Runs
  <2>2. faults' \in 0 .. MaxFaults
    BY <1>9, BoundAssumption DEF Caught
  <2> QED BY <1>9, <2>1, <2>2 DEF Caught
<1>10. ASSUME NEW i \in Items, Raise(i) PROVE TypeOK'
  <2>1. PICK s \in SUBSET Items : Gone(s)
    BY <1>0, <1>10 DEF Raise
  <2>2. /\ run' = Idle /\ run' \in Runs
        /\ lost' \in [Items -> Nat]
    BY <2>1, GoneType
  <2>3. got' \in [Items -> Nat]
    BY <1>10 DEF Raise
  <2>4. faults' \in 0 .. MaxFaults
    BY <1>10, BoundAssumption DEF Raise
  <2> QED BY <1>10, <2>2, <2>3, <2>4 DEF Raise
<1>11. CASE UNCHANGED vars
  BY <1>11 DEF vars
<1> QED BY <1>1, <1>2, <1>3, <1>4, <1>5, <1>6, <1>7, <1>8, <1>9, <1>10, <1>11, Zenon DEF Next, RunStep

\* Every variable of a job always has its type.
THEOREM TypeCorrect == Spec => []TypeOK
  BY TypeInit, TypeStep, PTL DEF Spec

-----------------------------------------------------------------------------
\* The markers and the messages: a message this run did not send was marked
\* or had its marker lost; one it sent has its marker in the session; a row
\* it has still to come to has neither a marker nor a message of this run.
RunInv ==
  /\ run.sent \subseteq run.stamps
  /\ run.todo \cap (mark \cup run.sent) = {}
  /\ run.sent \cap mark = {}
  /\ \A i \in Items : got[i] <= lost[i] + IF i \in mark \cup run.sent THEN 1 ELSE 0

\* What RunInv needs of TypeOK, as one fact.
LEMMA Readable ==
  ASSUME TypeOK
  PROVE  /\ got \in [Items -> Nat] /\ lost \in [Items -> Nat]
         /\ run \in Runs /\ (run.on \/ run = Idle)
         /\ run.todo \in SUBSET Items /\ run.sent \in SUBSET Items /\ run.stamps \in SUBSET Items
         /\ mark \in SUBSET Items
BY DEF TypeOK, Runs

\* A run that is lost takes no message back: those it had sent are counted
\* as lost.
LEMMA GoneKeeps ==
  ASSUME TypeOK, RunInv, NEW s \in SUBSET Items, Gone(s), UNCHANGED mark,
         run.sent \subseteq s, s \cap mark = {},
         got' \in [Items -> Nat],
         \A i \in Items : got'[i] <= got[i] + IF i \in s \ run.sent THEN 1 ELSE 0
  PROVE  RunInv'
<1>1. run' = Idle /\ mark' = mark
  BY DEF Gone
<1>2. \A i \in Items : lost'[i] = IF i \in s THEN lost[i] + 1 ELSE lost[i]
  BY DEF Gone
<1>3. ASSUME NEW i \in Items
      PROVE  got'[i] <= lost'[i] + IF i \in mark' \cup run'.sent THEN 1 ELSE 0
  <2>1. got[i] \in Nat /\ lost[i] \in Nat /\ got'[i] \in Nat
    BY Readable
  <2>2. got[i] <= lost[i] + IF i \in mark \cup run.sent THEN 1 ELSE 0
    BY DEF RunInv
  <2>3. CASE i \in run.sent
    <3>1. i \in s /\ i \notin mark
      BY <2>3
    <3> QED BY <2>1, <2>2, <2>3, <3>1, <1>1, <1>2
  <2>4. CASE i \notin run.sent
    BY <2>1, <2>2, <2>4, <1>1, <1>2
  <2> QED BY <2>3, <2>4
<1> QED BY <1>1, <1>3 DEF RunInv, Idle

LEMMA RunStepKeeps == TypeOK /\ RunInv /\ [Next]_vars => RunInv'
<1> SUFFICES ASSUME TypeOK, RunInv, [Next]_vars PROVE RunInv'
  OBVIOUS
<1>0. /\ got \in [Items -> Nat] /\ lost \in [Items -> Nat]
      /\ run \in Runs /\ (run.on \/ run = Idle)
      /\ run.todo \in SUBSET Items /\ run.sent \in SUBSET Items /\ run.stamps \in SUBSET Items
      /\ mark \in SUBSET Items
  BY Readable
<1>1. CASE Tick
  BY <1>1 DEF Tick, RunInv
<1>2. CASE Miss \/ Skip
  BY <1>2 DEF Miss, Skip, RunInv
<1>3. CASE Crash
  <2>1. Gone(run.sent) /\ got' = got /\ mark' = mark
    BY <1>3 DEF Crash
  <2>2. run.sent \cap mark = {}
    BY DEF RunInv
  <2>3. \A i \in Items : got'[i] <= got[i] + IF i \in run.sent \ run.sent THEN 1 ELSE 0
    BY <1>0, <2>1
  <2> QED BY <1>0, <2>1, <2>2, <2>3, GoneKeeps
<1>4. ASSUME NEW i \in Items, Settle(i) PROVE RunInv'
  BY <1>4 DEF Settle, RunInv
<1>5. CASE Begin
  <2> PICK rows \in AtHand(Due) : run' = [Idle EXCEPT !.on = TRUE, !.todo = rows]
    BY <1>5 DEF Begin
  <2>1. rows \subseteq Items \ mark
    BY DEF AtHand, Due
  <2>2. run = Idle /\ UNCHANGED <<mark, got, lost>>
    BY <1>0, <1>5 DEF Begin
  <2>3. run'.todo = rows /\ run'.sent = {} /\ run'.stamps = {} /\ run.sent = {}
    BY <2>2 DEF Idle
  <2> QED BY <2>1, <2>2, <2>3 DEF RunInv
<1>6. CASE Commit
  <2>1. /\ run' = Idle /\ mark' = mark \cup run.stamps /\ got' = got /\ lost' = lost
    BY <1>6 DEF Commit
  <2>2. run.sent \subseteq run.stamps
    BY DEF RunInv
  <2>3. ASSUME NEW i \in Items
        PROVE  got'[i] <= lost'[i] + IF i \in mark' \cup run'.sent THEN 1 ELSE 0
    <3>1. got[i] \in Nat /\ lost[i] \in Nat
      BY <1>0
    <3>2. got[i] <= lost[i] + IF i \in mark \cup run.sent THEN 1 ELSE 0
      BY DEF RunInv
    <3>3. i \in mark \cup run.sent => i \in mark'
      BY <2>1, <2>2
    <3> QED BY <2>1, <3>1, <3>2, <3>3
  <2> QED BY <2>1, <2>3 DEF RunInv, Idle
<1>7. ASSUME NEW i \in Items, Take(i) PROVE RunInv'
  <2> PICK sent \in Sent(i) :
        /\ run' = [run EXCEPT !.todo = @ \ {i}, !.stamps = Stamped(i, sent),
                              !.sent = IF sent THEN @ \cup {i} ELSE @]
        /\ got' = [got EXCEPT ![i] = IF sent THEN @ + 1 ELSE @]
    BY <1>7 DEF Take
  <2>1. i \in run.todo /\ UNCHANGED <<mark, lost>>
    BY <1>7 DEF Take
  <2>2. i \notin mark /\ i \notin run.sent
    BY <2>1 DEF RunInv
  <2>3. /\ run'.todo = run.todo \ {i} /\ run'.stamps = Stamped(i, sent)
        /\ run'.sent = IF sent THEN run.sent \cup {i} ELSE run.sent
    BY <1>0 DEF Runs
  <2>4. run'.sent \subseteq run'.stamps
    BY <2>3 DEF Stamped, RunInv
  <2>5. ASSUME NEW k \in Items
        PROVE  got'[k] <= lost'[k] + IF k \in mark' \cup run'.sent THEN 1 ELSE 0
    <3>1. got[k] \in Nat /\ lost[k] \in Nat
      BY <1>0
    <3>2. got[k] <= lost[k] + IF k \in mark \cup run.sent THEN 1 ELSE 0
      BY DEF RunInv
    <3>3. CASE k = i
      <4>1. got'[k] = IF sent THEN got[k] + 1 ELSE got[k]
        BY <1>0, <3>3
      <4> QED BY <2>1, <2>2, <2>3, <3>1, <3>2, <3>3, <4>1
    <3>4. CASE k # i
      <4>1. got'[k] = got[k] /\ (k \in run'.sent <=> k \in run.sent)
        BY <1>0, <2>3, <3>4
      <4> QED BY <2>1, <3>1, <3>2, <4>1
    <3> QED BY <3>3, <3>4
  <2>6. /\ run'.todo \cap (mark' \cup run'.sent) = {} /\ run'.sent \cap mark' = {}
    BY <2>1, <2>2, <2>3 DEF RunInv
  <2> QED BY <2>4, <2>5, <2>6 DEF RunInv
<1>8. ASSUME NEW i \in Items, Caught(i) PROVE RunInv'
  <2>1. /\ run'.todo = run.todo \ {i} /\ run'.sent = run.sent /\ run'.stamps = run.stamps
        /\ UNCHANGED <<mark, got, lost>>
    BY <1>0, <1>8 DEF Caught, Runs
  <2> QED BY <2>1 DEF RunInv
<1>9. ASSUME NEW i \in Items, Raise(i) PROVE RunInv'
  <2>1. i \in run.todo /\ mark' = mark
    BY <1>9 DEF Raise
  <2>2. i \notin mark /\ i \notin run.sent /\ run.sent \cap mark = {}
    BY <2>1 DEF RunInv
  <2>3. CASE Gone(run.sent) /\ got' = got
    <3>1. \A k \in Items : got'[k] <= got[k] + IF k \in run.sent \ run.sent THEN 1 ELSE 0
      BY <1>0, <2>3
    <3> QED BY <1>0, <2>1, <2>2, <2>3, <3>1, GoneKeeps
  <2>4. CASE Gone(run.sent \cup {i}) /\ got' = [got EXCEPT ![i] = @ + 1]
    <3>1. \A k \in Items : got'[k] <= got[k] + IF k \in (run.sent \cup {i}) \ run.sent THEN 1 ELSE 0
      BY <1>0, <2>2, <2>4
    <3>2. got' \in [Items -> Nat]
      BY <1>0, <2>4
    <3>3. run.sent \cup {i} \in SUBSET Items /\ (run.sent \cup {i}) \cap mark = {}
      BY <1>0, <2>2
    <3> QED BY <2>1, <2>4, <3>1, <3>2, <3>3, GoneKeeps
  <2>5. (Gone(run.sent) /\ got' = got) \/ (Gone(run.sent \cup {i}) /\ got' = [got EXCEPT ![i] = @ + 1])
    <3>1. CASE i \in broken /\ UNCHANGED <<got, faults>> /\ Gone(run.sent)
      BY <3>1
    <3>2. ASSUME NEW sent \in BOOLEAN,
                 got' = [got EXCEPT ![i] = IF sent THEN @ + 1 ELSE @],
                 Gone(IF sent THEN run.sent \cup {i} ELSE run.sent)
          PROVE  (Gone(run.sent) /\ got' = got) \/ (Gone(run.sent \cup {i}) /\ got' = [got EXCEPT ![i] = @ + 1])
      <4>1. CASE sent
        BY <3>2, <4>1
      <4>2. CASE ~sent
        BY <1>0, <3>2, <4>2
      <4> QED BY <4>1, <4>2
    <3> QED BY <1>9, <3>1, <3>2 DEF Raise
  <2> QED BY <2>3, <2>4, <2>5
<1>10. CASE UNCHANGED vars
  BY <1>10 DEF vars, RunInv
<1> QED BY <1>1, <1>2, <1>3, <1>4, <1>5, <1>6, <1>7, <1>8, <1>9, <1>10, Zenon DEF Next, RunStep

\* However many rows, runs and faults there are, a person is sent at most
\* one message more than runs lost the marker of theirs: what the comments
\* on the marker columns promise, as far as it is true.
THEOREM RepeatsOnlyAfterALoss == Spec => []RepeatedOnlyWhenLost
<1>1. Init => TypeOK /\ RunInv
  <2> SUFFICES ASSUME Init PROVE RunInv
    BY TypeInit
  <2> QED BY DEF Init, RunInv, Idle
<1>2. TypeOK /\ RunInv /\ [Next]_vars => (TypeOK /\ RunInv)'
  BY TypeStep, RunStepKeeps
<1>3. TypeOK /\ RunInv => RepeatedOnlyWhenLost
  <2> SUFFICES ASSUME TypeOK, RunInv, NEW i \in Items PROVE got[i] <= lost[i] + 1
    BY DEF RepeatedOnlyWhenLost
  <2>1. got[i] \in Nat /\ lost[i] \in Nat
    BY Readable
  <2>2. got[i] <= lost[i] + IF i \in mark \cup run.sent THEN 1 ELSE 0
    BY DEF RunInv
  <2> QED BY <2>1, <2>2
<1> QED BY <1>1, <1>2, <1>3, PTL DEF Spec

-----------------------------------------------------------------------------
\* While the runs missed so far fit into the window, the next run comes
\* early enough for each row no run has read: at most one period after the
\* row opened, and one more for each run missed since.  A row in a run that
\* is on has that run's period more, which it needs only if the run is lost.
Slack(i) == missed + 1 + IF i \in run.todo THEN 1 ELSE 0

Roomy == kind.width # Forever /\ (missed + 1) * kind.period <= kind.width

TimeInv ==
  /\ now <= next
  /\ mark \cup run.stamps \subseteq tried
  /\ Roomy => \A i \in Items \ (settled \cup tried) : next <= opens[i] + Slack(i) * kind.period

LEMMA Timed ==
  ASSUME TypeOK
  PROVE  /\ now \in Nat /\ next \in Nat /\ missed \in Nat
         /\ kind \in Job /\ kind \in Kinds /\ kind.period \in Nat /\ kind.period >= 1
         /\ kind.width # Forever => kind.width \in Nat
         /\ \A i \in Items : opens[i] \in Nat /\ Slack(i) \in Nat /\ Slack(i) >= missed + 1
BY KindsAssumption, BoundAssumption DEF TypeOK, Job, Slack

LEMMA OneMore ==
  ASSUME NEW m \in Nat, NEW p \in Nat
  PROVE  /\ (m + 1) * p = m * p + p
         /\ m * p \in Nat /\ (m + 1) * p \in Nat
OBVIOUS

LEMMA Monotone ==
  ASSUME NEW m \in Nat, NEW n \in Nat, NEW p \in Nat, m <= n
  PROVE  m * p <= n * p
<1>1. PICK d \in Nat : n = m + d
  <2>1. n - m \in Nat /\ n = m + (n - m)
    OBVIOUS
  <2> QED BY <2>1
<1>2. n * p = m * p + d * p /\ d * p \in Nat /\ m * p \in Nat
  BY <1>1
<1> QED BY <1>2

\* A step that moves the next run by at most one period for each run it
\* counts as missed keeps TimeInv; a row read by a run that is lost uses up
\* one of these.
LEMMA MissedKeeps ==
  ASSUME TypeOK, TypeOK', TimeInv, UNCHANGED <<kind, opens, settled, mark, now>>,
         now <= next', tried \subseteq tried', run'.stamps \subseteq tried',
         \/ missed' = missed + 1 /\ next' <= next
         \/ /\ missed' = missed + 1 /\ next' <= next + kind.period
            /\ run.todo \subseteq run'.todo
         \/ missed' = missed + 2 /\ next' <= next + kind.period
  PROVE  TimeInv'
<1>1. ASSUME Roomy', NEW i \in Items \ (settled' \cup tried')
      PROVE  next' <= opens'[i] + Slack(i)' * kind'.period
  <2>0. /\ now \in Nat /\ next \in Nat /\ next' \in Nat /\ missed \in Nat /\ kind.period \in Nat
        /\ opens[i] \in Nat
        /\ kind.width # Forever => kind.width \in Nat
        /\ Slack(i) \in Nat
    <3>1. next' \in Nat
      BY DEF TypeOK
    <3>2. i \in Items
      BY <1>1
    <3> QED BY Timed, <3>1, <3>2
  <2>1. missed' \in Nat /\ missed' >= missed
    BY <2>0
  <2>2. Roomy
    <3>1. kind.width # Forever /\ (missed' + 1) * kind.period <= kind.width
      BY <1>1 DEF Roomy
    <3>2. (missed + 1) * kind.period <= (missed' + 1) * kind.period
      BY <2>0, <2>1, Monotone
    <3>3. kind.width \in Nat /\ (missed + 1) * kind.period \in Nat /\ (missed' + 1) * kind.period \in Nat
      BY <2>0, <2>1, <3>1, OneMore
    <3>4. (missed + 1) * kind.period <= kind.width
      BY <3>1, <3>2, <3>3
    <3> QED BY <3>1, <3>4 DEF Roomy
  <2>3. next <= opens[i] + Slack(i) * kind.period
    BY <1>1, <2>2 DEF TimeInv
  <2>4. /\ Slack(i)' \in Nat /\ Slack(i)' >= Slack(i)
        /\ next' <= next \/ (Slack(i)' >= Slack(i) + 1 /\ next' <= next + kind.period)
    BY <1>1, <2>0 DEF Slack
  <2> DEFINE q == Slack(i) * kind.period
             r == Slack(i)' * kind.period
  <2>5. q \in Nat /\ r \in Nat /\ q <= r
    BY <2>0, <2>4, OneMore, Monotone
  <2>6. Slack(i)' >= Slack(i) + 1 => q + kind.period <= r
    <3> SUFFICES ASSUME Slack(i)' >= Slack(i) + 1 PROVE q + kind.period <= r
      OBVIOUS
    <3>1. (Slack(i) + 1) * kind.period = q + kind.period
      BY <2>0, OneMore
    <3>2. (Slack(i) + 1) * kind.period <= r
      BY <2>0, <2>4, Monotone
    <3> QED BY <3>1, <3>2
  <2>7. next <= opens[i] + q
    BY <2>3
  <2>8. opens'[i] = opens[i] /\ Slack(i)' * kind'.period = r
    OBVIOUS
  <2> HIDE DEF q, r
  <2>9. next' <= opens[i] + r
    BY <2>0, <2>4, <2>5, <2>6, <2>7
  <2> QED BY <2>8, <2>9
<1>2. now' <= next' /\ mark' \cup run'.stamps \subseteq tried'
  BY DEF TimeInv
<1> QED BY <1>1, <1>2 DEF TimeInv

\* A step that misses no run and does not move the next one.
LEMMA QuietKeeps ==
  ASSUME TypeOK, TypeOK', TimeInv, UNCHANGED <<kind, opens, next, missed>>, now' <= next,
         settled \subseteq settled', tried \subseteq tried', mark' \cup run'.stamps \subseteq tried',
         \A i \in Items \ tried' : i \in run.todo <=> i \in run'.todo
  PROVE  TimeInv'
<1>1. ASSUME Roomy', NEW i \in Items \ (settled' \cup tried')
      PROVE  next' <= opens'[i] + Slack(i)' * kind'.period
  <2>1. Roomy /\ Slack(i)' = Slack(i) /\ i \in Items \ (settled \cup tried)
    BY <1>1 DEF Roomy, Slack
  <2> QED BY <2>1 DEF TimeInv
<1> QED BY <1>1 DEF TimeInv
LEMMA TimeInit == Init => TimeInv
<1> SUFFICES ASSUME Init PROVE TimeInv
  OBVIOUS
<1>1. TypeOK
  BY TypeInit
<1>2. now <= next /\ mark \cup run.stamps \subseteq tried
  BY <1>1 DEF Init, Idle, TypeOK
<1>3. ASSUME NEW i \in Items PROVE next <= opens[i] + Slack(i) * kind.period
  <2>1. /\ next \in Nat /\ kind.period \in Nat /\ opens[i] \in Nat
    BY <1>1, Timed
  <2>2. next <= kind.period - 1
    BY <2>1 DEF Init
  <2>3. Slack(i) = 1
    BY DEF Init, Slack, Idle
  <2>4. Slack(i) * kind.period = kind.period
    BY <2>1, <2>3
  <2> QED BY <2>1, <2>2, <2>4
<1> QED BY <1>2, <1>3 DEF TimeInv

\* A run that starts has read every row that is still due, or the row opens
\* later than that.
LEMMA BeginKeeps ==
  ASSUME TypeOK, TypeOK', TimeInv, Begin PROVE TimeInv'
<1>0. /\ now \in Nat /\ next \in Nat /\ missed \in Nat
      /\ kind \in Job /\ kind \in Kinds /\ kind.period \in Nat /\ kind.period >= 1
      /\ kind.width # Forever => kind.width \in Nat
      /\ \A i \in Items : opens[i] \in Nat /\ Slack(i) \in Nat /\ Slack(i) >= missed + 1
  BY Timed
<1> PICK rows \in AtHand(Due) : run' = [Idle EXCEPT !.on = TRUE, !.todo = rows]
  BY DEF Begin
<1>1. /\ next' = now + kind.period /\ UNCHANGED <<kind, opens, now, settled, mark, missed, tried>>
      /\ ~run.on
  BY DEF Begin, choices
<1>2. run'.todo = rows /\ run'.stamps = {} /\ run.todo = {} /\ run.stamps = {}
  BY <1>1 DEF TypeOK, Idle
<1>3. now <= next /\ mark \subseteq tried
  BY DEF TimeInv
<1>4. ASSUME Roomy', NEW i \in Items \ (settled' \cup tried')
      PROVE  next' <= opens'[i] + Slack(i)' * kind'.period
  <2> DEFINE q == (missed + 1) * kind.period
  <2>1. Roomy /\ kind.width # Forever /\ q <= kind.width
    BY <1>1, <1>4 DEF Roomy
  <2>2. Slack(i) = missed + 1 /\ missed + 1 \in Nat /\ missed + 1 >= 1
    BY <1>0, <1>2 DEF Slack
  <2>3. next <= opens[i] + q
    BY <1>1, <1>4, <2>1, <2>2 DEF TimeInv
  <2>4. q \in Nat /\ q >= kind.period
    <3>1. 1 * kind.period <= (missed + 1) * kind.period
      BY <1>0, <2>2, Monotone
    <3> QED BY <1>0, <3>1, OneMore
  <2>5. (missed + 2) * kind.period = q + kind.period
    <3>1. ((missed + 1) + 1) * kind.period = q + kind.period
      BY <1>0, OneMore
    <3>2. (missed + 1) + 1 = missed + 2
      BY <1>0
    <3> QED BY <3>1, <3>2
  <2>6. opens[i] \in Nat /\ kind.width \in Nat
    BY <1>0, <1>4, <2>1
  <2> HIDE DEF q
  <2>7. CASE now < opens[i]
    <3>1. Slack(i)' * kind'.period >= q
      <4>1. Slack(i)' \in Nat /\ Slack(i)' >= missed + 1
        BY <1>0, <1>1 DEF Slack
      <4>2. (missed + 1) * kind.period <= Slack(i)' * kind.period
        BY <1>0, <2>2, <4>1, Monotone
      <4> QED BY <1>1, <4>2 DEF q
    <3>2. now + kind.period <= opens[i] + q
      BY <1>0, <2>4, <2>6, <2>7
    <3>3. Slack(i)' * kind'.period \in Nat
      <4>1. Slack(i)' \in Nat
        BY <1>0, <1>1 DEF Slack
      <4> QED BY <1>0, <1>1, <4>1, OneMore
    <3>4. now + kind.period <= opens[i] + Slack(i)' * kind'.period
      BY <1>0, <2>4, <2>6, <3>1, <3>2, <3>3
    <3> QED BY <1>1, <3>4
  <2>8. CASE opens[i] <= now
    <3>1. now <= opens[i] + kind.width
      BY <1>0, <1>3, <2>1, <2>3, <2>4, <2>6
    <3>2. i \in Due
      BY <1>0, <1>1, <1>3, <1>4, <2>1, <2>6, <2>8, <3>1 DEF Due, Closed
    <3>3. ~kind.limited
      BY <1>0, <2>1, LimitAssumption
    <3>4. i \in run'.todo
      BY <1>2, <3>2, <3>3 DEF AtHand
    <3>5. Slack(i)' = missed + 2
      BY <1>0, <1>1, <3>4 DEF Slack
    <3>6. Slack(i)' * kind'.period = q + kind.period
      BY <1>1, <2>5, <3>5
    <3>7. now + kind.period <= opens[i] + (q + kind.period)
      BY <1>0, <1>3, <2>3, <2>4, <2>6
    <3> QED BY <1>1, <3>6, <3>7
  <2> QED BY <1>0, <2>6, <2>7, <2>8
<1>5. now' <= next' /\ mark' \cup run'.stamps \subseteq tried'
  BY <1>0, <1>1, <1>2, <1>3
<1> QED BY <1>4, <1>5 DEF TimeInv
LEMMA TimeStep == TypeOK /\ TimeInv /\ [Next]_vars => TimeInv'
<1> SUFFICES ASSUME TypeOK, TimeInv, [Next]_vars PROVE TimeInv'
  OBVIOUS
<1>0. TypeOK'
  BY TypeStep
<1>00. /\ now \in Nat /\ next \in Nat /\ missed \in Nat /\ kind.period \in Nat /\ kind.period >= 1
       /\ now <= next /\ mark \cup run.stamps \subseteq tried
       /\ run \in Runs /\ run.todo \subseteq Items
  BY Timed, Readable DEF TimeInv
<1>1. CASE Tick
  <2>1. UNCHANGED <<kind, opens, next, missed, settled, mark, run, tried>> /\ now' <= next
    BY <1>00, <1>1 DEF Tick, choices
  <2> QED BY <1>0, <1>00, <2>1, QuietKeeps
<1>2. ASSUME NEW i \in Items, Settle(i) PROVE TimeInv'
  <2>1. UNCHANGED <<kind, opens, next, missed, now, mark, run, tried>> /\ settled \subseteq settled'
    BY <1>2 DEF Settle, choices
  <2> QED BY <1>0, <1>00, <2>1, QuietKeeps
<1>3. CASE Begin
  BY <1>0, <1>3, BeginKeeps
<1>4. CASE Skip \/ Miss
  <2>1. /\ UNCHANGED <<kind, opens, settled, mark, now, run, tried>>
        /\ missed' = missed + 1 /\ next' = next + kind.period
    BY <1>4 DEF Skip, Miss, choices
  <2>2. now <= next' /\ next' <= next + kind.period /\ run.todo \subseteq run'.todo /\ run'.stamps \subseteq tried'
    BY <1>00, <2>1
  <2> QED BY <1>0, <1>00, <2>1, <2>2, MissedKeeps
<1>5. CASE Crash
  <2>1. /\ UNCHANGED <<kind, opens, settled, mark, now, tried>> /\ next' = now + kind.period
        /\ run' = Idle /\ missed' = missed + IF run.on THEN 2 ELSE 1
    BY <1>5 DEF Crash, Gone, choices
  <2>2. now <= next' /\ next' <= next + kind.period /\ run'.stamps \subseteq tried'
    BY <1>00, <2>1 DEF Idle
  <2>3. CASE run.on
    BY <1>0, <2>1, <2>2, <2>3, MissedKeeps
  <2>4. CASE ~run.on
    <3>1. run.todo = {} /\ missed' = missed + 1
      BY <2>1, <2>4 DEF TypeOK, Idle
    <3>2. run.todo \subseteq run'.todo
      BY <3>1
    <3> QED BY <1>0, <2>1, <2>2, <3>1, <3>2, MissedKeeps
  <2> QED BY <2>3, <2>4
<1>6. CASE Commit
  <2>1. UNCHANGED <<kind, opens, next, missed, now, settled, tried>>
    BY <1>6 DEF Commit, choices
  <2>2. /\ run.todo = {} /\ run'.todo = {} /\ run'.stamps = {} /\ mark' = mark \cup run.stamps
    BY <1>6 DEF Commit, Idle
  <2> QED BY <1>0, <1>00, <2>1, <2>2, QuietKeeps
<1>7. ASSUME NEW i \in Items, Take(i) PROVE TimeInv'
  <2> PICK sent \in Sent(i) :
        run' = [run EXCEPT !.todo = @ \ {i}, !.stamps = Stamped(i, sent),
                           !.sent = IF sent THEN @ \cup {i} ELSE @]
    BY <1>7 DEF Take
  <2>1. UNCHANGED <<kind, opens, next, missed, now, settled, mark>> /\ tried' = tried \cup {i}
    BY <1>7 DEF Take, choices
  <2>2. run'.todo = run.todo \ {i} /\ run'.stamps = Stamped(i, sent)
    BY <1>00 DEF Runs
  <2>3. run'.stamps \subseteq tried'
    BY <1>00, <2>1, <2>2 DEF Stamped
  <2> QED BY <1>0, <1>00, <2>1, <2>2, <2>3, QuietKeeps
<1>8. ASSUME NEW i \in Items, Caught(i) PROVE TimeInv'
  <2>1. UNCHANGED <<kind, opens, next, missed, now, settled, mark>> /\ tried' = tried \cup {i}
    BY <1>8 DEF Caught, choices
  <2>2. run'.todo = run.todo \ {i} /\ run'.stamps = run.stamps
    BY <1>00, <1>8 DEF Caught, Runs
  <2> QED BY <1>0, <1>00, <2>1, <2>2, QuietKeeps
<1>9. ASSUME NEW i \in Items, Raise(i) PROVE TimeInv'
  <2>1. /\ UNCHANGED <<kind, opens, now, next, settled, mark>> /\ tried' = tried \cup {i}
        /\ missed' = missed + 1
    BY <1>9 DEF Raise, choices
  <2>2. run'.stamps = {}
    BY <1>9 DEF Raise, Gone, Idle
  <2> QED BY <1>0, <1>00, <2>1, <2>2, MissedKeeps
<1>10. CASE UNCHANGED vars
  BY <1>10 DEF vars, TimeInv, Roomy, Slack
<1> QED BY <1>1, <1>2, <1>3, <1>4, <1>5, <1>6, <1>7, <1>8, <1>9, <1>10, Zenon DEF Next, RunStep

\* For any job with a window and any number of missed runs that leaves room
\* for one in it, a row that needs its message is come to before its window
\* closes.
THEOREM ReachedWhileRoomy == Spec => []ReachedInWindow
<1>1. TypeOK /\ TimeInv => ReachedInWindow
  <2> SUFFICES ASSUME TypeOK, TimeInv, NEW i \in Items \ settled, kind.width # Forever, Closed(i),
                      (missed + 1) * kind.period <= kind.width, i \notin tried, i \notin run.todo
               PROVE  FALSE
    BY DEF ReachedInWindow
  <2>1. /\ now \in Nat /\ next \in Nat /\ missed \in Nat /\ kind.period \in Nat
        /\ kind.width \in Nat /\ opens[i] \in Nat
    BY Timed
  <2>2. now <= next /\ next <= opens[i] + Slack(i) * kind.period
    BY DEF TimeInv, Roomy
  <2>3. Slack(i) = missed + 1
    BY <2>1 DEF Slack
  <2> DEFINE q == (missed + 1) * kind.period
  <2>4. q \in Nat /\ q <= kind.width /\ next <= opens[i] + q
    BY <2>1, <2>2, <2>3, OneMore
  <2>5. now > opens[i] + kind.width
    BY DEF Closed
  <2> HIDE DEF q
  <2> QED BY <2>1, <2>2, <2>4, <2>5
<1> QED BY <1>1, TypeInit, TypeStep, TimeInit, TimeStep, PTL DEF Spec

-----------------------------------------------------------------------------
(***************************************************************************)
(* Proofs about PaymentLinks, whose sweep of the open links does not have  *)
(* the shape above, for any links, dues, processes and amounts.            *)
(*                                                                         *)
(* A row that says paid must have all of its money although a commit       *)
(* writes the status without the amount when only the status changed in    *)
(* its copy.  So every copy tells the truth (Books), and money that a copy *)
(* was loaded with is in the row still (KeptOf).                           *)
(***************************************************************************)

\* One of two links comes first.
OneWay(order) == \A x \in order : <<x[2], x[1]>> \in order => x[1] = x[2]

\* A link that the transaction has made and not yet stored.
Born(t, l) == t.had[l].status = "none" /\ t.now[l].status # "none"

\* What a transaction is about: it asks only about links there are, and makes one at most.
WorkOf(t) ==
  /\ OneWay(t.todo)
  /\ \A k, l \in Links : Born(t, k) /\ Born(t, l) => k = l
  /\ t.at # "commit" => \A l \in Links : ~Born(t, l)
  /\ t.at \in {"ask", "apply"} => \A l \in In(t.todo) : t.had[l].status # "none"

LinkTypeInv == LinkTypeOK /\ \A p \in Procs : WorkOf(tx[p])

\* A link is paid in full or not at all.
GatewayInv == \A l \in Links : paid[l] \in {0, price[l]}

\* A row, or a copy of one, that says paid has all of the money, and any that has money has all.
Books(l, held) ==
  /\ held.status # "none" => price[l] > 0
  /\ held.status = "paid" => held.recorded = price[l] /\ paid[l] = price[l]
  /\ held.recorded # 0 => held.recorded = price[l] /\ paid[l] = price[l]

\* A link that is being sent has no price yet, and nobody else is sending it.
SendOf(p) ==
  tx[p].at = "send" =>
    /\ \A l \in In(tx[p].todo) :
         /\ price[l] = 0
         /\ Outstanding(DueOf[l], tx[p].knew[DueOf[l]]) > 0
         /\ \A q \in Procs \ {p} : tx[q].at = "send" => l \notin In(tx[q].todo)
    /\ \A l \in Links : tx[p].now[l] = NoLink

\* An answer says what was paid when it was given.
AnswerOf(t) ==
  t.at = "apply" =>
    \A l \in In(t.todo) : IsFirst(l, t.todo) =>
      /\ t.answer.status = "paid" => t.answer.paid = price[l] /\ paid[l] = price[l]
      /\ t.answer.status # "paid" => t.answer.paid = 0

\* A copy with money in it keeps it, and the row it was loaded from does.
KeptOf(t) ==
  \A l \in Links : t.had[l].recorded # 0 => /\ t.now[l].recorded # 0
                                           /\ links[l].recorded # 0

BooksInv ==
  /\ GatewayInv
  /\ \A l \in Links : Books(l, links[l])
  /\ \A p \in Procs :
       /\ \A l \in Links : Books(l, tx[p].had[l]) /\ Books(l, tx[p].now[l])
       /\ SendOf(p) /\ AnswerOf(tx[p]) /\ KeptOf(tx[p])

-----------------------------------------------------------------------------
(* Types.                                                                  *)

Orders == SUBSET (Links \X Links)
Txs == [at : {"idle", "send", "ask", "apply", "commit"},
        on : Dues \union {None}, takes : Nat, todo : Orders,
        answer : [status : Statuses \union {"none", "error"}, paid : Nat],
        had : [Links -> LinkRow], now : [Links -> LinkRow],
        knew : [Dues -> DueRow], dues : [Dues -> DueRow]]

LEMMA RowTypes ==
  /\ NoLink \in LinkRow /\ NewDue \in DueRow
  /\ \A held \in LinkRow : held.status \in Statuses \union {"none"} /\ held.recorded \in Nat
  /\ \A due \in DueRow : due.received \in Nat
  BY DEF NoLink, NewDue, LinkRow, DueRow

LEMMA IdleType == NoTx \in Txs
  BY RowTypes DEF NoTx, Txs, Orders

LEMMA IdleFields ==
  /\ NoTx.at = "idle" /\ NoTx.todo = {} /\ NoTx.answer = [status |-> "none", paid |-> 0]
  /\ \A l \in Links : NoTx.had[l] = NoLink /\ NoTx.now[l] = NoLink
  BY DEF NoTx

LEMMA StateTypes ==
  ASSUME LinkTypeInv
  PROVE  /\ tx \in [Procs -> Txs] /\ links \in [Links -> LinkRow] /\ dues \in [Dues -> DueRow]
         /\ price \in [Links -> Nat] /\ paid \in [Links -> Nat] /\ cash \in [Dues -> Nat]
         /\ rota \in Orders /\ OneWay(rota)
         /\ requests \in 0 .. MaxRequests /\ failures \in 0 .. MaxFailures
         /\ linkLock \in [Links -> Procs \union {None}] /\ dueLock \in [Dues -> Procs \union {None}]
         /\ connected \subseteq Dues /\ dead \subseteq Links
         /\ DueOf \in [Links -> Dues] /\ Owed \in [Dues -> Nat \ {0}] /\ Advance \in Nat
         /\ MaxRequests \in Nat /\ MaxFailures \in Nat
  BY PaymentLinksAssumption DEF LinkTypeInv, LinkTypeOK, Txs, Orders, OneWay

LEMMA InitTypes == LinkInit => LinkTypeInv
<1> SUFFICES ASSUME LinkInit PROVE LinkTypeInv
  OBVIOUS
<1>1. tx \in [Procs -> Txs] /\ \A p \in Procs : tx[p] = NoTx
  BY IdleType DEF LinkInit
<1>2. links \in [Links -> LinkRow] /\ dues \in [Dues -> DueRow]
  BY RowTypes DEF LinkInit
<1>3. requests \in 0 .. MaxRequests /\ failures \in 0 .. MaxFailures
  BY PaymentLinksAssumption DEF LinkInit
<1>4. LinkTypeOK
  BY <1>1, <1>2, <1>3 DEF LinkInit, LinkTypeOK, Txs, Orders
<1>5. WorkOf(NoTx)
  BY IdleFields DEF WorkOf, OneWay, Born, NoLink
<1> QED
  BY <1>1, <1>4, <1>5 DEF LinkTypeInv

\* A step of one transaction.
LEMMA OwnTx ==
  ASSUME LinkTypeInv, NEW p \in Procs, NEW t \in Txs, WorkOf(t), tx' = [tx EXCEPT ![p] = t],
         links' \in [Links -> LinkRow], dues' \in [Dues -> DueRow], rota' \in Orders, OneWay(rota'),
         price' \in [Links -> Nat], cash' \in [Dues -> Nat],
         linkLock' \in [Links -> Procs \union {None}], dueLock' \in [Dues -> Procs \union {None}],
         requests' \in 0 .. MaxRequests, failures' \in 0 .. MaxFailures,
         UNCHANGED <<connected, paid, dead>>
  PROVE  /\ LinkTypeInv' /\ tx'[p] = t
         /\ \A q \in Procs \ {p} : tx'[q] = tx[q]
<1>1. tx' \in [Procs -> Txs] /\ tx'[p] = t /\ \A q \in Procs \ {p} : tx'[q] = tx[q]
  BY StateTypes
<1>2. LinkTypeOK'
  <2>1. /\ connected' \subseteq Dues /\ dead' \subseteq Links /\ paid' \in [Links -> Nat]
    BY StateTypes
  <2>2. rota' \subseteq Links \X Links /\ \A x \in rota' : <<x[2], x[1]>> \in rota' => x[1] = x[2]
    BY DEF Orders, OneWay
  <2> QED
    BY <1>1, <2>1, <2>2 DEF LinkTypeOK, Txs, Orders
<1>3. \A q \in Procs : WorkOf(tx'[q])
  BY <1>1 DEF LinkTypeInv
<1> QED
  BY <1>1, <1>2, <1>3 DEF LinkTypeInv

\* The beginning of a transaction.
LEMMA BeginType ==
  ASSUME LinkTypeInv, NEW p \in Procs, NEW t \in Txs, WorkOf(t), BeginTx(p, t),
         UNCHANGED <<links, dues, rota, connected, gateway, cash, locks, failures>>
  PROVE  /\ LinkTypeInv' /\ tx[p].at = "idle" /\ tx'[p] = t
         /\ \A q \in Procs \ {p} : tx'[q] = tx[q]
<1>1. tx' = [tx EXCEPT ![p] = t] /\ tx[p].at = "idle"
  BY DEF BeginTx, At
<1>2. requests' \in 0 .. MaxRequests
  BY StateTypes DEF BeginTx
<1>3. UNCHANGED <<links, dues, rota, connected, price, paid, dead, cash, linkLock, dueLock, failures>>
  BY DEF gateway, locks
<1> QED
  BY <1>1, <1>2, <1>3, OwnTx, StateTypes

LEMMA LoadedType ==
  ASSUME LinkTypeInv, NEW d \in Dues
  PROVE  /\ Loaded(d) \in Txs /\ Loaded(d).had = NoTx.had /\ Loaded(d).now = NoTx.now /\ Loaded(d).todo = {}
         /\ Loaded(d).knew[d] = dues[d] /\ Loaded(d).at = "idle" /\ Loaded(d).dues \in [Dues -> DueRow]
<1>1. dues[d] \in DueRow /\ NoTx \in Txs
  BY IdleType, StateTypes
<1>2. /\ [NoTx.knew EXCEPT ![d] = dues[d]] \in [Dues -> DueRow]
      /\ [NoTx.dues EXCEPT ![d] = dues[d]] \in [Dues -> DueRow]
      /\ [NoTx.knew EXCEPT ![d] = dues[d]][d] = dues[d]
  BY <1>1 DEF Txs
<1>3. Loaded(d) = [NoTx EXCEPT !.on = d, !.knew = [NoTx.knew EXCEPT ![d] = dues[d]],
                               !.dues = [NoTx.dues EXCEPT ![d] = dues[d]]]
  BY <1>1 DEF Loaded, Txs
<1> QED
  BY <1>1, <1>2, <1>3, IdleFields DEF Txs

\* Orders of one link, and parts of an order.
LEMMA OrderFacts ==
  /\ \A l \in Links : {<<l, l>>} \in Orders /\ OneWay({<<l, l>>}) /\ In({<<l, l>>}) = {l}
  /\ \A order \in Orders : \A part \in SUBSET order :
       part \in Orders /\ In(part) \subseteq In(order) /\ (OneWay(order) => OneWay(part))
  /\ {} \in Orders /\ OneWay({}) /\ In({}) = {}
  BY DEF Orders, OneWay, In

LEMMA WithoutFacts ==
  ASSUME NEW order \in Orders, NEW l
  PROVE  /\ Without(l, order) \in SUBSET order /\ Without(l, order) \in Orders
         /\ In(Without(l, order)) \subseteq In(order) \ {l}
  BY DEF Without, Orders, In

\* A transaction that has made nothing new.
LEMMA PlainWork ==
  ASSUME NEW t \in Txs, OneWay(t.todo), \A l \in Links : t.now[l].status = "none" \/ t.had[l].status # "none",
         t.at \in {"ask", "apply"} => \A l \in In(t.todo) : t.had[l].status # "none"
  PROVE  WorkOf(t)
  BY DEF WorkOf, Born

LEMMA LoadedWork ==
  ASSUME LinkTypeInv, NEW d \in Dues, NEW t \in Txs, t.had = Loaded(d).had, t.now = Loaded(d).now,
         OneWay(t.todo), t.at \in {"send", "commit"}
  PROVE  WorkOf(t)
<1>1. \A l \in Links : t.now[l] = NoLink
  BY LoadedType, IdleFields
<1> QED
  BY <1>1, PlainWork DEF NoLink

SentLinks(l) == [Loaded(DueOf[l]) EXCEPT !.at = "send", !.todo = {<<l, l>>}]
Checked(l) == [Loaded(DueOf[l]) EXCEPT !.at = "ask", !.todo = {<<l, l>>},
                  !.had = [NoTx.had EXCEPT ![l] = links[l]], !.now = [NoTx.now EXCEPT ![l] = links[l]]]

LEMMA SendType ==
  ASSUME LinkTypeInv, NEW p \in Procs, NEW l \in Links, Send(p, l)
  PROVE  /\ LinkTypeInv' /\ tx[p].at = "idle" /\ tx'[p] = SentLinks(l) /\ SentLinks(l) \in Txs
         /\ \A q \in Procs \ {p} : tx'[q] = tx[q]
         /\ UNCHANGED <<links, gateway>>
<1> DEFINE t == SentLinks(l)
<1>1. DueOf[l] \in Dues
  BY StateTypes
<1>a. Loaded(DueOf[l]) \in Txs /\ {<<l, l>>} \in Orders
  BY <1>1, LoadedType, OrderFacts
<1>2. t \in Txs /\ t.had = Loaded(DueOf[l]).had /\ t.now = Loaded(DueOf[l]).now
      /\ t.todo = {<<l, l>>} /\ t.at = "send"
  BY <1>a DEF Txs, SentLinks
<1>3. WorkOf(t)
  BY <1>1, <1>2, LoadedWork, OrderFacts
<1>4. BeginTx(p, t)
  BY DEF Send, SentLinks
<1> QED
  BY <1>2, <1>3, <1>4, BeginType DEF Send

LEMMA CheckType ==
  ASSUME LinkTypeInv, NEW p \in Procs, NEW l \in Links, Check(p, l)
  PROVE  /\ LinkTypeInv' /\ tx[p].at = "idle" /\ tx'[p] = Checked(l) /\ Checked(l) \in Txs
         /\ \A q \in Procs \ {p} : tx'[q] = tx[q]
         /\ UNCHANGED <<links, gateway>>
<1> DEFINE t == Checked(l)
<1>1. DueOf[l] \in Dues /\ links[l] \in LinkRow /\ NoTx \in Txs
  BY StateTypes, IdleType
<1>a. Loaded(DueOf[l]) \in Txs /\ {<<l, l>>} \in Orders
  BY <1>1, LoadedType, OrderFacts
<1>b. NoTx.had \in [Links -> LinkRow] /\ NoTx.now \in [Links -> LinkRow]
  BY <1>1 DEF Txs
<1>c. /\ [NoTx.had EXCEPT ![l] = links[l]] \in [Links -> LinkRow]
      /\ [NoTx.now EXCEPT ![l] = links[l]] \in [Links -> LinkRow]
  BY <1>1, <1>b
<1>2. t \in Txs /\ t.todo = {<<l, l>>} /\ t.at = "ask"
      /\ t.had = [NoTx.had EXCEPT ![l] = links[l]] /\ t.now = [NoTx.now EXCEPT ![l] = links[l]]
  BY <1>a, <1>c DEF Txs, Checked
<1>3. links[l].status # "none"
  BY DEF Check
<1> HIDE DEF t
<1>4. \A k \in Links : t.had[k] = (IF k = l THEN links[l] ELSE NoLink) /\ t.now[k] = t.had[k]
  <2> TAKE k \in Links
  <2>1. NoTx.had[k] = NoLink /\ NoTx.now[k] = NoLink
    BY IdleFields
  <2>2. t.had[k] = (IF k = l THEN links[l] ELSE NoLink)
    BY <1>b, <1>2, <2>1
  <2>3. t.now[k] = (IF k = l THEN links[l] ELSE NoLink)
    BY <1>b, <1>2, <2>1
  <2> QED
    BY <2>2, <2>3
<1>5. WorkOf(t)
  <2>1. \A k \in Links : t.now[k].status = "none" \/ t.had[k].status # "none"
    BY <1>3, <1>4 DEF NoLink
  <2>2. In(t.todo) = {l} /\ OneWay(t.todo) /\ t.had[l].status # "none"
    BY <1>2, <1>3, <1>4, OrderFacts
  <2> QED
    BY <1>2, <2>1, <2>2, PlainWork
<1>6. t = [Loaded(DueOf[l]) EXCEPT !.at = "ask", !.todo = {<<l, l>>},
                                           !.had[l] = links[l], !.now[l] = links[l]]
  BY <1>a, <1>1, LoadedType DEF Checked, Txs, t
<1>7. BeginTx(p, t)
  BY <1>6 DEF Check
<1>8. LinkTypeInv' /\ tx[p].at = "idle" /\ tx'[p] = t /\ \A q \in Procs \ {p} : tx'[q] = tx[q]
  BY <1>2, <1>5, <1>7, BeginType DEF Check
<1> QED
  BY <1>2, <1>8 DEF Check, t

\* Receipts and decisions touch no link.
LEMMA DueOnlyType ==
  ASSUME LinkTypeInv, NEW p \in Procs, NEW d \in Dues, NEW n \in Nat, NEW due \in DueRow,
         BeginTx(p, [Loaded(d) EXCEPT !.at = "commit", !.takes = n,
                                    !.dues = [Loaded(d).dues EXCEPT ![d] = due]]),
         UNCHANGED <<links, dues, rota, connected, gateway, cash, locks, failures>>
  PROVE  /\ LinkTypeInv' /\ tx[p].at = "idle" /\ tx'[p].at = "commit" /\ tx'[p].todo = {}
         /\ tx'[p].had = NoTx.had /\ tx'[p].now = NoTx.now
         /\ \A q \in Procs \ {p} : tx'[q] = tx[q]
         /\ UNCHANGED <<links, gateway>>
<1> DEFINE t == [Loaded(d) EXCEPT !.at = "commit", !.takes = n,
                                  !.dues = [Loaded(d).dues EXCEPT ![d] = due]]
<1>a. Loaded(d) \in Txs /\ Loaded(d).todo = {} /\ [Loaded(d).dues EXCEPT ![d] = due] \in [Dues -> DueRow]
  BY LoadedType
<1>1. t \in Txs /\ t.had = Loaded(d).had /\ t.now = Loaded(d).now /\ t.todo = {} /\ t.at = "commit"
  BY <1>a DEF Txs
<1> HIDE DEF t
<1>2. WorkOf(t)
  <2>1. OneWay(t.todo) /\ In(t.todo) = {}
    BY <1>1, OrderFacts
  <2> QED BY <1>1, <2>1, LoadedWork
<1>3. tx[p].at = "idle" /\ tx'[p] = t /\ LinkTypeInv' /\ \A q \in Procs \ {p} : tx'[q] = tx[q]
  BY <1>1, <1>2, BeginType DEF t
<1> QED
  BY <1>1, <1>3, LoadedType

LEMMA ReceiptType ==
  ASSUME LinkTypeInv, NEW p \in Procs, NEW d \in Dues, NEW n \in Nat, Receipt(p, d, n)
  PROVE  /\ LinkTypeInv' /\ tx[p].at = "idle" /\ tx'[p].at = "commit" /\ tx'[p].todo = {}
         /\ tx'[p].had = NoTx.had /\ tx'[p].now = NoTx.now
         /\ \A q \in Procs \ {p} : tx'[q] = tx[q]
         /\ UNCHANGED <<links, gateway>>
<1> DEFINE due == RecordPayment(d, dues[d], n)
<1>1. due \in DueRow /\ Loaded(d) \in Txs
  BY StateTypes, RowTypes, LoadedType DEF RecordPayment, DueRow
<1> HIDE DEF due
<1>2. [Loaded(d) EXCEPT !.at = "commit", !.takes = n, !.dues[d] = due]
        = [Loaded(d) EXCEPT !.at = "commit", !.takes = n, !.dues = [Loaded(d).dues EXCEPT ![d] = due]]
  BY <1>1 DEF Txs
<1>3. BeginTx(p, [Loaded(d) EXCEPT !.at = "commit", !.takes = n,
                                 !.dues = [Loaded(d).dues EXCEPT ![d] = due]])
  BY <1>2 DEF Receipt, due
<1> QED
  BY <1>1, <1>3, DueOnlyType DEF Receipt

LEMMA ResolveType ==
  ASSUME LinkTypeInv, NEW p \in Procs, NEW d \in Dues, NEW outcome \in {"met", "closed"},
         Resolve(p, d, outcome)
  PROVE  /\ LinkTypeInv' /\ tx[p].at = "idle" /\ tx'[p].at = "commit" /\ tx'[p].todo = {}
         /\ tx'[p].had = NoTx.had /\ tx'[p].now = NoTx.now
         /\ \A q \in Procs \ {p} : tx'[q] = tx[q]
         /\ UNCHANGED <<links, gateway>>
<1> DEFINE due == [Loaded(d).dues[d] EXCEPT !.status = outcome]
<1>a. Loaded(d) \in Txs /\ Loaded(d).dues[d] \in DueRow
  BY LoadedType
<1>b. Loaded(d).takes = 0
  BY DEF Loaded, NoTx
<1>1. due \in DueRow /\ Loaded(d) \in Txs /\ Loaded(d).takes = 0
  BY <1>a, <1>b DEF DueRow
<1> HIDE DEF due
<1>2. [Loaded(d) EXCEPT !.at = "commit", !.dues[d].status = outcome]
        = [Loaded(d) EXCEPT !.at = "commit", !.takes = 0, !.dues = [Loaded(d).dues EXCEPT ![d] = due]]
  BY <1>a, <1>1 DEF Txs, due
<1>3. BeginTx(p, [Loaded(d) EXCEPT !.at = "commit", !.takes = 0,
                                 !.dues = [Loaded(d).dues EXCEPT ![d] = due]])
  BY <1>2 DEF Resolve
<1>4. UNCHANGED <<links, dues, rota, connected, gateway, cash, locks, failures>>
  BY DEF Resolve
<1>5. 0 \in Nat
  OBVIOUS
<1> QED
  BY <1>1, <1>3, <1>4, <1>5, DueOnlyType

\* The sweep begins with links that there are.
LEMMA SweepType ==
  ASSUME LinkTypeInv, Sweep
  PROVE  /\ LinkTypeInv' /\ tx[Sync].at = "idle" /\ tx'[Sync].at = "ask"
         /\ \A l \in Links : /\ tx'[Sync].had[l] \in {links[l], NoLink}
                             /\ tx'[Sync].now[l] = tx'[Sync].had[l]
         /\ \A q \in Procs \ {Sync} : tx'[q] = tx[q]
         /\ UNCHANGED <<links, gateway>>
<1> DEFINE batch == Firsts(Batch, Unpaid)
           rows == [l \in Links |-> IF l \in In(batch) THEN links[l] ELSE NoLink]
           t == [NoTx EXCEPT !.at = "ask", !.todo = batch, !.had = rows, !.now = rows]
<1>1. batch \in SUBSET Unpaid /\ Unpaid \in SUBSET rota
  BY DEF Firsts, Unpaid
<1>2. batch \in Orders /\ OneWay(batch)
  <2>1. batch \in SUBSET rota
    BY <1>1
  <2> QED
    BY <2>1, StateTypes, OrderFacts
<1>3. \A l \in In(batch) : l \in Links /\ links[l].status # "none"
  <2> SUFFICES ASSUME NEW l \in In(batch) PROVE l \in Links /\ links[l].status # "none"
    OBVIOUS
  <2>1. l \in Links /\ <<l, l>> \in Unpaid
    BY <1>1 DEF In
  <2> QED
    BY <2>1 DEF Unpaid, OpenStatuses
<1> HIDE DEF batch
<1>4. rows \in [Links -> LinkRow] /\ \A l \in Links : rows[l] = IF l \in In(batch) THEN links[l] ELSE NoLink
  BY StateTypes, RowTypes
<1> HIDE DEF rows
<1>5. t \in Txs /\ t.at = "ask" /\ t.todo = batch /\ t.had = rows /\ t.now = rows
  BY <1>2, <1>4, IdleType DEF Txs
<1> HIDE DEF t
<1>6. WorkOf(t)
  <2>1. \A l \in Links : t.now[l].status = "none" \/ t.had[l].status # "none"
    BY <1>5
  <2>2. \A l \in In(t.todo) : t.had[l].status # "none"
    BY <1>3, <1>4, <1>5
  <2> QED
    BY <1>2, <1>5, <2>1, <2>2, PlainWork
<1>7. BeginTx(Sync, t) /\ Sync \in Procs
  BY DEF Sweep, Procs, t, rows, batch
<1>8. LinkTypeInv' /\ tx[Sync].at = "idle" /\ tx'[Sync] = t /\ \A q \in Procs \ {Sync} : tx'[q] = tx[q]
  BY <1>5, <1>6, <1>7, BeginType DEF Sweep
<1> QED
  BY <1>4, <1>5, <1>8 DEF Sweep

LEMMA TurnTypes == \A todo : Turn(todo) \in {"ask", "commit"}
  BY DEF Turn

\* What is left of the work.
LEMMA RestWork ==
  ASSUME NEW t \in Txs, NEW u \in Txs, WorkOf(t), t.at \in {"ask", "apply"}, NEW l \in Links,
         u.had = t.had, \A k \in Links \ {l} : u.now[k] = t.now[k],
         u.now[l] = t.now[l] \/ t.had[l].status # "none",
         u.at \in {"ask", "apply", "commit"}, u.todo \in SUBSET t.todo
  PROVE  WorkOf(u)
<1>1. OneWay(u.todo) /\ In(u.todo) \subseteq In(t.todo)
  BY DEF WorkOf, OneWay, In
<1>2. \A k \in Links : u.now[k].status = "none" \/ u.had[k].status # "none"
  BY DEF WorkOf, Born
<1>3. \A k \in In(u.todo) : u.had[k].status # "none"
  BY <1>1 DEF WorkOf
<1> QED
  BY <1>1, <1>2, <1>3, PlainWork

LEMMA PassOverType ==
  ASSUME LinkTypeInv, PassOver
  PROVE  /\ LinkTypeInv' /\ tx[Sync].at = "ask" /\ tx'[Sync].at \in {"ask", "commit"}
         /\ tx'[Sync].had = tx[Sync].had /\ tx'[Sync].now = tx[Sync].now
         /\ \A q \in Procs \ {Sync} : tx'[q] = tx[q]
         /\ UNCHANGED <<links, gateway>>
<1>1. PICK l \in In(tx[Sync].todo) :
        tx' = [tx EXCEPT ![Sync].at = Turn(Without(l, tx[Sync].todo)),
                         ![Sync].todo = Without(l, tx[Sync].todo)]
  BY DEF PassOver
<1> DEFINE rest == Without(l, tx[Sync].todo)
           t == [tx[Sync] EXCEPT !.at = Turn(rest), !.todo = rest]
<1>2. Sync \in Procs /\ tx[Sync] \in Txs /\ l \in Links /\ tx[Sync].todo \in Orders
  BY StateTypes DEF Procs, Txs, In
<1>3. rest \in SUBSET tx[Sync].todo /\ rest \in Orders
  BY <1>2, WithoutFacts
<1>4. Turn(rest) \in {"ask", "commit"}
  BY TurnTypes
<1>5. tx' = [tx EXCEPT ![Sync] = t]
  BY <1>1, <1>2, StateTypes
<1> HIDE DEF rest
<1>6. /\ t \in Txs /\ t.at = Turn(rest) /\ t.todo = rest
      /\ t.had = tx[Sync].had /\ t.now = tx[Sync].now
  BY <1>2, <1>3, <1>4 DEF Txs
<1> HIDE DEF t
<1>7. tx[Sync].at = "ask"
  BY DEF PassOver, At
<1>8. WorkOf(t)
  <2>1. t.todo \in SUBSET tx[Sync].todo /\ t.at \in {"ask", "apply", "commit"}
    BY <1>3, <1>4, <1>6
  <2>2. WorkOf(tx[Sync])
    BY <1>2 DEF LinkTypeInv
  <2> QED
    BY <1>2, <1>6, <1>7, <2>1, <2>2, RestWork
<1>9. LinkTypeInv' /\ tx'[Sync] = t /\ \A q \in Procs \ {Sync} : tx'[q] = tx[q]
  BY <1>2, <1>5, <1>6, <1>8, OwnTx, StateTypes DEF PassOver, gateway, locks
<1> QED
  BY <1>4, <1>6, <1>7, <1>9 DEF PassOver

LEMMA FetchTypes ==
  ASSUME LinkTypeInv, NEW l \in Links
  PROVE  FetchLink(l) \in [status : Statuses \union {"none", "error"}, paid : Nat]
  BY StateTypes DEF FetchLink, Statuses, OpenStatuses

\* The gateway answers about the first link, or fails.
LEMMA AskType ==
  ASSUME LinkTypeInv, NEW p \in Procs, Ask(p)
  PROVE  /\ LinkTypeInv' /\ tx[p].at = "ask" /\ tx'[p].at = "apply"
         /\ tx'[p].had = tx[p].had /\ tx'[p].now = tx[p].now /\ tx'[p].todo = tx[p].todo
         /\ \E l \in In(tx[p].todo) :
              /\ IsFirst(l, tx[p].todo)
              /\ tx'[p].answer \in {FetchLink(l), [status |-> "error", paid |-> 0]}
         /\ \A q \in Procs \ {p} : tx'[q] = tx[q]
         /\ UNCHANGED <<links, gateway>>
<1> DEFINE Failed == [status |-> "error", paid |-> 0]
           Answers == [status : Statuses \union {"none", "error"}, paid : Nat]
<1>1. PICK l \in In(tx[p].todo), a \in {FetchLink(k) : k \in Links} \union {Failed}, seen \in BOOLEAN :
        /\ a \in {FetchLink(l), Failed}
        /\ IsFirst(l, tx[p].todo)
        /\ tx' = [tx EXCEPT ![p].at = "apply", ![p].answer = a,
                            ![p].knew[DueOf[l]] = IF seen THEN @ ELSE dues[DueOf[l]],
                            ![p].dues[DueOf[l]] = IF seen THEN @ ELSE dues[DueOf[l]]]
        /\ failures' \in {failures, failures + 1} /\ (failures' # failures => failures < MaxFailures)
  <2>1. PICK l \in In(tx[p].todo) :
          LET d == DueOf[l]
              seen == p # Sync \/ dueLock[d] = p
              answered(a) ==
                 tx' = [tx EXCEPT ![p].at = "apply", ![p].answer = a,
                                  ![p].knew[d] = IF seen THEN @ ELSE dues[d],
                                  ![p].dues[d] = IF seen THEN @ ELSE dues[d]]
          IN  /\ IsFirst(l, tx[p].todo)
              /\ \/ answered(FetchLink(l)) /\ UNCHANGED failures
                 \/ /\ failures < MaxFailures
                    /\ failures' = failures + 1
                    /\ answered(Failed)
    BY DEF Ask
  <2>2. (p # Sync \/ dueLock[DueOf[l]] = p) \in BOOLEAN
    OBVIOUS
  <2>3. FetchLink(l) \in {FetchLink(k) : k \in Links} /\ Failed \in {Failed}
    BY DEF In
  <2> QED
    BY <2>1, <2>2, <2>3, ZenonT(30)
<1>2. l \in Links /\ DueOf[l] \in Dues /\ tx[p] \in Txs /\ tx \in [Procs -> Txs] /\ dues \in [Dues -> DueRow]
  BY StateTypes DEF In
<1>3. a \in Answers
  BY <1>1, <1>2, FetchTypes
<1> DEFINE d == DueOf[l]
           knew == [tx[p].knew EXCEPT ![d] = IF seen THEN tx[p].knew[d] ELSE dues[d]]
           has == [tx[p].dues EXCEPT ![d] = IF seen THEN tx[p].dues[d] ELSE dues[d]]
           t == [tx[p] EXCEPT !.at = "apply", !.answer = a, !.knew = knew, !.dues = has]
<1>4. knew \in [Dues -> DueRow] /\ has \in [Dues -> DueRow]
  <2>1. tx[p].knew \in [Dues -> DueRow] /\ tx[p].dues \in [Dues -> DueRow] /\ dues[d] \in DueRow
    BY <1>2 DEF Txs
  <2> QED
    BY <1>2, <2>1
<1>5. tx' = [tx EXCEPT ![p] = t]
  BY <1>1, <1>2 DEF Txs
<1> HIDE DEF knew, has
<1>6. /\ t \in Txs /\ t.at = "apply" /\ t.answer = a /\ t.todo = tx[p].todo
      /\ t.had = tx[p].had /\ t.now = tx[p].now
  BY <1>2, <1>3, <1>4 DEF Txs
<1> HIDE DEF t
<1>7. tx[p].at = "ask"
  BY DEF Ask, At
<1>8. WorkOf(t)
  BY <1>2, <1>6, <1>7, RestWork DEF LinkTypeInv
<1>9. failures' \in 0 .. MaxFailures
  BY <1>1, StateTypes
<1>10. LinkTypeInv' /\ tx'[p] = t /\ \A q \in Procs \ {p} : tx'[q] = tx[q]
  BY <1>5, <1>6, <1>8, <1>9, OwnTx, StateTypes, Zenon DEF Ask, gateway, locks
<1> QED
  BY <1>1, <1>6, <1>7, <1>10, Zenon DEF Ask

LEMMA RecordTypes ==
  ASSUME NEW held \in LinkRow, NEW answer \in [status : Statuses \union {"none", "error"}, paid : Nat]
  PROVE  /\ NewMoney(held, answer) \in Nat /\ RecordedAfter(held, answer) \in Nat
         /\ RecordedAfter(held, answer) \in {held.recorded, answer.paid}
         /\ RecordedAfter(held, answer) >= held.recorded
         /\ RecordedAfter(held, answer) >= answer.paid
  BY RowTypes DEF NewMoney, RecordedAfter

Noted(held, answer) ==
  [status |-> IF answer.status = "error" THEN held.status ELSE answer.status,
   recorded |-> RecordedAfter(held, answer)]

\* What was answered is noted on the copy of the first link, and on nothing else.
LEMMA ApplyType ==
  ASSUME LinkTypeInv, NEW p \in Procs, Apply(p)
  PROVE  /\ LinkTypeInv' /\ tx[p].at = "apply" /\ tx'[p].at \in {"ask", "commit"}
         /\ tx'[p].had = tx[p].had
         /\ \E l \in In(tx[p].todo) :
              /\ IsFirst(l, tx[p].todo)
              /\ tx'[p].now = [tx[p].now EXCEPT ![l] = Noted(tx[p].now[l], tx[p].answer)]
         /\ \A q \in Procs \ {p} : tx'[q] = tx[q]
         /\ UNCHANGED <<links, gateway>>
<1>1. PICK l \in In(tx[p].todo), due \in DueRow :
        /\ IsFirst(l, tx[p].todo)
        /\ tx' = [tx EXCEPT
                ![p].at = Turn(Without(l, tx[p].todo)),
                ![p].todo = Without(l, tx[p].todo),
                ![p].answer = NoTx.answer,
                ![p].now[l] = Noted(tx[p].now[l], tx[p].answer),
                ![p].dues[DueOf[l]] = due]
        /\ linkLock' = [linkLock EXCEPT ![l] = p]
        /\ dueLock' \in {[dueLock EXCEPT ![DueOf[l]] = p], dueLock}
  <2>1. PICK l \in In(tx[p].todo) :
           LET d == DueOf[l]
               rest == Without(l, tx[p].todo)
               answer == tx[p].answer
               held == tx[p].now[l]
               due == tx[p].dues[d]
               new == NewMoney(held, answer)
               counts == new > 0 /\ due.status = "open"
           IN  /\ IsFirst(l, tx[p].todo)
               /\ linkLock' = [linkLock EXCEPT ![l] = p]
               /\ dueLock' = [dueLock EXCEPT ![d] = IF counts THEN p ELSE @]
               /\ tx' = [tx EXCEPT
                    ![p].at = Turn(rest),
                    ![p].todo = rest,
                    ![p].answer = NoTx.answer,
                    ![p].now[l] = Noted(held, answer),
                    ![p].dues[d] = IF counts THEN RecordPayment(d, due, new) ELSE due]
    BY DEF Apply, Noted
  <2> DEFINE d == DueOf[l]
             held == tx[p].now[l]
             due == tx[p].dues[d]
             new == NewMoney(held, tx[p].answer)
             counts == new > 0 /\ due.status = "open"
  <2>2. l \in Links /\ d \in Dues /\ tx[p] \in Txs /\ Owed[d] \in Nat /\ dueLock \in [Dues -> Procs \union {None}]
    BY StateTypes DEF In
  <2>3. held \in LinkRow /\ due \in DueRow /\ tx[p].answer \in [status : Statuses \union {"none", "error"}, paid : Nat]
    BY <2>2 DEF Txs
  <2>4. new \in Nat
    BY <2>3, RecordTypes
  <2>5. RecordPayment(d, due, new) \in DueRow
    BY <2>2, <2>3, <2>4, RowTypes DEF RecordPayment, DueRow
  <2>6. (IF counts THEN RecordPayment(d, due, new) ELSE due) \in DueRow
    BY <2>3, <2>5
  <2>7. dueLock' \in {[dueLock EXCEPT ![d] = p], dueLock}
    BY <2>1, <2>2
  <2> QED
    BY <2>1, <2>6, <2>7, ZenonT(30)
<1>2. l \in Links /\ DueOf[l] \in Dues /\ tx[p] \in Txs /\ tx \in [Procs -> Txs]
  BY StateTypes DEF In
<1>3. /\ tx[p].now[l] \in LinkRow /\ tx[p].answer \in [status : Statuses \union {"none", "error"}, paid : Nat]
      /\ tx[p].now \in [Links -> LinkRow] /\ tx[p].dues \in [Dues -> DueRow] /\ tx[p].todo \in Orders
      /\ NoTx.answer \in [status : Statuses \union {"none", "error"}, paid : Nat]
  BY <1>2, IdleType DEF Txs
<1> DEFINE rest == Without(l, tx[p].todo)
           held == Noted(tx[p].now[l], tx[p].answer)
           copies == [tx[p].now EXCEPT ![l] = held]
           has == [tx[p].dues EXCEPT ![DueOf[l]] = due]
           t == [tx[p] EXCEPT !.at = Turn(rest), !.todo = rest, !.answer = NoTx.answer,
                              !.now = copies, !.dues = has]
<1>4. held \in LinkRow
  BY <1>3, RecordTypes, RowTypes DEF Noted, LinkRow
<1>5. rest \in SUBSET tx[p].todo /\ rest \in Orders /\ Turn(rest) \in {"ask", "commit"}
  BY <1>3, WithoutFacts, TurnTypes
<1> HIDE DEF rest, held
<1>6. copies \in [Links -> LinkRow] /\ has \in [Dues -> DueRow]
  BY <1>2, <1>3, <1>4
<1>7. tx' = [tx EXCEPT ![p] = t]
  BY <1>1, <1>2 DEF Txs, rest, held
<1>8. copies[l] = held /\ \A k \in Links \ {l} : copies[k] = tx[p].now[k]
  BY <1>2, <1>3
<1> HIDE DEF copies, has
<1>9. /\ t \in Txs /\ t.at = Turn(rest) /\ t.todo = rest
      /\ t.had = tx[p].had /\ t.now = copies
  BY <1>2, <1>3, <1>5, <1>6 DEF Txs
<1> HIDE DEF t
<1>10. tx[p].at = "apply"
  BY DEF Apply, At
<1>11. WorkOf(t)
  <2>1. WorkOf(tx[p])
    BY DEF LinkTypeInv
  <2>2. tx[p].had[l].status # "none"
    BY <1>10, <2>1 DEF WorkOf
  <2>3. t.at \in {"ask", "apply", "commit"} /\ t.todo \in SUBSET tx[p].todo
    BY <1>5, <1>9
  <2> QED
    BY <1>2, <1>8, <1>9, <1>10, <2>1, <2>2, <2>3, RestWork
<1>12. linkLock' \in [Links -> Procs \union {None}] /\ dueLock' \in [Dues -> Procs \union {None}]
  BY <1>1, <1>2, StateTypes
<1>13. LinkTypeInv' /\ tx'[p] = t /\ \A q \in Procs \ {p} : tx'[q] = tx[q]
  BY <1>7, <1>9, <1>11, <1>12, OwnTx, StateTypes DEF Apply, gateway
<1> QED
  BY <1>1, <1>5, <1>9, <1>10, <1>13, Zenon DEF Apply, copies, held

LEMMA OutstandingTypes ==
  ASSUME LinkTypeInv, NEW d \in Dues, NEW due \in DueRow
  PROVE  Outstanding(d, due) \in Nat
  BY StateTypes, RowTypes DEF Outstanding

\* The gateway makes the link; the row is new.
LEMMA CreateType ==
  ASSUME LinkTypeInv, NEW p \in Procs, CreateLink(p)
  PROVE  /\ LinkTypeInv' /\ tx[p].at = "send" /\ tx'[p].at = "commit" /\ tx'[p].had = tx[p].had
         /\ \E l \in In(tx[p].todo), n \in Nat :
              /\ price' = [price EXCEPT ![l] = n]
              /\ Outstanding(DueOf[l], tx[p].knew[DueOf[l]]) > 0 => n > 0
              /\ tx'[p].now = [tx[p].now EXCEPT ![l] = [tx[p].now[l] EXCEPT !.status = "created"]]
         /\ \A q \in Procs \ {p} : tx'[q] = tx[q]
         /\ UNCHANGED <<links, paid, dead>>
<1>1. PICK l \in In(tx[p].todo) :
        /\ \E n \in Asks(Outstanding(DueOf[l], tx[p].knew[DueOf[l]])) : price' = [price EXCEPT ![l] = n]
        /\ tx' = [tx EXCEPT ![p].at = "commit", ![p].todo = {}, ![p].now[l].status = "created"]
  BY DEF CreateLink
<1>2. PICK n \in Asks(Outstanding(DueOf[l], tx[p].knew[DueOf[l]])) : price' = [price EXCEPT ![l] = n]
  BY <1>1
<1>3. l \in Links /\ DueOf[l] \in Dues /\ tx[p] \in Txs /\ tx \in [Procs -> Txs] /\ price \in [Links -> Nat]
      /\ Advance \in Nat
  BY StateTypes DEF In
<1>4. /\ tx[p].now[l] \in LinkRow /\ tx[p].now \in [Links -> LinkRow] /\ tx[p].knew[DueOf[l]] \in DueRow
  BY <1>3 DEF Txs
<1> DEFINE owed == Outstanding(DueOf[l], tx[p].knew[DueOf[l]])
           held == [tx[p].now[l] EXCEPT !.status = "created"]
           copies == [tx[p].now EXCEPT ![l] = held]
           t == [tx[p] EXCEPT !.at = "commit", !.todo = {}, !.now = copies]
<1>5. owed \in Nat
  BY <1>3, <1>4, OutstandingTypes
<1>6. n \in Nat /\ (owed > 0 => n > 0)
  BY <1>2, <1>5 DEF Asks
<1> HIDE DEF owed
<1>7. held \in LinkRow /\ held.status = "created"
  BY <1>4 DEF LinkRow, Statuses, OpenStatuses
<1>8. tx' = [tx EXCEPT ![p] = t]
  BY <1>1, <1>3, <1>4 DEF Txs
<1>9. price' = [price EXCEPT ![l] = n] /\ price' \in [Links -> Nat]
  BY <1>2, <1>3, <1>6
<1> HIDE DEF held
<1>10. copies \in [Links -> LinkRow] /\ copies[l] = held /\ \A k \in Links \ {l} : copies[k] = tx[p].now[k]
  BY <1>3, <1>4, <1>7
<1> HIDE DEF copies
<1>11. {} \in Orders /\ OneWay({}) /\ In({}) = {}
  BY OrderFacts
<1>12. /\ t \in Txs /\ t.at = "commit" /\ t.todo = {} /\ t.had = tx[p].had /\ t.now = copies
  BY <1>3, <1>10, <1>11 DEF Txs
<1> HIDE DEF t
<1>13. tx[p].at = "send"
  BY DEF CreateLink, At
<1>14. WorkOf(t)
  <2>1. \A k \in Links : ~Born(tx[p], k)
    BY <1>13 DEF LinkTypeInv, WorkOf
  <2>2. \A k \in Links : Born(t, k) => k = l
    BY <1>10, <1>12, <2>1 DEF Born
  <2> QED
    BY <1>11, <1>12, <2>2 DEF WorkOf
<1>15. LinkTypeInv' /\ tx'[p] = t /\ \A q \in Procs \ {p} : tx'[q] = tx[q]
  BY <1>8, <1>9, <1>12, <1>14, OwnTx, StateTypes DEF CreateLink, locks
<1> QED
  BY <1>6, <1>9, <1>12, <1>13, <1>15 DEF CreateLink, copies, held, owed

LEMMA EndTypes ==
  ASSUME LinkTypeInv, NEW p \in Procs, End(p)
  PROVE  /\ tx' = [tx EXCEPT ![p] = NoTx] /\ NoTx \in Txs /\ WorkOf(NoTx)
         /\ linkLock' \in [Links -> Procs \union {None}] /\ dueLock' \in [Dues -> Procs \union {None}]
<1>1. WorkOf(NoTx)
  BY IdleFields DEF WorkOf, OneWay, Born, NoLink
<1> QED
  BY <1>1, IdleType, StateTypes DEF End, Unlock

\* The order stays an order.
LEMMA RotaAfterOrder ==
  ASSUME LinkTypeInv, NEW p \in Procs, NEW born \in SUBSET Links, \A k, l \in born : k = l
  PROVE  RotaAfter(p, born) \in Orders /\ OneWay(RotaAfter(p, born))
<1> DEFINE old == In(rota) \ born
           checked == {l \in old : linkLock[l] = p}
           among(S) == {x \in rota : x[1] \in S /\ x[2] \in S}
           first == born \X (born \union old)
           last == (old \ checked) \X checked
           after == first \union last \union among(old \ checked) \union among(checked)
<1>1. old \subseteq Links /\ rota \subseteq Links \X Links /\ old \intersect born = {}
  BY StateTypes DEF In, Orders
<1>2. checked \subseteq old
  OBVIOUS
<1> HIDE DEF old, checked
<1>3. after \in Orders
  BY <1>1, <1>2 DEF Orders
<1>4. \A x \in after : x = <<x[1], x[2]>> /\ x \in Links \X Links
  BY <1>3 DEF Orders
<1>5. ASSUME NEW a \in Links, NEW b \in Links, <<a, b>> \in after, <<b, a>> \in after
      PROVE  a = b
  <2>1. CASE <<a, b>> \in first
    <3>1. a \in born
      BY <2>1
    <3>2. <<b, a>> \in first
      BY <1>1, <1>2, <1>5, <3>1
    <3> QED
      BY <3>1, <3>2
  <2>2. CASE <<b, a>> \in first
    <3>1. b \in born
      BY <2>2
    <3>2. <<a, b>> \in first
      BY <1>1, <1>2, <1>5, <3>1
    <3> QED
      BY <3>1, <3>2
  <2>3. CASE <<a, b>> \in last /\ <<b, a>> \notin first
    BY <1>5, <2>3
  <2>4. CASE <<b, a>> \in last /\ <<a, b>> \notin first
    BY <1>5, <2>4
  <2>5. CASE /\ <<a, b>> \notin first /\ <<b, a>> \notin first
             /\ <<a, b>> \notin last /\ <<b, a>> \notin last
    <3>1. <<a, b>> \in rota /\ <<b, a>> \in rota
      BY <1>5, <2>5
    <3>2. OneWay(rota)
      BY StateTypes
    <3> QED
      BY <3>1, <3>2 DEF OneWay
  <2> QED
    BY <2>1, <2>2, <2>3, <2>4, <2>5
<1>6. OneWay(after)
  <2> SUFFICES ASSUME NEW x \in after, <<x[2], x[1]>> \in after PROVE x[1] = x[2]
    BY DEF OneWay
  <2>1. x = <<x[1], x[2]>> /\ x[1] \in Links /\ x[2] \in Links
    BY <1>4
  <2> HIDE DEF after
  <2> QED
    BY <1>5, <2>1
<1> QED
  BY <1>3, <1>6 DEF RotaAfter, old, checked

LEMMA CommitType ==
  ASSUME LinkTypeInv, NEW p \in Procs, CommitTx(p)
  PROVE  /\ LinkTypeInv' /\ tx[p].at = "commit" /\ tx'[p] = NoTx
         /\ \A l \in Links :
              /\ links'[l].status \in {links[l].status, tx[p].now[l].status}
              /\ tx[p].now[l].status # tx[p].had[l].status => links'[l].status = tx[p].now[l].status
              /\ tx[p].now[l].status = tx[p].had[l].status => links'[l].status = links[l].status
              /\ tx[p].now[l].recorded # tx[p].had[l].recorded => links'[l].recorded = tx[p].now[l].recorded
              /\ tx[p].now[l].recorded = tx[p].had[l].recorded => links'[l].recorded = links[l].recorded
         /\ \A q \in Procs \ {p} : tx'[q] = tx[q]
         /\ UNCHANGED gateway
<1> DEFINE t == tx[p]
           born == {l \in Links : t.had[l].status = "none" /\ t.now[l].status # "none"}
<1>1. /\ links' = [l \in Links |-> Written(links[l], t.had[l], t.now[l])]
      /\ dues' = [d \in Dues |-> Written(dues[d], t.knew[d], t.dues[d])]
      /\ rota' = RotaAfter(p, born)
      /\ cash' = [d \in Dues |-> IF d = t.on THEN cash[d] + t.takes ELSE cash[d]]
      /\ End(p) /\ UNCHANGED <<connected, gateway, requests, failures>>
      /\ t.at = "commit"
  BY DEF CommitTx, At
<1>2. t \in Txs /\ links \in [Links -> LinkRow] /\ dues \in [Dues -> DueRow] /\ WorkOf(t)
  BY StateTypes DEF LinkTypeInv
<1>3. ASSUME NEW l \in Links
      PROVE  /\ links'[l] \in LinkRow
             /\ links'[l].status = IF t.now[l].status # t.had[l].status THEN t.now[l].status ELSE links[l].status
             /\ links'[l].recorded = IF t.now[l].recorded # t.had[l].recorded THEN t.now[l].recorded
                                                                               ELSE links[l].recorded
  <2>1. links[l] \in LinkRow /\ t.had[l] \in LinkRow /\ t.now[l] \in LinkRow
    BY <1>2 DEF Txs
  <2>2. links'[l] = Written(links[l], t.had[l], t.now[l])
    BY <1>1
  <2> QED
    BY <2>1, <2>2 DEF Written, LinkRow
<1>4. links' \in [Links -> LinkRow]
  BY <1>1, <1>3
<1>5. ASSUME NEW d \in Dues
      PROVE  Written(dues[d], t.knew[d], t.dues[d]) \in DueRow
  <2>1. dues[d] \in DueRow /\ t.knew[d] \in DueRow /\ t.dues[d] \in DueRow
    BY <1>2 DEF Txs
  <2> QED
    BY <2>1 DEF Written, DueRow
<1>6. dues' \in [Dues -> DueRow]
  BY <1>1, <1>5
<1>7. cash' \in [Dues -> Nat]
  BY <1>1, <1>2, StateTypes DEF Txs
<1>8. rota' \in Orders /\ OneWay(rota')
  <2>1. \A k, l \in born : k = l
    BY <1>2 DEF WorkOf, Born
  <2> QED
    BY <1>1, <2>1, RotaAfterOrder
<1>9. LinkTypeInv' /\ tx'[p] = NoTx /\ \A q \in Procs \ {p} : tx'[q] = tx[q]
  BY <1>1, <1>4, <1>6, <1>7, <1>8, EndTypes, OwnTx, StateTypes DEF gateway
<1> HIDE DEF born
<1> QED
  BY <1>1, <1>3, <1>9

LEMMA AbortType ==
  ASSUME LinkTypeInv, NEW p \in Procs, Abort(p)
  PROVE  /\ LinkTypeInv' /\ tx'[p] = NoTx /\ \A q \in Procs \ {p} : tx'[q] = tx[q]
         /\ UNCHANGED <<links, gateway>>
<1>1. failures' \in 0 .. MaxFailures
  BY StateTypes DEF Abort
<1>2. End(p)
  BY DEF Abort
<1>3. LinkTypeInv' /\ tx'[p] = NoTx /\ \A q \in Procs \ {p} : tx'[q] = tx[q]
  BY <1>1, <1>2, EndTypes, OwnTx, StateTypes DEF Abort, gateway
<1> QED
  BY <1>3 DEF Abort

\* What the gateway and the customer do touches no transaction.
LEMMA OutsideType ==
  ASSUME LinkTypeInv, UNCHANGED <<links, dues, rota, price, cash, tx, locks, requests, failures>>,
         connected' \subseteq Dues, dead' \subseteq Links, paid' \in [Links -> Nat]
  PROVE  LinkTypeInv'
<1>1. LinkTypeOK'
  BY DEF LinkTypeInv, LinkTypeOK, locks
<1>2. \A p \in Procs : WorkOf(tx'[p])
  BY DEF LinkTypeInv
<1> QED
  BY <1>1, <1>2 DEF LinkTypeInv

LEMMA GatewayTypes ==
  /\ \A l \in Links : LinkTypeInv /\ Pay(l) => LinkTypeInv'
  /\ \A l \in Links : LinkTypeInv /\ LinkExpires(l) => LinkTypeInv'
  /\ \A d \in Dues : LinkTypeInv /\ Connect(d) => LinkTypeInv'
<1>1. ASSUME NEW l \in Links, LinkTypeInv, Pay(l) PROVE LinkTypeInv'
  <2>1. paid' \in [Links -> Nat]
    BY <1>1, StateTypes DEF Pay
  <2> QED
    BY <1>1, <2>1, OutsideType, StateTypes DEF Pay
<1>2. ASSUME NEW l \in Links, LinkTypeInv, LinkExpires(l) PROVE LinkTypeInv'
  BY <1>2, OutsideType, StateTypes DEF LinkExpires
<1>3. ASSUME NEW d \in Dues, LinkTypeInv, Connect(d) PROVE LinkTypeInv'
  BY <1>3, OutsideType, StateTypes DEF Connect, gateway
<1> QED
  BY <1>1, <1>2, <1>3

LEMMA StutterTypes == LinkTypeInv /\ UNCHANGED linkVars => LinkTypeInv'
<1> SUFFICES ASSUME LinkTypeInv, UNCHANGED linkVars PROVE LinkTypeInv'
  OBVIOUS
<1> QED
  BY OutsideType, StateTypes DEF linkVars, gateway, locks

LEMMA StepTypes == LinkTypeInv /\ [LinkNext]_linkVars => LinkTypeInv'
<1> SUFFICES ASSUME LinkTypeInv, [LinkNext]_linkVars PROVE LinkTypeInv'
  OBVIOUS
<1>1. CASE \E l \in Links : Pay(l) \/ LinkExpires(l)
  BY <1>1, GatewayTypes
<1>2. CASE \E d \in Dues : Connect(d)
  BY <1>2, GatewayTypes
<1>3. CASE Sweep
  BY <1>3, SweepType
<1>4. CASE PassOver
  BY <1>4, PassOverType
<1>5. ASSUME NEW p \in Procs, Goes(p) \/ Abort(p) PROVE LinkTypeInv'
  BY <1>5, AskType, ApplyType, CreateType, CommitType, AbortType DEF Goes
<1>6. ASSUME NEW p \in Desk, NEW l \in Links, Send(p, l) \/ Check(p, l) PROVE LinkTypeInv'
  BY <1>6, SendType, CheckType DEF Procs
<1>7. ASSUME NEW p \in Desk, NEW d \in Dues, PaidInChat(p, d) PROVE LinkTypeInv'
  <2>1. Outstanding(d, dues[d]) \in Nat
    BY OutstandingTypes, StateTypes
  <2> QED
    BY <1>7, <2>1, ReceiptType DEF PaidInChat, Procs
<1>8. ASSUME NEW p \in Desk, NEW d \in Dues, NEW n \in 1 .. Owed[d], Receipt(p, d, n) PROVE LinkTypeInv'
  <2>1. n \in Nat
    BY StateTypes
  <2> QED
    BY <1>8, <2>1, ReceiptType DEF Procs
<1>9. ASSUME NEW p \in Desk, NEW d \in Dues, NEW outcome \in {"met", "closed"}, Resolve(p, d, outcome)
      PROVE  LinkTypeInv'
  BY <1>9, ResolveType DEF Procs
<1>10. CASE UNCHANGED linkVars
  BY <1>10, StutterTypes
<1> QED
  BY <1>1, <1>2, <1>3, <1>4, <1>5, <1>6, <1>7, <1>8, <1>9, <1>10 DEF LinkNext

\* The variables have their types, the order of the links stays an order whatever is checked
\* and committed, and a transaction asks only about links that there are.
THEOREM LinkTypesAreKept == LinkSpec => []LinkTypeOK
<1>1. LinkInit => LinkTypeInv
  BY InitTypes
<1>2. LinkTypeInv /\ [LinkNext]_linkVars => LinkTypeInv'
  BY StepTypes
<1>3. LinkTypeInv => LinkTypeOK
  BY DEF LinkTypeInv
<1> QED
  BY <1>1, <1>2, <1>3, PTL DEF LinkSpec

-----------------------------------------------------------------------------
(* Money.                                                                  *)

LEMMA InitBooks == LinkInit => BooksInv
<1> SUFFICES ASSUME LinkInit PROVE BooksInv
  OBVIOUS
<1>1. GatewayInv
  BY DEF LinkInit, GatewayInv
<1>2. \A l \in Links : Books(l, NoLink)
  BY DEF Books, NoLink
<1>3. \A l \in Links : Books(l, links[l])
  BY <1>2 DEF LinkInit
<1>4. ASSUME NEW p \in Procs
      PROVE  /\ \A l \in Links : Books(l, tx[p].had[l]) /\ Books(l, tx[p].now[l])
             /\ SendOf(p) /\ AnswerOf(tx[p]) /\ KeptOf(tx[p])
  <2>1. tx[p] = NoTx
    BY DEF LinkInit
  <2> QED
    BY <1>2, <2>1, IdleFields DEF SendOf, AnswerOf, KeptOf, NoLink
<1> QED
  BY <1>1, <1>3, <1>4 DEF BooksInv

\* A step of one transaction that leaves the rows and the gateway alone.
LEMMA BooksOwn ==
  ASSUME BooksInv, NEW p \in Procs, UNCHANGED <<links, gateway>>,
         \A q \in Procs \ {p} : tx'[q] = tx[q],
         \A l \in Links : Books(l, tx'[p].had[l]) /\ Books(l, tx'[p].now[l]),
         AnswerOf(tx'[p]), KeptOf(tx'[p]), SendOf(p)',
         tx'[p].at = "send" =>
            \A q \in Procs \ {p} : tx[q].at = "send" => \A l \in In(tx'[p].todo) : l \notin In(tx[q].todo)
  PROVE  BooksInv'
<1>1. UNCHANGED <<links, price, paid, dead>>
  BY DEF gateway
<1>2. GatewayInv' /\ \A l \in Links : Books(l, links[l])'
  BY <1>1 DEF BooksInv, GatewayInv, Books
<1>3. \A t : AnswerOf(t) = AnswerOf(t)' /\ KeptOf(t) = KeptOf(t)'
  BY <1>1 DEF AnswerOf, KeptOf
<1>4. ASSUME NEW q \in Procs
      PROVE  (/\ \A l \in Links : Books(l, tx[q].had[l]) /\ Books(l, tx[q].now[l])
              /\ SendOf(q) /\ AnswerOf(tx[q]) /\ KeptOf(tx[q]))'
  <2>1. CASE q = p
    <3>1. \A l \in Links : Books(l, tx[q].had[l])' /\ Books(l, tx[q].now[l])'
      BY <1>1, <2>1 DEF Books
    <3>2. AnswerOf(tx[q])' /\ KeptOf(tx[q])'
      BY <1>1, <2>1 DEF AnswerOf, KeptOf
    <3> QED
      BY <2>1, <3>1, <3>2
  <2>2. CASE q # p
    <3>1. tx'[q] = tx[q] /\ SendOf(q) /\ AnswerOf(tx[q]) /\ KeptOf(tx[q])
          /\ \A l \in Links : Books(l, tx[q].had[l]) /\ Books(l, tx[q].now[l])
      BY <2>2 DEF BooksInv
    <3>2. \A l \in Links : Books(l, tx[q].had[l])' /\ Books(l, tx[q].now[l])'
      BY <1>1, <3>1 DEF Books
    <3>3. AnswerOf(tx[q])' /\ KeptOf(tx[q])'
      BY <1>1, <3>1 DEF AnswerOf, KeptOf
    <3>4. SendOf(q)'
      <4> SUFFICES ASSUME tx'[q].at = "send"
          PROVE  /\ \A l \in In(tx'[q].todo) :
                      /\ price'[l] = 0
                      /\ Outstanding(DueOf[l], tx'[q].knew[DueOf[l]]) > 0
                      /\ \A r \in Procs \ {q} : tx'[r].at = "send" => l \notin In(tx'[r].todo)
                 /\ \A l \in Links : tx'[q].now[l] = NoLink
        BY DEF SendOf, In, Outstanding
      <4>1. ASSUME NEW l \in In(tx[q].todo), NEW r \in Procs \ {q}, tx'[r].at = "send"
            PROVE  l \notin In(tx'[r].todo)
        <5>1. CASE r = p
          BY <2>2, <3>1, <4>1, <5>1
        <5>2. CASE r # p
          BY <3>1, <4>1, <5>2 DEF SendOf
        <5> QED
          BY <5>1, <5>2
      <4> QED
        BY <1>1, <3>1, <4>1 DEF SendOf
    <3> QED
      BY <3>2, <3>3, <3>4
  <2> QED
    BY <2>1, <2>2
<1> QED
  BY <1>2, <1>4 DEF BooksInv

\* The end of a transaction, or one that knows of no link.
LEMMA EmptyHanded ==
  ASSUME NEW p \in Procs, tx'[p].at \in {"idle", "commit"},
         \A l \in Links : tx'[p].had[l] = NoLink /\ tx'[p].now[l] = NoLink
  PROVE  /\ \A l \in Links : Books(l, tx'[p].had[l]) /\ Books(l, tx'[p].now[l])
         /\ AnswerOf(tx'[p]) /\ KeptOf(tx'[p]) /\ SendOf(p)'
  BY DEF Books, AnswerOf, KeptOf, SendOf, NoLink

LEMMA NoLinksBooks ==
  ASSUME BooksInv, NEW p \in Procs, UNCHANGED <<links, gateway>>,
         \A q \in Procs \ {p} : tx'[q] = tx[q], tx'[p].at \in {"idle", "commit"},
         tx'[p].had = NoTx.had, tx'[p].now = NoTx.now
  PROVE  BooksInv'
<1>1. \A l \in Links : tx'[p].had[l] = NoLink /\ tx'[p].now[l] = NoLink
  BY IdleFields
<1>2. tx'[p].at # "send"
  OBVIOUS
<1> QED
  BY <1>1, <1>2, EmptyHanded, BooksOwn

LEMMA SendBooks ==
  ASSUME LinkTypeInv, BooksInv, NEW p \in Procs, NEW l \in Links, Send(p, l)
  PROVE  BooksInv'
<1>1. /\ tx'[p] = SentLinks(l) /\ \A q \in Procs \ {p} : tx'[q] = tx[q]
      /\ UNCHANGED <<links, gateway>> /\ DueOf[l] \in Dues
  BY SendType, StateTypes
<1>2. /\ SentLinks(l).at = "send" /\ SentLinks(l).todo = {<<l, l>>} /\ SentLinks(l).knew[DueOf[l]] = dues[DueOf[l]]
      /\ SentLinks(l).had = NoTx.had /\ SentLinks(l).now = NoTx.now
  <2>1. Loaded(DueOf[l]) \in Txs /\ Loaded(DueOf[l]).knew[DueOf[l]] = dues[DueOf[l]]
    BY <1>1, LoadedType
  <2>2. Loaded(DueOf[l]).had = NoTx.had /\ Loaded(DueOf[l]).now = NoTx.now
    BY <1>1, LoadedType
  <2> QED
    BY <2>1, <2>2 DEF SentLinks, Txs
<1>3. \A k \in Links : tx'[p].had[k] = NoLink /\ tx'[p].now[k] = NoLink
  BY <1>1, <1>2, IdleFields
<1>4. In(tx'[p].todo) = {l} /\ tx'[p].at = "send"
  BY <1>1, <1>2, OrderFacts
<1>5. \A q \in Procs \ {p} : tx[q].at = "send" => l \notin In(tx[q].todo)
  BY DEF Send, At
<1>6. price[l] = 0 /\ Outstanding(DueOf[l], dues[DueOf[l]]) > 0 /\ UNCHANGED price
  BY <1>1 DEF Send, gateway
<1>7. SendOf(p)'
  <2>1. \A k \in In(tx'[p].todo) :
          /\ price'[k] = 0
          /\ Outstanding(DueOf[k], tx'[p].knew[DueOf[k]]) > 0
          /\ \A q \in Procs \ {p} : tx'[q].at = "send" => k \notin In(tx'[q].todo)
    BY <1>1, <1>2, <1>4, <1>5, <1>6
  <2> QED
    BY <1>3, <2>1 DEF SendOf, In, Outstanding
<1>8. /\ \A k \in Links : Books(k, tx'[p].had[k]) /\ Books(k, tx'[p].now[k])
      /\ AnswerOf(tx'[p]) /\ KeptOf(tx'[p])
  BY <1>3, <1>4 DEF Books, AnswerOf, KeptOf, NoLink
<1> QED
  BY <1>1, <1>4, <1>5, <1>7, <1>8, BooksOwn

\* Rows are loaded as they are.
LEMMA LoadBooks ==
  ASSUME LinkTypeInv, BooksInv, NEW p \in Procs, tx'[p].at = "ask", UNCHANGED <<links, gateway>>,
         \A q \in Procs \ {p} : tx'[q] = tx[q],
         \A l \in Links : tx'[p].had[l] \in {links[l], NoLink} /\ tx'[p].now[l] = tx'[p].had[l]
  PROVE  BooksInv'
<1>1. \A l \in Links : Books(l, links[l]) /\ Books(l, NoLink)
  BY DEF BooksInv, Books, NoLink
<1>2. \A l \in Links : Books(l, tx'[p].had[l]) /\ Books(l, tx'[p].now[l])
  BY <1>1
<1>3. AnswerOf(tx'[p]) /\ SendOf(p)' /\ KeptOf(tx'[p])
  BY DEF AnswerOf, SendOf, KeptOf, NoLink
<1>4. tx'[p].at # "send"
  OBVIOUS
<1> QED
  BY <1>2, <1>3, <1>4, BooksOwn

LEMMA CheckBooks ==
  ASSUME LinkTypeInv, BooksInv, NEW p \in Procs, NEW l \in Links, Check(p, l)
  PROVE  BooksInv'
<1>1. /\ tx'[p] = Checked(l) /\ \A q \in Procs \ {p} : tx'[q] = tx[q] /\ Loaded(DueOf[l]) \in Txs
      /\ UNCHANGED <<links, gateway>>
  BY CheckType, LoadedType, StateTypes
<1>a. Loaded(DueOf[l]) \in Txs
  BY LoadedType, StateTypes
<1>2. /\ tx'[p].at = "ask" /\ tx'[p].had = [NoTx.had EXCEPT ![l] = links[l]]
      /\ tx'[p].now = [NoTx.now EXCEPT ![l] = links[l]]
  BY <1>1, <1>a DEF Checked, Txs
<1>3. NoTx.had \in [Links -> LinkRow] /\ NoTx.now \in [Links -> LinkRow]
  BY IdleType DEF Txs
<1>4. \A k \in Links : tx'[p].had[k] = (IF k = l THEN links[l] ELSE NoLink)
                       /\ tx'[p].now[k] = (IF k = l THEN links[l] ELSE NoLink)
  <2> TAKE k \in Links
  <2>1. NoTx.had[k] = NoLink /\ NoTx.now[k] = NoLink
    BY IdleFields
  <2> QED
    BY <1>2, <1>3, <2>1
<1>5. \A k \in Links : tx'[p].had[k] \in {links[k], NoLink} /\ tx'[p].now[k] = tx'[p].had[k]
  BY <1>4
<1> QED
  BY <1>1, <1>2, <1>5, LoadBooks

\* The gateway's answer is true of the only link that is first.
LEMMA AskBooks ==
  ASSUME LinkTypeInv, BooksInv, NEW p \in Procs, Ask(p)
  PROVE  BooksInv'
<1>1. /\ tx'[p].at = "apply" /\ tx'[p].had = tx[p].had /\ tx'[p].now = tx[p].now
      /\ tx'[p].todo = tx[p].todo /\ \A q \in Procs \ {p} : tx'[q] = tx[q]
      /\ UNCHANGED <<links, gateway>> /\ tx[p].at = "ask"
  BY AskType
<1>2. PICK l \in In(tx[p].todo) :
        /\ IsFirst(l, tx[p].todo)
        /\ tx'[p].answer \in {FetchLink(l), [status |-> "error", paid |-> 0]}
  BY AskType
<1>3. /\ \A k \in Links : Books(k, tx[p].had[k]) /\ Books(k, tx[p].now[k])
      /\ KeptOf(tx[p]) /\ OneWay(tx[p].todo) /\ GatewayInv
  BY DEF BooksInv, LinkTypeInv, WorkOf
<1>4. KeptOf(tx'[p])
  BY <1>1, <1>3 DEF KeptOf
<1>5. l \in Links
  BY DEF In
<1>6. /\ tx'[p].answer.status = "paid" => tx'[p].answer.paid = price[l] /\ paid[l] = price[l]
      /\ tx'[p].answer.status # "paid" => tx'[p].answer.paid = 0
  <2>1. CASE tx'[p].answer = FetchLink(l)
    <3>1. paid[l] \in {0, price[l]}
      BY <1>3, <1>5 DEF GatewayInv
    <3> QED
      BY <2>1, <3>1 DEF FetchLink
  <2>2. CASE tx'[p].answer = [status |-> "error", paid |-> 0]
    BY <2>2
  <2> QED
    BY <1>2, <2>1, <2>2
<1>7. AnswerOf(tx'[p])
  <2>1. \A k \in In(tx[p].todo) : IsFirst(k, tx[p].todo) => k = l
    <3> SUFFICES ASSUME NEW k \in In(tx[p].todo), IsFirst(k, tx[p].todo) PROVE k = l
      OBVIOUS
    <3>1. <<k, l>> \in tx[p].todo /\ <<l, k>> \in tx[p].todo
      BY <1>2 DEF IsFirst
    <3> QED
      BY <1>3, <3>1 DEF OneWay
  <2> QED
    BY <1>1, <1>6, <2>1 DEF AnswerOf
<1>8. SendOf(p)' /\ tx'[p].at # "send"
  BY <1>1 DEF SendOf
<1> QED
  BY <1>1, <1>3, <1>4, <1>7, <1>8, BooksOwn

LEMMA PassOverBooks ==
  ASSUME LinkTypeInv, BooksInv, PassOver
  PROVE  BooksInv'
<1>1. /\ tx'[Sync].had = tx[Sync].had /\ tx'[Sync].now = tx[Sync].now
      /\ \A q \in Procs \ {Sync} : tx'[q] = tx[q] /\ tx'[Sync].at \in {"ask", "commit"}
      /\ UNCHANGED <<links, gateway>> /\ Sync \in Procs
  BY PassOverType DEF Procs
<1>2. tx'[Sync].at \in {"ask", "commit"}
  BY PassOverType
<1>3. /\ \A k \in Links : Books(k, tx[Sync].had[k]) /\ Books(k, tx[Sync].now[k])
      /\ KeptOf(tx[Sync])
  BY <1>1 DEF BooksInv
<1>4. KeptOf(tx'[Sync])
  BY <1>1, <1>3 DEF KeptOf
<1>5. AnswerOf(tx'[Sync]) /\ SendOf(Sync)' /\ tx'[Sync].at # "send"
  BY <1>2 DEF AnswerOf, SendOf
<1> QED
  BY <1>1, <1>3, <1>4, <1>5, BooksOwn

\* What was answered is noted: all of the money, or nothing.
LEMMA ApplyBooks ==
  ASSUME LinkTypeInv, BooksInv, NEW p \in Procs, Apply(p)
  PROVE  BooksInv'
<1>1. /\ tx'[p].at \in {"ask", "commit"} /\ tx'[p].had = tx[p].had /\ tx[p].at = "apply"
      /\ \A q \in Procs \ {p} : tx'[q] = tx[q]
      /\ UNCHANGED <<links, gateway>>
  BY ApplyType
<1>2. PICK l \in In(tx[p].todo) :
        /\ IsFirst(l, tx[p].todo)
        /\ tx'[p].now = [tx[p].now EXCEPT ![l] = Noted(tx[p].now[l], tx[p].answer)]
  BY ApplyType
<1>3. /\ \A k \in Links : Books(k, tx[p].had[k]) /\ Books(k, tx[p].now[k])
      /\ KeptOf(tx[p]) /\ AnswerOf(tx[p]) /\ GatewayInv /\ WorkOf(tx[p])
  BY DEF BooksInv, LinkTypeInv
<1>4. l \in Links /\ tx[p] \in Txs
  BY StateTypes DEF In
<1> DEFINE held == tx[p].now[l]
           answer == tx[p].answer
<1>5. /\ tx[p].now \in [Links -> LinkRow] /\ held \in LinkRow /\ tx[p].had \in [Links -> LinkRow]
      /\ answer \in [status : Statuses \union {"none", "error"}, paid : Nat]
  BY <1>4 DEF Txs
<1>6. price[l] > 0 /\ price[l] \in Nat
  <2>1. tx[p].had[l].status # "none"
    BY <1>1, <1>3 DEF WorkOf
  <2> QED
    BY <1>3, <1>4, <2>1, StateTypes DEF Books
<1>7. /\ answer.status = "paid" => answer.paid = price[l] /\ paid[l] = price[l]
      /\ answer.status # "paid" => answer.paid = 0
  BY <1>1, <1>2, <1>3 DEF AnswerOf
<1>8. Noted(held, answer) = [status |-> IF answer.status = "error" THEN held.status ELSE answer.status,
                            recorded |-> RecordedAfter(held, answer)]
  BY DEF Noted
<1>9. /\ RecordedAfter(held, answer) \in Nat
      /\ RecordedAfter(held, answer) \in {held.recorded, answer.paid}
      /\ RecordedAfter(held, answer) >= held.recorded
      /\ RecordedAfter(held, answer) >= answer.paid
      /\ held.recorded \in Nat
  BY <1>5, RecordTypes, RowTypes
<1>10. Books(l, held)
  BY <1>3, <1>4
<1> HIDE DEF held, answer
<1>11. Books(l, Noted(held, answer))
  <2>1. CASE answer.status = "paid"
    BY <1>6, <1>7, <1>8, <1>9, <1>10, <2>1 DEF Books
  <2>2. CASE answer.status # "paid"
    BY <1>6, <1>7, <1>8, <1>9, <1>10, <2>2 DEF Books
  <2> QED
    BY <2>1, <2>2
<1>12. /\ tx'[p].now[l] = Noted(held, answer)
       /\ \A k \in Links \ {l} : tx'[p].now[k] = tx[p].now[k]
  BY <1>2, <1>4, <1>5 DEF held, answer
<1>13. \A k \in Links : Books(k, tx'[p].had[k]) /\ Books(k, tx'[p].now[k])
  BY <1>1, <1>3, <1>11, <1>12
<1>14. KeptOf(tx'[p])
  <2>1. held.recorded # 0 => tx'[p].now[l].recorded # 0
    BY <1>8, <1>9, <1>12
  <2> QED
    BY <1>1, <1>3, <1>12, <2>1 DEF KeptOf, held
<1>15. AnswerOf(tx'[p]) /\ SendOf(p)' /\ tx'[p].at # "send"
  BY <1>1 DEF AnswerOf, SendOf
<1> QED
  BY <1>1, <1>13, <1>14, <1>15, BooksOwn

\* A link gets its price when nobody knows of it: the copies there are of its row are all empty.
LEMMA CreateBooks ==
  ASSUME LinkTypeInv, BooksInv, NEW p \in Procs, CreateLink(p)
  PROVE  BooksInv'
<1>1. /\ tx[p].at = "send" /\ tx'[p].at = "commit" /\ tx'[p].had = tx[p].had
      /\ \A q \in Procs \ {p} : tx'[q] = tx[q]
      /\ UNCHANGED <<links, paid, dead>>
  BY CreateType
<1>2. PICK l \in In(tx[p].todo), n \in Nat :
        /\ price' = [price EXCEPT ![l] = n]
        /\ Outstanding(DueOf[l], tx[p].knew[DueOf[l]]) > 0 => n > 0
        /\ tx'[p].now = [tx[p].now EXCEPT ![l] = [tx[p].now[l] EXCEPT !.status = "created"]]
  BY CreateType
<1>3. SendOf(p) /\ GatewayInv
  BY DEF BooksInv
<1>4. /\ l \in Links /\ price[l] = 0 /\ n > 0
      /\ \A q \in Procs \ {p} : tx[q].at = "send" => l \notin In(tx[q].todo)
      /\ \A k \in Links : tx[p].now[k] = NoLink
  BY <1>1, <1>2, <1>3 DEF SendOf, In
<1>5. price' = [price EXCEPT ![l] = n] /\ price \in [Links -> Nat] /\ paid \in [Links -> Nat]
      /\ links \in [Links -> LinkRow]
  BY <1>2, StateTypes
<1>6. price'[l] = n /\ \A k \in Links \ {l} : price'[k] = price[k]
  BY <1>4, <1>5
<1>7. \A held \in LinkRow : Books(l, held) => held.status = "none" /\ held.recorded = 0
  BY <1>4, RowTypes DEF Books
<1>8. \A k \in Links : \A held \in LinkRow : Books(k, held) => Books(k, held)'
  <2> SUFFICES ASSUME NEW k \in Links, NEW held \in LinkRow, Books(k, held) PROVE Books(k, held)'
    OBVIOUS
  <2>1. CASE k = l
    BY <1>7, <2>1 DEF Books
  <2>2. CASE k # l
    BY <1>1, <1>6, <2>2 DEF Books
  <2> QED
    BY <2>1, <2>2
<1>9. GatewayInv'
  <2>1. paid[l] = 0
    BY <1>3, <1>4 DEF GatewayInv
  <2> QED
    BY <1>1, <1>3, <1>6, <2>1 DEF GatewayInv
<1>10. \A k \in Links : Books(k, links[k])'
  <2> SUFFICES ASSUME NEW k \in Links PROVE Books(k, links[k])'
    OBVIOUS
  <2>1. Books(k, links[k]) /\ links[k] \in LinkRow /\ links'[k] = links[k]
    BY <1>1, <1>5 DEF BooksInv
  <2> QED
    BY <1>8, <2>1 DEF Books
<1>11. ASSUME NEW q \in Procs \ {p}
       PROVE  (/\ \A k \in Links : Books(k, tx[q].had[k]) /\ Books(k, tx[q].now[k])
               /\ SendOf(q) /\ AnswerOf(tx[q]) /\ KeptOf(tx[q]))'
  <2>1. /\ \A k \in Links : Books(k, tx[q].had[k]) /\ Books(k, tx[q].now[k])
        /\ SendOf(q) /\ AnswerOf(tx[q]) /\ KeptOf(tx[q]) /\ WorkOf(tx[q])
    BY DEF BooksInv, LinkTypeInv
  <2>2. tx[q] \in Txs /\ tx'[q] = tx[q]
    BY <1>1, StateTypes
  <2>3. \A k \in Links : tx[q].had[k] \in LinkRow /\ tx[q].now[k] \in LinkRow
    BY <2>2 DEF Txs
  <2>4. \A k \in Links : Books(k, tx[q].had[k])' /\ Books(k, tx[q].now[k])'
    <3> TAKE k \in Links
    <3>1. Books(k, tx[q].had[k]) /\ Books(k, tx[q].now[k])
      BY <2>1
    <3> QED
      BY <1>8, <2>2, <2>3, <3>1 DEF Books
  <2>5. SendOf(q)'
    <3>1. ASSUME tx[q].at = "send", NEW k \in In(tx[q].todo)
          PROVE  /\ price'[k] = 0
                 /\ Outstanding(DueOf[k], tx'[q].knew[DueOf[k]]) > 0
                 /\ \A r \in Procs \ {q} : tx'[r].at = "send" => k \notin In(tx'[r].todo)
      <4>1. k \in Links /\ k # l
        BY <1>4, <3>1 DEF In
      <4>2. /\ price[k] = 0 /\ Outstanding(DueOf[k], tx[q].knew[DueOf[k]]) > 0
            /\ \A r \in Procs \ {q} : tx[r].at = "send" => k \notin In(tx[r].todo)
        BY <2>1, <3>1 DEF SendOf
      <4>3. \A r \in Procs \ {q} : tx'[r].at = "send" => k \notin In(tx'[r].todo)
        BY <1>1, <4>2
      <4> QED
        BY <1>6, <2>2, <4>1, <4>2, <4>3
    <3> QED
      BY <2>1, <2>2, <3>1 DEF SendOf, In, Outstanding
  <2>6. AnswerOf(tx[q])'
    <3> SUFFICES ASSUME tx[q].at = "apply", NEW k \in In(tx[q].todo), IsFirst(k, tx[q].todo)
        PROVE  /\ tx[q].answer.status = "paid" => tx[q].answer.paid = price'[k] /\ paid'[k] = price'[k]
               /\ tx[q].answer.status # "paid" => tx[q].answer.paid = 0
      BY <2>2 DEF AnswerOf, In, IsFirst
    <3>1. k \in Links /\ tx[q].had[k].status # "none"
      BY <2>1 DEF WorkOf, In
    <3>2. k # l
      BY <1>7, <2>1, <2>3, <3>1
    <3> QED
      BY <1>1, <1>6, <2>1, <3>1, <3>2 DEF AnswerOf
  <2>7. KeptOf(tx[q])'
    BY <1>1, <2>1, <2>2 DEF KeptOf
  <2> QED
    BY <2>4, <2>5, <2>6, <2>7
<1>12. (/\ \A k \in Links : Books(k, tx[p].had[k]) /\ Books(k, tx[p].now[k])
        /\ SendOf(p) /\ AnswerOf(tx[p]) /\ KeptOf(tx[p]))'
  <2>1. /\ \A k \in Links : Books(k, tx[p].had[k]) /\ tx[p].had[k] \in LinkRow
        /\ tx[p].now \in [Links -> LinkRow] /\ KeptOf(tx[p])
    BY StateTypes DEF BooksInv, Txs
  <2>2. \A k \in Links : Books(k, tx[p].had[k])'
    <3> TAKE k \in Links
    <3>1. Books(k, tx[p].had[k]) /\ tx[p].had[k] \in LinkRow
      BY <2>1
    <3> QED
      BY <1>1, <1>8, <3>1 DEF Books
  <2>3. \A k \in Links : /\ tx'[p].now[k].recorded = 0
                         /\ tx'[p].now[k].status \in {"none", "created"}
                         /\ tx'[p].now[k].status = "created" => k = l
    <3> TAKE k \in Links
    <3>1. tx[p].now[k] = NoLink /\ tx[p].now[l] = NoLink
      BY <1>4
    <3> QED
      BY <1>2, <1>4, <2>1, <3>1 DEF NoLink
  <2>4. \A k \in Links : Books(k, tx[p].now[k])'
    BY <1>4, <1>6, <2>3 DEF Books
  <2>5. KeptOf(tx[p])'
    <3>1. \A k \in Links : tx[p].had[k].recorded = 0
      BY <1>4, <2>1 DEF KeptOf, NoLink
    <3> QED
      BY <1>1, <3>1 DEF KeptOf
  <2> QED
    BY <1>1, <2>2, <2>4, <2>5 DEF SendOf, AnswerOf
<1>13. ASSUME NEW q \in Procs
       PROVE  (/\ \A k \in Links : Books(k, tx[q].had[k]) /\ Books(k, tx[q].now[k])
               /\ SendOf(q) /\ AnswerOf(tx[q]) /\ KeptOf(tx[q]))'
  BY <1>11, <1>12
<1> QED
  BY <1>9, <1>10, <1>13 DEF BooksInv

\* The columns a commit writes and those it leaves make up one true row.
LEMMA CommitBooks ==
  ASSUME LinkTypeInv, BooksInv, NEW p \in Procs, CommitTx(p)
  PROVE  BooksInv'
<1> DEFINE t == tx[p]
<1>1. /\ tx'[p] = NoTx /\ \A q \in Procs \ {p} : tx'[q] = tx[q]
      /\ UNCHANGED gateway
  BY CommitType
<1>2. \A l \in Links :
        /\ t.now[l].status # t.had[l].status => links'[l].status = t.now[l].status
        /\ t.now[l].status = t.had[l].status => links'[l].status = links[l].status
        /\ t.now[l].recorded # t.had[l].recorded => links'[l].recorded = t.now[l].recorded
        /\ t.now[l].recorded = t.had[l].recorded => links'[l].recorded = links[l].recorded
  BY CommitType
<1>3. UNCHANGED <<price, paid>> /\ price \in [Links -> Nat]
  BY <1>1, StateTypes DEF gateway
<1>4. /\ \A l \in Links : Books(l, links[l]) /\ Books(l, t.had[l]) /\ Books(l, t.now[l])
      /\ KeptOf(t)
  BY DEF BooksInv
<1>5. ASSUME NEW l \in Links PROVE Books(l, links[l])' /\ (links[l].recorded # 0 => links'[l].recorded # 0)
  <2>1. /\ Books(l, links[l]) /\ Books(l, t.had[l]) /\ Books(l, t.now[l]) /\ price[l] \in Nat
        /\ t.had[l].recorded # 0 => t.now[l].recorded # 0 /\ links[l].recorded # 0
    BY <1>3, <1>4 DEF KeptOf
  <2> HIDE DEF t
  <2>2. links'[l].status # "none" => price[l] > 0
    BY <1>2, <2>1 DEF Books
  <2>3. links[l].recorded # 0 => links'[l].recorded # 0
    BY <1>2, <2>1
  <2>4. links'[l].recorded # 0 => links'[l].recorded = price[l] /\ paid[l] = price[l]
    BY <1>2, <2>1 DEF Books
  <2>5. ASSUME links'[l].status = "paid" PROVE links'[l].recorded = price[l] /\ paid[l] = price[l]
    <3>1. price[l] > 0
      BY <2>2, <2>5
    <3>2. CASE t.now[l].status # t.had[l].status
      <4>1. t.now[l].recorded = price[l] /\ paid[l] = price[l]
        BY <1>2, <2>1, <2>5, <3>2 DEF Books
      <4>2. links'[l].recorded # 0
        BY <1>2, <2>1, <3>1, <4>1
      <4> QED
        BY <2>4, <4>2
    <3>3. CASE t.now[l].status = t.had[l].status
      <4>1. links[l].recorded = price[l]
        BY <1>2, <2>1, <2>5, <3>3 DEF Books
      <4>2. links'[l].recorded # 0
        BY <2>1, <2>3, <3>1, <4>1
      <4> QED
        BY <2>4, <4>2
    <3> QED
      BY <3>2, <3>3
  <2> QED
    BY <1>3, <2>2, <2>3, <2>4, <2>5 DEF Books
<1>6. ASSUME NEW q \in Procs
      PROVE  (/\ \A l \in Links : Books(l, tx[q].had[l]) /\ Books(l, tx[q].now[l])
              /\ SendOf(q) /\ AnswerOf(tx[q]) /\ KeptOf(tx[q]))'
  <2>1. CASE q = p
    <3>1. tx'[q] = NoTx
      BY <1>1, <2>1
    <3>2. \A l \in Links : tx'[q].had[l] = NoLink /\ tx'[q].now[l] = NoLink
      BY <3>1, IdleFields
    <3>3. tx'[q].at = "idle"
      BY <3>1, IdleFields
    <3> QED
      BY <3>2, <3>3 DEF Books, SendOf, AnswerOf, KeptOf, NoLink
  <2>2. CASE q # p
    <3>1. /\ tx'[q] = tx[q] /\ SendOf(q) /\ AnswerOf(tx[q]) /\ KeptOf(tx[q])
          /\ \A l \in Links : Books(l, tx[q].had[l]) /\ Books(l, tx[q].now[l])
      BY <1>1, <2>2 DEF BooksInv
    <3>2. \A l \in Links : Books(l, tx[q].had[l])' /\ Books(l, tx[q].now[l])'
      BY <1>3, <3>1 DEF Books
    <3>3. AnswerOf(tx[q])'
      BY <1>3, <3>1 DEF AnswerOf
    <3>4. KeptOf(tx[q])'
      BY <1>5, <3>1 DEF KeptOf
    <3>5. SendOf(q)'
      <4>1. \A r \in Procs : tx'[r].at = "send" => tx'[r] = tx[r]
        BY <1>1, IdleFields
      <4> SUFFICES ASSUME tx'[q].at = "send"
          PROVE  /\ \A l \in In(tx'[q].todo) :
                      /\ price'[l] = 0
                      /\ Outstanding(DueOf[l], tx'[q].knew[DueOf[l]]) > 0
                      /\ \A r \in Procs \ {q} : tx'[r].at = "send" => l \notin In(tx'[r].todo)
                 /\ \A l \in Links : tx'[q].now[l] = NoLink
        BY DEF SendOf, In, Outstanding
      <4> QED
        BY <1>3, <3>1, <4>1 DEF SendOf
    <3> QED
      BY <3>2, <3>3, <3>4, <3>5
  <2> QED
    BY <2>1, <2>2
<1>7. GatewayInv'
  BY <1>3 DEF GatewayInv, BooksInv
<1> QED
  BY <1>5, <1>6, <1>7 DEF BooksInv

\* The customer pays: nothing that is known was false before, or is now.
LEMMA PayBooks ==
  ASSUME LinkTypeInv, BooksInv, NEW l \in Links, Pay(l)
  PROVE  BooksInv'
<1>1. /\ paid' = [paid EXCEPT ![l] = price[l]] /\ UNCHANGED <<links, price, tx>>
      /\ paid \in [Links -> Nat]
  BY StateTypes DEF Pay
<1>2. \A k \in Links : paid'[k] \in {paid[k], price[k]}
  BY <1>1
<1>3. GatewayInv'
  BY <1>1, <1>2 DEF BooksInv, GatewayInv
<1>4. \A k \in Links : \A held : Books(k, held) => Books(k, held)'
  BY <1>1, <1>2 DEF Books
<1>5. \A k \in Links : Books(k, links[k])'
  <2> TAKE k \in Links
  <2>1. Books(k, links[k])
    BY DEF BooksInv
  <2> QED
    BY <1>1, <1>4, <2>1 DEF Books
<1>6. ASSUME NEW q \in Procs
      PROVE  (/\ \A k \in Links : Books(k, tx[q].had[k]) /\ Books(k, tx[q].now[k])
              /\ SendOf(q) /\ AnswerOf(tx[q]) /\ KeptOf(tx[q]))'
  <2>1. /\ \A k \in Links : Books(k, tx[q].had[k]) /\ Books(k, tx[q].now[k])
        /\ SendOf(q) /\ AnswerOf(tx[q]) /\ KeptOf(tx[q])
    BY DEF BooksInv
  <2>2. \A k \in Links : Books(k, tx[q].had[k])' /\ Books(k, tx[q].now[k])'
    <3> TAKE k \in Links
    <3> QED
      BY <1>1, <1>2, <2>1 DEF Books
  <2>3. SendOf(q)'
    BY <1>1, <2>1 DEF SendOf, In, Outstanding
  <2>4. AnswerOf(tx[q])'
    <3> SUFFICES ASSUME tx[q].at = "apply", NEW k \in In(tx[q].todo), IsFirst(k, tx[q].todo)
        PROVE  /\ tx[q].answer.status = "paid" => tx[q].answer.paid = price[k] /\ paid'[k] = price[k]
               /\ tx[q].answer.status # "paid" => tx[q].answer.paid = 0
      BY <1>1 DEF AnswerOf, In, IsFirst
    <3>1. k \in Links
      BY DEF In
    <3> QED
      BY <1>2, <2>1, <3>1 DEF AnswerOf
  <2>5. KeptOf(tx[q])'
    BY <1>1, <2>1 DEF KeptOf
  <2> QED
    BY <2>2, <2>3, <2>4, <2>5
<1> QED
  BY <1>3, <1>5, <1>6 DEF BooksInv

LEMMA SameBooks ==
  ASSUME BooksInv, UNCHANGED <<links, price, paid, tx>>
  PROVE  BooksInv'
<1>1. ASSUME NEW q \in Procs
      PROVE  (/\ \A k \in Links : Books(k, tx[q].had[k]) /\ Books(k, tx[q].now[k])
              /\ SendOf(q) /\ AnswerOf(tx[q]) /\ KeptOf(tx[q]))'
  <2>1. /\ \A k \in Links : Books(k, tx[q].had[k]) /\ Books(k, tx[q].now[k])
        /\ SendOf(q) /\ AnswerOf(tx[q]) /\ KeptOf(tx[q])
    BY DEF BooksInv
  <2> QED
    BY <2>1 DEF Books, SendOf, AnswerOf, KeptOf, In, Outstanding, IsFirst
<1>2. GatewayInv' /\ \A k \in Links : Books(k, links[k])'
  BY DEF BooksInv, GatewayInv, Books
<1> QED
  BY <1>1, <1>2 DEF BooksInv

LEMMA StepBooks == LinkTypeInv /\ BooksInv /\ [LinkNext]_linkVars => BooksInv'
<1> SUFFICES ASSUME LinkTypeInv, BooksInv, [LinkNext]_linkVars PROVE BooksInv'
  OBVIOUS
<1>1. ASSUME NEW l \in Links, Pay(l) \/ LinkExpires(l) PROVE BooksInv'
  BY <1>1, PayBooks, SameBooks DEF LinkExpires
<1>2. ASSUME NEW d \in Dues, Connect(d) PROVE BooksInv'
  BY <1>2, SameBooks DEF Connect, gateway
<1>3. CASE Sweep
  <2>1. Sync \in Procs
    BY DEF Procs
  <2> QED
    BY <1>3, <2>1, SweepType, LoadBooks
<1>4. CASE PassOver
  BY <1>4, PassOverBooks
<1>5. ASSUME NEW p \in Procs, Goes(p) PROVE BooksInv'
  BY <1>5, AskBooks, ApplyBooks, CreateBooks, CommitBooks DEF Goes
<1>6. ASSUME NEW p \in Procs, Abort(p) PROVE BooksInv'
  <2>1. tx'[p] = NoTx /\ (\A q \in Procs \ {p} : tx'[q] = tx[q]) /\ UNCHANGED <<links, gateway>>
    BY <1>6, AbortType
  <2>2. tx'[p].at \in {"idle", "commit"} /\ tx'[p].had = NoTx.had /\ tx'[p].now = NoTx.now
    BY <2>1, IdleFields
  <2> QED
    BY <2>1, <2>2, NoLinksBooks
<1>7. ASSUME NEW p \in Desk, NEW l \in Links, Send(p, l) \/ Check(p, l) PROVE BooksInv'
  BY <1>7, SendBooks, CheckBooks DEF Procs
<1>8. ASSUME NEW p \in Desk, NEW d \in Dues, NEW n \in Nat, Receipt(p, d, n) PROVE BooksInv'
  <2>1. p \in Procs
    BY DEF Procs
  <2>2. /\ tx'[p].at = "commit" /\ tx'[p].had = NoTx.had /\ tx'[p].now = NoTx.now
        /\ (\A q \in Procs \ {p} : tx'[q] = tx[q]) /\ UNCHANGED <<links, gateway>>
    BY <1>8, <2>1, ReceiptType
  <2> QED
    BY <2>1, <2>2, NoLinksBooks
<1>9. ASSUME NEW p \in Desk, NEW d \in Dues, PaidInChat(p, d) PROVE BooksInv'
  <2>1. Outstanding(d, dues[d]) \in Nat
    BY OutstandingTypes, StateTypes
  <2> QED
    BY <1>8, <1>9, <2>1 DEF PaidInChat
<1>10. ASSUME NEW p \in Desk, NEW d \in Dues, NEW n \in 1 .. Owed[d], Receipt(p, d, n) PROVE BooksInv'
  <2>1. n \in Nat
    BY StateTypes
  <2> QED
    BY <1>8, <1>10, <2>1
<1>11. ASSUME NEW p \in Desk, NEW d \in Dues, NEW outcome \in {"met", "closed"}, Resolve(p, d, outcome)
       PROVE  BooksInv'
  <2>1. p \in Procs
    BY DEF Procs
  <2>2. /\ tx'[p].at = "commit" /\ tx'[p].had = NoTx.had /\ tx'[p].now = NoTx.now
        /\ (\A q \in Procs \ {p} : tx'[q] = tx[q]) /\ UNCHANGED <<links, gateway>>
    BY <1>11, <2>1, ResolveType
  <2> QED
    BY <2>1, <2>2, NoLinksBooks
<1>12. CASE UNCHANGED linkVars
  BY <1>12, SameBooks DEF linkVars, gateway
<1> QED
  BY <1>1, <1>2, <1>3, <1>4, <1>5, <1>6, <1>7, <1>9, <1>10, <1>11, <1>12 DEF LinkNext

\* A row that says paid has all of its money recorded, though the two columns may have been
\* written by different transactions: what the sweep will not look at again is booked.
THEOREM PaidLinksAreBooked == LinkSpec => []PaidLinkIsBooked
<1>1. LinkInit => LinkTypeInv /\ BooksInv
  BY InitTypes, InitBooks
<1>2. LinkTypeInv /\ BooksInv /\ [LinkNext]_linkVars => (LinkTypeInv /\ BooksInv)'
  BY StepTypes, StepBooks
<1>3. BooksInv => PaidLinkIsBooked
  BY DEF BooksInv, Books, PaidLinkIsBooked
<1> QED
  BY <1>1, <1>2, <1>3, PTL DEF LinkSpec
=============================================================================
