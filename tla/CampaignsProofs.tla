-------------------------- MODULE CampaignsProofs --------------------------
(***************************************************************************)
(* Proofs about Campaigns, for any people, requests, number of steps,      *)
(* limits and faults.                                                      *)
(*                                                                         *)
(* IInv says whose messages a transaction may still send: a request those  *)
(* of people the campaign has not reached, and no two requests at once;    *)
(* the sweep those of people in the sequence, whom the campaign has        *)
(* reached.  So the two never meet at a row, and a message sent but not    *)
(* committed is that of one transaction.                                   *)
(***************************************************************************)
EXTENDS Campaigns, FiniteSetTheorems, TLAPS

LEMMA LeftType ==
  ASSUME NEW used \in SUBSET People PROVE Left(used) \in Nat
<1>1. Cardinality(used) \in Nat
  BY CampaignsAssumption, FS_Subset, FS_CardinalityType
<1> QED BY <1>1, CampaignsAssumption DEF Left

\* The parts of the types of the two transactions.
Txs == [at : {"off", "wait", "send"}, todo : SUBSET People, left : Nat,
        work : [People -> Statuses], fresh : SUBSET People]
SweepTxs == [at : {"off", "next", "send"}, stage : Stages, todo : SUBSET People, left : Nat,
             work : [People -> Statuses], fresh : SUBSET People]

LEMMA EmptyType == Ended \in Txs /\ Asleep \in SweepTxs
BY CampaignsAssumption DEF Ended, Asleep, NoWork, Txs, SweepTxs, Statuses, Stages

LEMMA TypeInit == Init => TypeOK
<1> SUFFICES ASSUME Init PROVE TypeOK
  OBVIOUS
<1>1. request \in [Requests -> Txs] /\ sweep \in SweepTxs
  BY EmptyType DEF Init
<1>2. /\ row \in [People -> [Stages -> Statuses]]
      /\ got \in [People -> [Stages -> Nat]]
      /\ days \in [People -> 0 .. DelayDays]
  BY CampaignsAssumption DEF Init, Statuses
<1>3. faults \in 0 .. MaxFaults
  BY CampaignsAssumption DEF Init
<1> QED BY <1>1, <1>2, <1>3 DEF Init, TypeOK, Txs, SweepTxs

LEMMA NotedType ==
  ASSUME NEW c \in People, NEW outcome \in Statuses
  PROVE  /\ \A tx \in Txs : Noted(tx, c, outcome) \in Txs
         /\ \A tx \in SweepTxs : Noted(tx, c, outcome) \in SweepTxs
BY DEF Noted, Txs, SweepTxs

LEMMA AfterSendingType ==
  ASSUME NEW c \in People
  PROVE  /\ \A tx \in Txs : tx.left > 0 => AfterSending(tx, c) \in Txs
         /\ \A tx \in SweepTxs : tx.left > 0 => AfterSending(tx, c) \in SweepTxs
<1>1. \A w \in [People -> Statuses] : [w EXCEPT ![c] = "sent"] \in [People -> Statuses]
  BY DEF Statuses
<1>2. \A n \in Nat : n > 0 => n - 1 \in Nat
  OBVIOUS
<1>3. ASSUME NEW tx \in Txs, tx.left > 0 PROVE AfterSending(tx, c) \in Txs
  <2>1. tx.left - 1 \in Nat /\ [tx.work EXCEPT ![c] = "sent"] \in [People -> Statuses]
    BY <1>1, <1>2, <1>3 DEF Txs
  <2>2. tx.todo \ {c} \in SUBSET People /\ tx.fresh \union {c} \in SUBSET People
    BY <1>3 DEF Txs
  <2> QED BY <1>3, <2>1, <2>2 DEF AfterSending, Txs
<1>4. ASSUME NEW tx \in SweepTxs, tx.left > 0 PROVE AfterSending(tx, c) \in SweepTxs
  <2>1. tx.left - 1 \in Nat /\ [tx.work EXCEPT ![c] = "sent"] \in [People -> Statuses]
    BY <1>1, <1>2, <1>4 DEF SweepTxs
  <2>2. tx.todo \ {c} \in SUBSET People /\ tx.fresh \union {c} \in SUBSET People
    BY <1>4 DEF SweepTxs
  <2> QED BY <1>4, <2>1, <2>2 DEF AfterSending, SweepTxs
<1> QED BY <1>3, <1>4

LEMMA StoreType ==
  ASSUME TypeOK, NEW tx, NEW slots, Store(tx, slots),
         tx.work \in [People -> Statuses], tx.fresh \in SUBSET People
  PROVE  /\ row' \in [People -> [Stages -> Statuses]]
         /\ days' \in [People -> 0 .. DelayDays]
         /\ wrote' \subseteq People /\ known' \subseteq People
BY CampaignsAssumption DEF TypeOK, Store

LEMMA DeliveredType ==
  ASSUME TypeOK, NEW c \in People, NEW k \in Stages, Delivered(c, k)
  PROVE  got' \in [People -> [Stages -> Nat]]
BY DEF TypeOK, Delivered

LEMMA TypeStep == TypeOK /\ [Next]_vars => TypeOK'
<1> SUFFICES ASSUME TypeOK, [Next]_vars PROVE TypeOK'
  OBVIOUS
<1>0. /\ \A r \in Requests : request[r] \in Txs
      /\ sweep \in SweepTxs /\ request \in [Requests -> Txs]
      /\ 0 \in Stages /\ Steps \subseteq Stages
  BY CampaignsAssumption DEF TypeOK, Txs, SweepTxs, Stages, Steps
<1>00. InSequence \subseteq People
  BY DEF InSequence, Waiting
<1>1. CASE NewDay
  <2>1. days' \in [People -> 0 .. DelayDays]
    <3>1. DelayDays \in Nat /\ days \in [People -> 0 .. DelayDays]
      BY CampaignsAssumption DEF TypeOK
    <3>2. days' = [c \in People |-> IF c \in InSequence /\ days[c] < DelayDays THEN days[c] + 1
                                    ELSE days[c]]
      BY <1>1 DEF NewDay
    <3> QED
      BY <3>1, <3>2
  <2>2. request' \in [Requests -> Txs] /\ sweep' \in SweepTxs
    <3>1. \A r \in Requests : [request[r] EXCEPT !.fresh = {}] \in Txs
      BY <1>0 DEF Txs
    <3>2. request' \in [Requests -> Txs]
      BY <1>1, <3>1 DEF NewDay
    <3>3. sweep' \in SweepTxs
      BY <1>0, <1>1 DEF NewDay, SweepTxs
    <3> QED
      BY <3>2, <3>3
  <2>3. blind' \in BOOLEAN
    BY <1>1 DEF NewDay
  <2>4. before' \subseteq People
    <3>1. Today \subseteq People
      BY DEF TypeOK, Today
    <3> QED BY <1>1, <3>1 DEF NewDay
  <2> QED BY <1>1, <2>1, <2>2, <2>3, <2>4 DEF NewDay, TypeOK, Txs, SweepTxs
<1>2. ASSUME NEW c \in People, Reply(c) PROVE TypeOK'
  BY <1>2 DEF Reply, TypeOK
<1>3. ASSUME NEW r \in Requests, SendBegins(r) PROVE TypeOK'
  <2>1. request' \in [Requests -> Txs]
    BY <1>0, <1>3, EmptyType, LeftType DEF SendBegins, Set, TypeOK, Txs
  <2>2. blind' \in BOOLEAN
    BY <1>3 DEF SendBegins
  <2> QED BY <1>3, <2>1, <2>2 DEF SendBegins, TypeOK, Txs
<1>4. ASSUME NEW r \in Requests, SendReads(r) PROVE TypeOK'
  <2>1. request' \in [Requests -> Txs]
    <3>1. PICK audience \in SUBSET People :
            Set(r, [request[r] EXCEPT !.at = "send", !.todo = audience \ Reached(0)])
      BY <1>4 DEF SendReads
    <3>2. [request[r] EXCEPT !.at = "send", !.todo = audience \ Reached(0)] \in Txs
      BY <1>0 DEF Txs
    <3> QED BY <1>0, <3>1, <3>2 DEF Set
  <2> QED BY <1>4, <2>1 DEF SendReads, TypeOK, Txs
<1>5. ASSUME NEW r \in Requests, NEW c \in People, SendOne(r, c) PROVE TypeOK'
  <2>1. request' \in [Requests -> Txs]
    <3>1. "pending" \in Statuses /\ "failed" \in Statuses
      BY DEF Statuses
    <3>2. PICK tx \in Txs : Set(r, tx)
      BY <1>0, <1>5, <3>1, NotedType, AfterSendingType DEF SendOne
    <3> QED BY <1>0, <3>2 DEF Set
  <2>2. got' \in [People -> [Stages -> Nat]]
    BY <1>0, <1>5, DeliveredType DEF SendOne, TypeOK
  <2> QED BY <1>5, <2>1, <2>2 DEF SendOne, TypeOK, Txs
<1>6. ASSUME NEW r \in Requests, SendCommits(r) PROVE TypeOK'
  <2>1. request[r].work \in [People -> Statuses] /\ request[r].fresh \in SUBSET People
    BY <1>0 DEF Txs
  <2>2. request' \in [Requests -> Txs]
    BY <1>0, <1>6, EmptyType DEF SendCommits, Set
  <2>3. status' \in {"draft", "paused", "sent"}
    BY <1>6 DEF SendCommits, EndStatus
  <2>4. /\ row' \in [People -> [Stages -> Statuses]]
        /\ days' \in [People -> 0 .. DelayDays]
        /\ wrote' \subseteq People /\ known' \subseteq People
    BY <1>6, <2>1, StoreType DEF SendCommits
  <2> QED BY <1>6, <2>2, <2>3, <2>4 DEF SendCommits, TypeOK, Txs
<1>7. ASSUME NEW r \in Requests, SendFails(r) PROVE TypeOK'
  <2>1. request' \in [Requests -> Txs]
    BY <1>0, <1>7, EmptyType DEF SendFails, Set
  <2>2. got' \in [People -> [Stages -> Nat]]
    <3>1. CASE UNCHANGED got
      BY <3>1 DEF TypeOK
    <3>2. ASSUME NEW c \in request[r].todo, Delivered(c, 0) PROVE got' \in [People -> [Stages -> Nat]]
      <4>1. c \in People
        BY <1>0 DEF Txs
      <4> QED BY <1>0, <3>2, <4>1, DeliveredType
    <3> QED BY <1>7, <3>1, <3>2 DEF SendFails
  <2>3. faults' \in 0 .. MaxFaults
    BY <1>7, CampaignsAssumption DEF SendFails, TypeOK
  <2> QED BY <1>7, <2>1, <2>2, <2>3 DEF SendFails, TypeOK, Txs
<1>8. CASE SweepBegins
  <2>1. sweep' \in SweepTxs
    BY <1>00, <1>8, EmptyType DEF SweepBegins, SweepTxs
  <2> QED BY <1>8, <2>1 DEF SweepBegins, TypeOK, SweepTxs
<1>9. ASSUME NEW k \in Steps, SweepLooks(k) PROVE TypeOK'
  <2>1. Left(known \union sweep.fresh) \in Nat
    BY <1>0, LeftType DEF TypeOK, SweepTxs
  <2>2. sweep' \in SweepTxs
    <3>1. [sweep EXCEPT !.at = "send", !.stage = k, !.left = Left(known \union sweep.fresh)] \in SweepTxs
      BY <1>0, <2>1 DEF SweepTxs
    <3>2. [c \in People |-> IF c \in DueFor(k) THEN "failed" ELSE sweep.work[c]] \in [People -> Statuses]
      BY <1>0 DEF SweepTxs, Statuses
    <3>3. [sweep EXCEPT !.todo = @ \ DueFor(k), !.work =
             [c \in People |-> IF c \in DueFor(k) THEN "failed" ELSE @[c]]] \in SweepTxs
      BY <1>0, <3>2 DEF SweepTxs
    <3> QED BY <1>9, <3>1, <3>3 DEF SweepLooks
  <2>3. blind' \in BOOLEAN
    BY <1>9 DEF SweepLooks
  <2> QED BY <1>9, <2>2, <2>3 DEF SweepLooks, TypeOK, SweepTxs
<1>10. ASSUME NEW c \in People, SweepOne(c) PROVE TypeOK'
  <2>1. sweep.stage \in Stages
    BY <1>0 DEF SweepTxs
  <2>2. sweep' \in SweepTxs
    <3>1. "skipped" \in Statuses /\ "failed" \in Statuses
      BY DEF Statuses
    <3>2. [sweep EXCEPT !.todo = @ \ {c}] \in SweepTxs
      BY <1>0 DEF SweepTxs
    <3> QED BY <1>0, <1>10, <3>1, <3>2, NotedType, AfterSendingType DEF SweepOne
  <2>3. got' \in [People -> [Stages -> Nat]]
    BY <1>10, <2>1, DeliveredType DEF SweepOne, TypeOK
  <2> QED BY <1>10, <2>2, <2>3 DEF SweepOne, TypeOK, SweepTxs
<1>11. CASE SweepTurns
  <2>1. sweep' \in SweepTxs
    BY <1>0, <1>11 DEF SweepTurns, SweepTxs
  <2> QED BY <1>11, <2>1 DEF SweepTurns, TypeOK, SweepTxs
<1>12. CASE SweepStumbles
  <2>1. sweep' \in SweepTxs
    BY <1>0, <1>12 DEF SweepStumbles, SweepTxs
  <2>2. PICK c \in DueFor(sweep.stage) : UNCHANGED got \/ Delivered(c, sweep.stage)
    BY <1>12 DEF SweepStumbles
  <2>3. c \in People /\ sweep.stage \in Stages
    BY <1>0, <2>2 DEF DueFor, SweepTxs
  <2>4. got' \in [People -> [Stages -> Nat]]
    BY <2>2, <2>3, DeliveredType DEF TypeOK
  <2>5. faults' \in 0 .. MaxFaults
    BY <1>12, CampaignsAssumption DEF SweepStumbles, TypeOK
  <2> QED BY <1>12, <2>1, <2>4, <2>5 DEF SweepStumbles, TypeOK, SweepTxs
<1>13. CASE SweepCommits
  <2>1. sweep.work \in [People -> Statuses] /\ sweep.fresh \in SUBSET People
    BY <1>0 DEF SweepTxs
  <2>2. sweep' \in SweepTxs
    BY <1>13, EmptyType DEF SweepCommits
  <2>3. /\ row' \in [People -> [Stages -> Statuses]]
        /\ days' \in [People -> 0 .. DelayDays]
        /\ wrote' \subseteq People /\ known' \subseteq People
    BY <1>13, <2>1, StoreType DEF SweepCommits
  <2> QED BY <1>13, <2>2, <2>3 DEF SweepCommits, TypeOK, SweepTxs
<1>14. CASE SweepFails
  <2>1. sweep' \in SweepTxs
    BY <1>14, EmptyType DEF SweepFails
  <2>2. faults' \in 0 .. MaxFaults
    BY <1>14, CampaignsAssumption DEF SweepFails, TypeOK
  <2> QED BY <1>14, <2>1, <2>2 DEF SweepFails, TypeOK, SweepTxs
<1>15. CASE UNCHANGED vars
  BY <1>15 DEF vars, TypeOK
<1> QED BY <1>1, <1>2, <1>3, <1>4, <1>5, <1>6, <1>7, <1>8, <1>9, <1>10, <1>11, <1>12, <1>13,
           <1>14, <1>15, Zenon DEF Next, SendStep, SweepStep

\* Every variable of a campaign always has its type.
THEOREM TypeCorrect == Spec => []TypeOK
  BY TypeInit, TypeStep, PTL DEF Spec

-----------------------------------------------------------------------------
\* A request sends to people the campaign has not reached, each once, and
\* while it does nobody else is past the campaign's lock.
RequestInv ==
  /\ \A r, s \in Requests : request[r].at = "send" /\ request[s].at = "send" => r = s
  /\ \A r \in Requests, c \in People :
       /\ request[r].at # "send" => c \notin request[r].todo /\ request[r].work[c] = "none"
       /\ c \in request[r].todo => request[r].work[c] = "none"
       /\ c \in request[r].todo \/ request[r].work[c] # "none" => row[c][0] # "sent"

\* The sweep sends to people in the sequence, each once.
SweepInv ==
  /\ sweep.at = "send" => sweep.stage \in Steps
  /\ \A c \in People :
       /\ sweep.at = "off" => c \notin sweep.todo /\ sweep.work[c] = "none"
       /\ c \in sweep.todo => sweep.work[c] = "none"
       /\ c \in sweep.todo \/ sweep.work[c] # "none" => c \in InSequence

\* Nobody has a row of a step without having been sent all before it.
ChainInv ==
  \A c \in People, k \in Steps : \A j \in 0 .. k - 1 : row[c][k] # "none" => row[c][j] = "sent"

\* c got stage k in a transaction that is still open.
Underway(c, k) ==
  \/ k = 0 /\ \E r \in Requests : request[r].work[c] = "sent"
  \/ <<c, k>> \in Waiting /\ sweep.work[c] = "sent"

\* c's row says so, or that transaction will.
Seen(c, k) == row[c][k] = "sent" \/ Underway(c, k)

Counted ==
  \A c \in People, k \in Stages : got[c][k] <= faults + IF Seen(c, k) THEN 1 ELSE 0

IInv == TypeOK /\ RequestInv /\ SweepInv /\ ChainInv /\ Counted

-----------------------------------------------------------------------------
(* The parts of the invariant, one at a time.                              *)

LEMMA StageFacts ==
  /\ 0 \in Stages /\ 0 \notin Steps /\ Steps \subseteq Stages
  /\ \A k \in Steps : k \in Nat /\ k - 1 \in Stages /\ k - 1 \in 0 .. k - 1 /\ 0 \in 0 .. k - 1
BY CampaignsAssumption DEF Stages, Steps

LEMMA WaitingFacts ==
  /\ \A c \in People, k \in Steps : <<c, k>> \in Waiting <=> row[c][k - 1] = "sent" /\ row[c][k] = "none"
  /\ \A c, k : <<c, k>> \in Waiting => c \in People /\ k \in Steps
  /\ \A c : c \in InSequence <=> \E k \in Steps : <<c, k>> \in Waiting
  /\ InSequence \subseteq People
<1>1. \A c \in People, k \in Steps : <<c, k>> \in Waiting <=> row[c][k - 1] = "sent" /\ row[c][k] = "none"
  BY DEF Waiting
<1>2. \A x \in Waiting : x[1] \in People /\ x[2] \in Steps /\ x = <<x[1], x[2]>>
  BY DEF Waiting
<1>3. \A c, k : <<c, k>> \in Waiting => c \in People /\ k \in Steps
  BY DEF Waiting
<1>4. \A c : c \in InSequence <=> \E x \in Waiting : x[1] = c
  BY DEF InSequence
<1>5. ASSUME NEW c, c \in InSequence PROVE \E k \in Steps : <<c, k>> \in Waiting
  BY <1>2, <1>4, <1>5
<1>6. ASSUME NEW c, NEW k \in Steps, <<c, k>> \in Waiting PROVE c \in InSequence
  BY <1>4, <1>6
<1> QED BY <1>1, <1>2, <1>3, <1>4, <1>5, <1>6

\* People in the sequence have been reached, and wait for one step.
LEMMA OneStep ==
  ASSUME ChainInv
  PROVE  /\ \A c \in InSequence : row[c][0] = "sent"
         /\ \A c \in People, j, k \in Steps :
              <<c, j>> \in Waiting /\ <<c, k>> \in Waiting => j = k
<1>1. ASSUME NEW c \in InSequence PROVE row[c][0] = "sent"
  <2>1. PICK k \in Steps : <<c, k>> \in Waiting
    BY WaitingFacts
  <2>2. c \in People /\ row[c][k - 1] = "sent"
    BY <2>1, WaitingFacts
  <2>3. CASE k = 1
    BY <2>2, <2>3
  <2>4. CASE k # 1
    <3>1. k - 1 \in Steps /\ 0 \in 0 .. (k - 1) - 1
      BY <2>4, CampaignsAssumption DEF Steps
    <3> QED BY <2>2, <3>1 DEF ChainInv
  <2> QED BY <2>3, <2>4
<1>2. ASSUME NEW c \in People, NEW j \in Steps, NEW k \in Steps, j < k,
             <<c, j>> \in Waiting, <<c, k>> \in Waiting
      PROVE  FALSE
  <2>1. row[c][j] = "none" /\ row[c][k - 1] = "sent"
    BY <1>2, WaitingFacts
  <2>2. j # k - 1
    BY <2>1
  <2>3. k - 1 \in Steps /\ j \in 0 .. (k - 1) - 1
    BY <1>2, <2>2, CampaignsAssumption DEF Steps
  <2> QED BY <2>1, <2>3 DEF ChainInv
<1>3. \A j, k \in Steps : j = k \/ j < k \/ k < j
  BY CampaignsAssumption DEF Steps
<1> QED BY <1>1, <1>2, <1>3

LEMMA TxTypes ==
  ASSUME TypeOK
  PROVE  request \in [Requests -> Txs] /\ sweep \in SweepTxs
BY DEF TypeOK, Txs, SweepTxs

LEMMA NotedFields ==
  ASSUME NEW tx \in Txs \union SweepTxs, NEW c \in People, NEW outcome
  PROVE  /\ Noted(tx, c, outcome).at = tx.at
         /\ Noted(tx, c, outcome).todo = tx.todo \ {c}
         /\ \A d \in People : Noted(tx, c, outcome).work[d] = IF d = c THEN outcome ELSE tx.work[d]
         /\ tx \in SweepTxs => Noted(tx, c, outcome).stage = tx.stage
BY DEF Noted, Txs, SweepTxs

LEMMA AfterSendingFields ==
  ASSUME NEW tx \in Txs \union SweepTxs, NEW c \in People
  PROVE  /\ AfterSending(tx, c).at = tx.at
         /\ AfterSending(tx, c).todo = tx.todo \ {c}
         /\ \A d \in People : AfterSending(tx, c).work[d] = IF d = c THEN "sent" ELSE tx.work[d]
         /\ tx \in SweepTxs => AfterSending(tx, c).stage = tx.stage
BY DEF AfterSending, Txs, SweepTxs

LEMMA RowsKept ==
  ASSUME UNCHANGED row
  PROVE  Waiting' = Waiting /\ InSequence' = InSequence /\ (ChainInv => ChainInv')
BY DEF Waiting, InSequence, ChainInv

\* A message more is one nobody has seen; one that is lost sight of is a fault.
LEMMA CountedStep ==
  ASSUME TypeOK, Counted,
         faults' = faults \/ faults' = faults + 1,
         \A c \in People, k \in Stages :
           \/ /\ got'[c][k] = got[c][k]
              /\ faults' = faults + 1 \/ (Seen(c, k) => Seen(c, k)')
           \/ /\ got'[c][k] = got[c][k] + 1 /\ ~ Seen(c, k)
              /\ faults' = faults + 1 \/ Seen(c, k)'
  PROVE  Counted'
<1> SUFFICES ASSUME NEW c \in People, NEW k \in Stages
             PROVE  got'[c][k] <= faults' + IF Seen(c, k)' THEN 1 ELSE 0
  BY DEF Counted
<1> DEFINE was == IF Seen(c, k) THEN 1 ELSE 0
           now == IF Seen(c, k)' THEN 1 ELSE 0
<1>1. got[c][k] <= faults + was
  BY DEF Counted
<1>2. /\ was \in {0, 1} /\ now \in {0, 1}
      /\ Seen(c, k) <=> was = 1
      /\ Seen(c, k)' <=> now = 1
  OBVIOUS
<1>3. got[c][k] \in Nat /\ faults \in Nat
  BY CampaignsAssumption DEF TypeOK
<1>4. \/ got'[c][k] = got[c][k] /\ (faults' = faults + 1 \/ (was = 1 => now = 1))
      \/ got'[c][k] = got[c][k] + 1 /\ was = 0 /\ (faults' = faults + 1 \/ now = 1)
  BY <1>2
<1> HIDE DEF was, now
<1>5. got'[c][k] <= faults' + now
  BY <1>1, <1>2, <1>3, <1>4
<1> QED BY <1>5 DEF now

LEMMA DeliveredOnce ==
  ASSUME TypeOK, NEW c \in People, NEW k \in Stages, Delivered(c, k)
  PROVE  \A d \in People, j \in Stages :
           got'[d][j] = IF d = c /\ j = k THEN got[d][j] + 1 ELSE got[d][j]
BY DEF TypeOK, Delivered

LEMMA InvInit == Init => IInv
<1> SUFFICES ASSUME Init PROVE IInv
  OBVIOUS
<1>1. TypeOK
  BY TypeInit
<1>2. \A c \in People, k \in Stages : row[c][k] = "none" /\ got[c][k] = 0
  BY DEF Init
<1>3. RequestInv /\ SweepInv
  BY DEF Init, RequestInv, SweepInv, Ended, Asleep, NoWork
<1>4. ChainInv
  BY <1>2, StageFacts DEF ChainInv
<1>5. Counted
  <2> SUFFICES ASSUME NEW c \in People, NEW k \in Stages
               PROVE  got[c][k] <= faults + IF Seen(c, k) THEN 1 ELSE 0
    BY DEF Counted
  <2>1. got[c][k] = 0 /\ faults = 0
    BY <1>2 DEF Init
  <2> QED BY <2>1
<1> QED BY <1>1, <1>3, <1>4, <1>5 DEF IInv

\* A step that stores nothing and sends nothing leaves the steps waited for alone; what it
\* does to the transactions keeps their part of the invariant.
LEMMA NewDayStep == IInv /\ NewDay => RequestInv' /\ SweepInv' /\ ChainInv' /\ Counted'
<1> SUFFICES ASSUME IInv, NewDay PROVE RequestInv' /\ SweepInv' /\ ChainInv' /\ Counted'
  OBVIOUS
<1>1. /\ Waiting' = Waiting /\ InSequence' = InSequence /\ ChainInv'
      /\ row' = row /\ got' = got /\ faults' = faults
  BY RowsKept DEF NewDay, IInv
<1>2. /\ \A r \in Requests : /\ request'[r].at = request[r].at
                             /\ request'[r].todo = request[r].todo
                             /\ request'[r].work = request[r].work
      /\ sweep'.at = sweep.at /\ sweep'.stage = sweep.stage
      /\ sweep'.todo = sweep.todo /\ sweep'.work = sweep.work
  BY DEF NewDay, IInv, TypeOK
<1>3. RequestInv'
  BY <1>1, <1>2 DEF RequestInv, IInv
<1>4. SweepInv'
  BY <1>1, <1>2 DEF SweepInv, IInv
<1>5. \A c, k : Seen(c, k) => Seen(c, k)'
  BY <1>1, <1>2 DEF Seen, Underway
<1>6. Counted'
  BY <1>1, <1>5, CountedStep DEF IInv
<1> QED BY <1>1, <1>3, <1>4, <1>6

\* A request takes a new state: everything but itself is as it was.
LEMMA RequestStep ==
  ASSUME IInv, NEW r \in Requests, NEW tx \in Txs, Set(r, tx), UNCHANGED <<row, sweep>>,
         tx.at = "send" => (request[r].at = "send" \/ CampaignIsFree),
         \A c \in People :
           /\ tx.at # "send" => c \notin tx.todo /\ tx.work[c] = "none"
           /\ c \in tx.todo => tx.work[c] = "none"
           /\ c \in tx.todo \/ tx.work[c] # "none" => row[c][0] # "sent"
  PROVE  RequestInv' /\ SweepInv' /\ ChainInv' /\ Waiting' = Waiting
<1>1. Waiting' = Waiting /\ InSequence' = InSequence /\ ChainInv'
  BY RowsKept DEF IInv
<1>2. \A s \in Requests : request'[s] = IF s = r THEN tx ELSE request[s]
  BY DEF Set, IInv, TypeOK
<1>3. SweepInv'
  BY <1>1 DEF SweepInv, IInv
<1>4. \A s \in Requests : request'[s].at = "send" /\ request'[r].at = "send" => s = r
  BY <1>2 DEF IInv, RequestInv, CampaignIsFree
<1>5. \A s, t \in Requests : request'[s].at = "send" /\ request'[t].at = "send" => s = t
  BY <1>2, <1>4 DEF IInv, RequestInv
<1>6. \A s \in Requests, c \in People :
       /\ request'[s].at # "send" => c \notin request'[s].todo /\ request'[s].work[c] = "none"
       /\ c \in request'[s].todo => request'[s].work[c] = "none"
       /\ c \in request'[s].todo \/ request'[s].work[c] # "none" => row[c][0] # "sent"
  BY <1>2 DEF IInv, RequestInv
<1>7. RequestInv'
  BY <1>5, <1>6 DEF RequestInv
<1> QED BY <1>1, <1>3, <1>7

\* A request with a message of its own still has it after a step that keeps its work.
LEMMA RequestSeen ==
  ASSUME IInv, NEW r \in Requests, NEW tx \in Txs, Set(r, tx), UNCHANGED <<row, sweep>>,
         NEW c, request[r].work[c] = "sent" => tx.work[c] = "sent", NEW k
  PROVE  Seen(c, k) => Seen(c, k)'
<1>1. \A s \in Requests : request'[s] = IF s = r THEN tx ELSE request[s]
  BY DEF Set, IInv, TypeOK
<1>2. Waiting' = Waiting
  BY RowsKept
<1> QED BY <1>1, <1>2 DEF Seen, Underway

LEMMA SendBeginsStep ==
  ASSUME IInv, NEW r \in Requests, SendBegins(r)
  PROVE  RequestInv' /\ SweepInv' /\ ChainInv' /\ Counted'
<1> DEFINE tx == [Ended EXCEPT !.at = "wait", !.left = Left(known)]
<1>1. tx \in Txs
  BY EmptyType, LeftType DEF Txs, IInv, TypeOK
<1>2. tx.at = "wait" /\ tx.todo = {} /\ \A c \in People : tx.work[c] = "none"
  BY DEF Ended, NoWork
<1>3. Set(r, tx) /\ UNCHANGED <<row, sweep, got, faults>>
  BY DEF SendBegins
<1>4. \A c \in People : request[r].work[c] = "none"
  BY DEF SendBegins, IInv, RequestInv
<1> HIDE DEF tx
<1>5. RequestInv' /\ SweepInv' /\ ChainInv'
  BY <1>1, <1>2, <1>3, RequestStep
<1>6. \A c \in People, k \in Stages : Seen(c, k) => Seen(c, k)'
  BY <1>1, <1>3, <1>4, RequestSeen
<1>7. Counted'
  BY <1>3, <1>6, CountedStep DEF IInv
<1> QED BY <1>5, <1>7

LEMMA SendReadsStep ==
  ASSUME IInv, NEW r \in Requests, SendReads(r)
  PROVE  RequestInv' /\ SweepInv' /\ ChainInv' /\ Counted'
<1>1. PICK audience \in SUBSET People :
        Set(r, [request[r] EXCEPT !.at = "send", !.todo = audience \ Reached(0)])
  BY DEF SendReads
<1> DEFINE tx == [request[r] EXCEPT !.at = "send", !.todo = audience \ Reached(0)]
<1>2. tx \in Txs
  BY TxTypes DEF IInv, Txs
<1>3. /\ tx.at = "send" /\ tx.todo = audience \ Reached(0) /\ tx.work = request[r].work
      /\ \A c \in People : request[r].work[c] = "none"
  BY DEF SendReads, IInv, RequestInv, TypeOK
<1>4. Set(r, tx) /\ UNCHANGED <<row, sweep, got, faults>> /\ CampaignIsFree
  BY <1>1 DEF SendReads
<1> HIDE DEF tx
<1>5. \A c \in People : c \in tx.todo => row[c][0] # "sent"
  BY <1>3 DEF Reached
<1>6. RequestInv' /\ SweepInv' /\ ChainInv'
  BY <1>2, <1>3, <1>4, <1>5, RequestStep
<1>7. \A c \in People, k \in Stages : Seen(c, k) => Seen(c, k)'
  BY <1>2, <1>3, <1>4, RequestSeen
<1>8. Counted'
  BY <1>4, <1>7, CountedStep DEF IInv
<1> QED BY <1>6, <1>8

\* Whom a request still has to come to has not had the campaign's message.
LEMMA NotReached ==
  ASSUME IInv, NEW r \in Requests, request[r].at = "send", NEW c \in request[r].todo
  PROVE  c \in People /\ ~ Seen(c, 0)
<1>1. c \in People
  BY TxTypes DEF IInv, Txs
<1>2. row[c][0] # "sent" /\ request[r].work[c] = "none"
  BY <1>1 DEF IInv, RequestInv
<1>3. \A s \in Requests : s # r => request[s].work[c] = "none"
  BY <1>1 DEF IInv, RequestInv
<1>4. <<c, 0>> \notin Waiting
  BY WaitingFacts, StageFacts
<1> QED BY <1>1, <1>2, <1>3, <1>4 DEF Seen, Underway

LEMMA SendOneStep ==
  ASSUME IInv, NEW r \in Requests, NEW c \in People, SendOne(r, c)
  PROVE  RequestInv' /\ SweepInv' /\ ChainInv' /\ Counted'
<1>1. /\ request[r] \in Txs /\ request[r].at = "send" /\ c \in request[r].todo
      /\ UNCHANGED <<row, sweep, faults>>
  BY TxTypes DEF SendOne, IInv
<1>2. /\ request[r].work[c] = "none"
      /\ \A d \in People : d \in request[r].todo => request[r].work[d] = "none"
      /\ \A d \in People : d \in request[r].todo \/ request[r].work[d] # "none" => row[d][0] # "sent"
  BY <1>1 DEF IInv, RequestInv
<1>3. ASSUME NEW tx \in Txs, NEW outcome, Set(r, tx), tx.at = "send",
             tx.todo = request[r].todo \ {c},
             \A d \in People : tx.work[d] = IF d = c THEN outcome ELSE request[r].work[d]
      PROVE  /\ RequestInv' /\ SweepInv' /\ ChainInv'
             /\ \A d \in People, k \in Stages : Seen(d, k) => Seen(d, k)'
             /\ outcome = "sent" => Seen(c, 0)'
  <2>1. \A d \in People :
          /\ d \in tx.todo => tx.work[d] = "none"
          /\ d \in tx.todo \/ tx.work[d] # "none" => row[d][0] # "sent"
    BY <1>1, <1>2, <1>3
  <2>2. RequestInv' /\ SweepInv' /\ ChainInv'
    BY <1>1, <1>3, <2>1, RequestStep
  <2>3. \A d \in People : request[r].work[d] = "sent" => tx.work[d] = "sent"
    BY <1>2, <1>3
  <2>4. \A d \in People, k \in Stages : Seen(d, k) => Seen(d, k)'
    BY <1>1, <1>3, <2>3, RequestSeen
  <2>5. request'[r] = tx
    BY <1>3 DEF Set, IInv, TypeOK
  <2>6. outcome = "sent" => Seen(c, 0)'
    BY <1>3, <2>5 DEF Seen, Underway
  <2> QED BY <2>2, <2>4, <2>6
<1>4. ASSUME NEW outcome \in {"pending", "failed"}, Set(r, Noted(request[r], c, outcome)), UNCHANGED got
      PROVE  RequestInv' /\ SweepInv' /\ ChainInv' /\ Counted'
  <2>1. outcome \in Statuses
    BY DEF Statuses
  <2>2. /\ RequestInv' /\ SweepInv' /\ ChainInv'
        /\ \A d \in People, k \in Stages : Seen(d, k) => Seen(d, k)'
    BY <1>1, <1>3, <1>4, <2>1, NotedType, NotedFields
  <2> QED BY <1>1, <1>4, <2>2, CountedStep DEF IInv
<1>5. ASSUME request[r].left > 0, Set(r, AfterSending(request[r], c)), Delivered(c, 0)
      PROVE  RequestInv' /\ SweepInv' /\ ChainInv' /\ Counted'
  <2>1. /\ RequestInv' /\ SweepInv' /\ ChainInv'
        /\ \A d \in People, k \in Stages : Seen(d, k) => Seen(d, k)'
        /\ Seen(c, 0)'
    BY <1>1, <1>3, <1>5, AfterSendingType, AfterSendingFields
  <2>2. ~ Seen(c, 0)
    BY <1>1, NotReached
  <2>3. \A d \in People, k \in Stages :
          got'[d][k] = IF d = c /\ k = 0 THEN got[d][k] + 1 ELSE got[d][k]
    BY <1>5, StageFacts, DeliveredOnce DEF IInv
  <2> QED BY <1>1, <2>1, <2>2, <2>3, CountedStep DEF IInv
<1> QED BY <1>4, <1>5 DEF SendOne

LEMMA SendCommitsStep ==
  ASSUME IInv, NEW r \in Requests, SendCommits(r)
  PROVE  RequestInv' /\ SweepInv' /\ ChainInv' /\ Counted'
<1> DEFINE work == request[r].work
<1>1. /\ request[r].at = "send" /\ Set(r, Ended) /\ UNCHANGED <<sweep, got, faults>>
      /\ Store(request[r], People \X {0})
  BY DEF SendCommits
<1>2. \A c \in People, k \in Stages :
        row'[c][k] = IF k = 0 /\ work[c] # "none" THEN work[c] ELSE row[c][k]
  BY <1>1 DEF Store
<1>3. \A s \in Requests : request'[s] = IF s = r THEN Ended ELSE request[s]
  BY <1>1 DEF Set, IInv, TypeOK
<1>4. \A s \in Requests : s # r =>
        /\ request[s].at # "send"
        /\ \A c \in People : c \notin request[s].todo /\ request[s].work[c] = "none"
  <2>1. \A s \in Requests : s # r => request[s].at # "send"
    BY <1>1 DEF IInv, RequestInv
  <2> QED BY <2>1 DEF IInv, RequestInv
<1>5. ASSUME NEW c \in People, work[c] # "none"
      PROVE  row[c][0] # "sent" /\ \A k \in Steps : row[c][k] = "none"
  <2>1. row[c][0] # "sent"
    BY <1>5 DEF IInv, RequestInv
  <2> QED BY <2>1, StageFacts DEF IInv, ChainInv
<1> HIDE DEF work
<1>6. \A c \in People, k \in Stages : row[c][k] = "sent" => row'[c][k] = "sent"
  <2> SUFFICES ASSUME NEW c \in People, NEW k \in Stages, row[c][k] = "sent"
               PROVE  row'[c][k] = "sent"
    OBVIOUS
  <2> QED BY <1>2, <1>5
<1>7. \A c \in People, k \in Steps : row'[c][k] = row[c][k]
  BY <1>2, StageFacts
<1>8. \A c \in People, k \in Steps : <<c, k>> \in Waiting => <<c, k>> \in Waiting'
  BY <1>6, <1>7, StageFacts DEF Waiting
<1>9. \A c : c \in InSequence => c \in InSequence'
  <2> SUFFICES ASSUME NEW c \in InSequence PROVE c \in InSequence'
    OBVIOUS
  <2>1. PICK k \in Steps : <<c, k>> \in Waiting
    BY WaitingFacts
  <2>2. <<c, k>> \in Waiting'
    BY <1>8, <2>1, WaitingFacts
  <2> QED BY <2>2 DEF InSequence
<1>10. RequestInv'
  <2>1. \A s \in Requests :
          /\ request'[s].at # "send"
          /\ \A c \in People : c \notin request'[s].todo /\ request'[s].work[c] = "none"
    BY <1>3, <1>4 DEF Ended, NoWork
  <2>2. \A s, t \in Requests : request'[s].at = "send" /\ request'[t].at = "send" => s = t
    BY <2>1
  <2>3. \A s \in Requests, c \in People :
          /\ request'[s].at # "send" => c \notin request'[s].todo /\ request'[s].work[c] = "none"
          /\ c \in request'[s].todo => request'[s].work[c] = "none"
          /\ c \in request'[s].todo \/ request'[s].work[c] # "none" => row'[c][0] # "sent"
    BY <2>1
  <2> QED BY <2>2, <2>3 DEF RequestInv
<1>11. SweepInv'
  BY <1>1, <1>9 DEF SweepInv, IInv
<1>12. ChainInv'
  <2> SUFFICES ASSUME NEW c \in People, NEW k \in Steps, NEW j \in 0 .. k - 1, row'[c][k] # "none"
               PROVE  row'[c][j] = "sent"
    BY DEF ChainInv
  <2>1. j \in Stages
    BY CampaignsAssumption DEF Stages, Steps
  <2>2. row[c][j] = "sent"
    BY <1>7 DEF IInv, ChainInv
  <2> QED BY <1>6, <2>1, <2>2
<1>13. ASSUME NEW c \in People, NEW k \in Stages, Seen(c, k) PROVE Seen(c, k)'
  <2>1. CASE row[c][k] = "sent"
    BY <1>6, <2>1 DEF Seen
  <2>2. ASSUME k = 0, NEW s \in Requests, request[s].work[c] = "sent" PROVE Seen(c, k)'
    <3>1. work[c] = "sent"
      BY <1>4, <2>2 DEF work
    <3> QED BY <1>2, <2>2, <3>1 DEF Seen
  <2>3. CASE <<c, k>> \in Waiting /\ sweep.work[c] = "sent"
    BY <1>1, <1>8, <2>3, WaitingFacts DEF Seen, Underway
  <2> QED BY <1>13, <2>1, <2>2, <2>3 DEF Seen, Underway
<1>14. Counted'
  BY <1>1, <1>13, CountedStep DEF IInv
<1> QED BY <1>10, <1>11, <1>12, <1>14

LEMMA SendFailsStep ==
  ASSUME IInv, NEW r \in Requests, SendFails(r)
  PROVE  RequestInv' /\ SweepInv' /\ ChainInv' /\ Counted'
<1>1. /\ request[r].at = "send" /\ Set(r, Ended) /\ faults' = faults + 1
      /\ UNCHANGED <<row, sweep>>
  BY DEF SendFails
<1>2. Ended.at = "off" /\ Ended.todo = {} /\ \A c \in People : Ended.work[c] = "none"
  BY DEF Ended, NoWork
<1>3. RequestInv' /\ SweepInv' /\ ChainInv'
  BY <1>1, <1>2, EmptyType, RequestStep
<1>4. ASSUME UNCHANGED got PROVE Counted'
  BY <1>1, <1>4, CountedStep DEF IInv
<1>5. ASSUME NEW c \in request[r].todo, Delivered(c, 0) PROVE Counted'
  <2>1. c \in People /\ ~ Seen(c, 0)
    BY <1>1, NotReached
  <2>2. \A d \in People, k \in Stages :
          got'[d][k] = IF d = c /\ k = 0 THEN got[d][k] + 1 ELSE got[d][k]
    BY <1>5, <2>1, StageFacts, DeliveredOnce DEF IInv
  <2> QED BY <1>1, <2>1, <2>2, CountedStep DEF IInv
<1>6. Counted'
  BY <1>4, <1>5 DEF SendFails
<1> QED BY <1>3, <1>6

\* The sweep takes a new state: everything but itself is as it was.
LEMMA SweepStepInv ==
  ASSUME IInv, UNCHANGED <<row, request>>,
         sweep'.at = "send" => sweep'.stage \in Steps,
         \A c \in People :
           /\ sweep'.at = "off" => c \notin sweep'.todo /\ sweep'.work[c] = "none"
           /\ c \in sweep'.todo => sweep'.work[c] = "none"
           /\ c \in sweep'.todo \/ sweep'.work[c] # "none" => c \in InSequence
  PROVE  RequestInv' /\ SweepInv' /\ ChainInv'
<1>1. Waiting' = Waiting /\ InSequence' = InSequence /\ ChainInv'
  BY RowsKept DEF IInv
<1>2. RequestInv'
  BY DEF RequestInv, IInv
<1>3. SweepInv'
  BY <1>1 DEF SweepInv
<1> QED BY <1>1, <1>2, <1>3

LEMMA SweepSeen ==
  ASSUME UNCHANGED <<row, request>>, NEW c, NEW k,
         sweep.work[c] = "sent" => sweep'.work[c] = "sent"
  PROVE  Seen(c, k) => Seen(c, k)'
<1>1. Waiting' = Waiting
  BY RowsKept
<1> QED BY <1>1 DEF Seen, Underway

LEMMA SweepBeginsStep ==
  ASSUME IInv, SweepBegins PROVE RequestInv' /\ SweepInv' /\ ChainInv' /\ Counted'
<1>1. UNCHANGED <<row, request, got, faults>> /\ \A c \in People : sweep.work[c] = "none"
  BY DEF SweepBegins, IInv, SweepInv
<1>2. /\ sweep'.at = "next" /\ sweep'.todo \subseteq InSequence
      /\ \A c \in People : sweep'.work[c] = "none"
  BY DEF SweepBegins, Asleep, NoWork
<1>3. RequestInv' /\ SweepInv' /\ ChainInv'
  BY <1>1, <1>2, SweepStepInv
<1>4. \A c \in People, k \in Stages : Seen(c, k) => Seen(c, k)'
  BY <1>1, SweepSeen
<1>5. Counted'
  BY <1>1, <1>4, CountedStep DEF IInv
<1> QED BY <1>3, <1>5

LEMMA SweepLooksStep ==
  ASSUME IInv, NEW k \in Steps, SweepLooks(k)
  PROVE  RequestInv' /\ SweepInv' /\ ChainInv' /\ Counted'
<1>1. UNCHANGED <<row, request, got, faults>> /\ sweep.at = "next" /\ sweep \in SweepTxs
  BY TxTypes DEF SweepLooks, IInv
<1>2. DueFor(k) \subseteq sweep.todo
  BY DEF DueFor
<1>3. \A c \in People :
        /\ c \in sweep.todo => sweep.work[c] = "none"
        /\ c \in sweep.todo \/ sweep.work[c] # "none" => c \in InSequence
  BY DEF IInv, SweepInv
<1>4. \/ /\ sweep'.at = "send" /\ sweep'.stage = k
         /\ sweep'.todo = sweep.todo /\ sweep'.work = sweep.work
      \/ /\ sweep'.at = "next" /\ sweep'.todo = sweep.todo \ DueFor(k)
         /\ \A c \in People : sweep'.work[c] = IF c \in DueFor(k) THEN "failed" ELSE sweep.work[c]
  <2>1. CASE sweep' = [sweep EXCEPT !.at = "send", !.stage = k, !.left = Left(known \union sweep.fresh)]
    <3>1. /\ sweep'.at = "send" /\ sweep'.stage = k
          /\ sweep'.todo = sweep.todo /\ sweep'.work = sweep.work
      BY <1>1, <2>1 DEF SweepTxs
    <3> QED BY <3>1
  <2>2. CASE sweep' = [sweep EXCEPT !.todo = @ \ DueFor(k), !.work =
                         [c \in People |-> IF c \in DueFor(k) THEN "failed" ELSE @[c]]]
    <3>1. /\ sweep'.at = "next" /\ sweep'.todo = sweep.todo \ DueFor(k)
          /\ sweep'.work = [c \in People |-> IF c \in DueFor(k) THEN "failed" ELSE sweep.work[c]]
      BY <1>1, <2>2 DEF SweepTxs
    <3> QED BY <3>1
  <2> QED BY <2>1, <2>2 DEF SweepLooks
<1>5. RequestInv' /\ SweepInv' /\ ChainInv'
  BY <1>1, <1>2, <1>3, <1>4, SweepStepInv
<1>6. \A c \in People : sweep.work[c] = "sent" => sweep'.work[c] = "sent"
  BY <1>2, <1>3, <1>4
<1>7. \A c \in People, j \in Stages : Seen(c, j) => Seen(c, j)'
  BY <1>1, <1>6, SweepSeen
<1>8. Counted'
  BY <1>1, <1>7, CountedStep DEF IInv
<1> QED BY <1>5, <1>8

\* Whom the sweep still has to come to has not had the step they wait for.
LEMMA NotFollowedUp ==
  ASSUME IInv, sweep.at = "send", NEW c \in DueFor(sweep.stage)
  PROVE  /\ c \in People /\ sweep.stage \in Steps /\ c \in sweep.todo
         /\ <<c, sweep.stage>> \in Waiting /\ ~ Seen(c, sweep.stage)
<1>1. c \in People /\ sweep.stage \in Steps /\ c \in sweep.todo /\ <<c, sweep.stage>> \in Waiting
  BY TxTypes DEF IInv, SweepInv, DueFor, SweepTxs
<1>2. row[c][sweep.stage] = "none" /\ sweep.work[c] = "none" /\ sweep.stage # 0
  BY <1>1, WaitingFacts, StageFacts DEF IInv, SweepInv
<1> QED BY <1>1, <1>2 DEF Seen, Underway

LEMMA SweepOneStep ==
  ASSUME IInv, NEW c \in People, SweepOne(c)
  PROVE  RequestInv' /\ SweepInv' /\ ChainInv' /\ Counted'
<1>1. /\ UNCHANGED <<row, request, faults>> /\ sweep.at = "send" /\ c \in DueFor(sweep.stage)
      /\ sweep \in SweepTxs
  BY TxTypes DEF SweepOne, IInv
<1>2. /\ sweep.stage \in Steps /\ sweep.stage \in Stages /\ c \in sweep.todo
      /\ <<c, sweep.stage>> \in Waiting /\ ~ Seen(c, sweep.stage)
  BY <1>1, NotFollowedUp, StageFacts
<1>3. \A d \in People :
        /\ d \in sweep.todo => sweep.work[d] = "none"
        /\ d \in sweep.todo \/ sweep.work[d] # "none" => d \in InSequence
  BY DEF IInv, SweepInv
<1>4. ASSUME NEW outcome, sweep'.at = "send", sweep'.stage = sweep.stage,
             sweep'.todo = sweep.todo \ {c},
             \A d \in People : sweep'.work[d] = IF d = c THEN outcome ELSE sweep.work[d]
      PROVE  /\ RequestInv' /\ SweepInv' /\ ChainInv'
             /\ \A d \in People, k \in Stages : Seen(d, k) => Seen(d, k)'
             /\ outcome = "sent" => \A k \in Stages : k = sweep.stage => Seen(c, k)'
  <2>1. RequestInv' /\ SweepInv' /\ ChainInv'
    BY <1>1, <1>2, <1>3, <1>4, SweepStepInv
  <2>2. \A d \in People : sweep.work[d] = "sent" => sweep'.work[d] = "sent"
    BY <1>2, <1>3, <1>4
  <2>3. \A d \in People, k \in Stages : Seen(d, k) => Seen(d, k)'
    BY <1>1, <2>2, SweepSeen
  <2>4. Waiting' = Waiting
    BY <1>1, RowsKept
  <2>5. ASSUME outcome = "sent", NEW k \in Stages, k = sweep.stage PROVE Seen(c, k)'
    BY <1>2, <1>4, <2>4, <2>5 DEF Seen, Underway
  <2> QED BY <2>1, <2>3, <2>5
<1>5. ASSUME UNCHANGED got,
             \/ sweep' = [sweep EXCEPT !.todo = @ \ {c}]
             \/ \E outcome \in {"skipped", "failed"} : sweep' = Noted(sweep, c, outcome)
      PROVE  RequestInv' /\ SweepInv' /\ ChainInv' /\ Counted'
  <2>1. \E outcome : /\ sweep'.at = "send" /\ sweep'.stage = sweep.stage
                     /\ sweep'.todo = sweep.todo \ {c}
                     /\ \A d \in People : sweep'.work[d] = IF d = c THEN outcome ELSE sweep.work[d]
    <3>1. CASE sweep' = [sweep EXCEPT !.todo = @ \ {c}]
      <4>1. /\ sweep'.at = "send" /\ sweep'.stage = sweep.stage
            /\ sweep'.todo = sweep.todo \ {c} /\ sweep'.work = sweep.work
        BY <1>1, <3>1 DEF SweepTxs
      <4>2. \A d \in People : sweep'.work[d] = IF d = c THEN sweep.work[c] ELSE sweep.work[d]
        BY <4>1
      <4> QED BY <4>1, <4>2
    <3>2. CASE \E outcome \in {"skipped", "failed"} : sweep' = Noted(sweep, c, outcome)
      BY <1>1, <3>2, NotedFields
    <3> QED BY <1>5, <3>1, <3>2
  <2>2. /\ RequestInv' /\ SweepInv' /\ ChainInv'
        /\ \A d \in People, k \in Stages : Seen(d, k) => Seen(d, k)'
    BY <1>4, <2>1
  <2> QED BY <1>1, <1>5, <2>2, CountedStep DEF IInv
<1>6. ASSUME sweep' = AfterSending(sweep, c), Delivered(c, sweep.stage)
      PROVE  RequestInv' /\ SweepInv' /\ ChainInv' /\ Counted'
  <2>1. /\ RequestInv' /\ SweepInv' /\ ChainInv'
        /\ \A d \in People, k \in Stages : Seen(d, k) => Seen(d, k)'
        /\ \A k \in Stages : k = sweep.stage => Seen(c, k)'
    BY <1>1, <1>4, <1>6, AfterSendingFields
  <2>2. \A d \in People, k \in Stages :
          got'[d][k] = IF d = c /\ k = sweep.stage THEN got[d][k] + 1 ELSE got[d][k]
    BY <1>2, <1>6, DeliveredOnce DEF IInv
  <2>3. ASSUME NEW d \in People, NEW k \in Stages
        PROVE  \/ got'[d][k] = got[d][k] /\ (Seen(d, k) => Seen(d, k)')
               \/ got'[d][k] = got[d][k] + 1 /\ ~ Seen(d, k) /\ Seen(d, k)'
    <3>1. CASE d = c /\ k = sweep.stage
      BY <1>2, <2>1, <2>2, <3>1
    <3>2. CASE ~ (d = c /\ k = sweep.stage)
      BY <2>1, <2>2, <3>2
    <3> QED BY <3>1, <3>2
  <2>4. Counted'
    BY <1>1, <2>3, CountedStep DEF IInv
  <2> QED BY <2>1, <2>4
<1>7. \A outcome \in {"skipped", "failed"} :
        sweep' = Noted(sweep, c, outcome) /\ UNCHANGED got =>
          RequestInv' /\ SweepInv' /\ ChainInv' /\ Counted'
  BY <1>5
<1> QED BY <1>5, <1>6, <1>7 DEF SweepOne

LEMMA SweepTurnsStep ==
  ASSUME IInv, SweepTurns PROVE RequestInv' /\ SweepInv' /\ ChainInv' /\ Counted'
<1>1. /\ UNCHANGED <<row, request, got, faults>>
      /\ sweep'.at = "next" /\ sweep'.todo = sweep.todo /\ sweep'.work = sweep.work
  BY TxTypes DEF SweepTurns, IInv, SweepTxs
<1>2. RequestInv' /\ SweepInv' /\ ChainInv'
  BY <1>1, SweepStepInv DEF IInv, SweepInv
<1>3. \A c \in People, k \in Stages : Seen(c, k) => Seen(c, k)'
  BY <1>1, SweepSeen
<1> QED BY <1>1, <1>2, <1>3, CountedStep DEF IInv

LEMMA SweepStumblesStep ==
  ASSUME IInv, SweepStumbles PROVE RequestInv' /\ SweepInv' /\ ChainInv' /\ Counted'
<1>1. /\ UNCHANGED <<row, request>> /\ faults' = faults + 1 /\ sweep.at = "send"
      /\ sweep'.at = "next" /\ sweep'.todo = {} /\ sweep'.work = sweep.work
  BY TxTypes DEF SweepStumbles, IInv, SweepTxs
<1>2. RequestInv' /\ SweepInv' /\ ChainInv'
  BY <1>1, SweepStepInv DEF IInv, SweepInv
<1>3. PICK c \in DueFor(sweep.stage) : UNCHANGED got \/ Delivered(c, sweep.stage)
  BY DEF SweepStumbles
<1>4. c \in People /\ sweep.stage \in Stages /\ ~ Seen(c, sweep.stage)
  BY <1>1, NotFollowedUp, StageFacts
<1>5. ASSUME UNCHANGED got PROVE Counted'
  BY <1>1, <1>5, CountedStep DEF IInv
<1>6. ASSUME Delivered(c, sweep.stage) PROVE Counted'
  <2>1. \A d \in People, k \in Stages :
          got'[d][k] = IF d = c /\ k = sweep.stage THEN got[d][k] + 1 ELSE got[d][k]
    BY <1>4, <1>6, DeliveredOnce DEF IInv
  <2> QED BY <1>1, <1>4, <2>1, CountedStep DEF IInv
<1> QED BY <1>2, <1>3, <1>5, <1>6

LEMMA SweepCommitsStep ==
  ASSUME IInv, SweepCommits PROVE RequestInv' /\ SweepInv' /\ ChainInv' /\ Counted'
<1>1. UNCHANGED <<request, got, faults>> /\ sweep' = Asleep /\ Store(sweep, Waiting)
  BY DEF SweepCommits
<1>2. \A c \in People, k \in Stages :
        row'[c][k] = IF <<c, k>> \in Waiting /\ sweep.work[c] # "none" THEN sweep.work[c]
                     ELSE row[c][k]
  BY <1>1 DEF Store
<1>3. \A c \in People, k \in Stages : <<c, k>> \notin Waiting => row'[c][k] = row[c][k]
  BY <1>2
<1>4. \A c \in People, k \in Stages : row[c][k] = "sent" => row'[c][k] = "sent"
  <2>1. \A c \in People, k \in Stages : row[c][k] = "sent" => <<c, k>> \notin Waiting
    BY WaitingFacts
  <2> QED BY <1>3, <2>1
<1>5. RequestInv'
  <2>1. \A c \in People : row'[c][0] = row[c][0]
    BY <1>3, WaitingFacts, StageFacts
  <2> QED BY <1>1, <2>1 DEF IInv, RequestInv
<1>6. SweepInv'
  BY <1>1 DEF SweepInv, Asleep, NoWork
<1>7. ChainInv'
  <2> SUFFICES ASSUME NEW c \in People, NEW k \in Steps, NEW j \in 0 .. k - 1, row'[c][k] # "none"
               PROVE  row'[c][j] = "sent"
    BY DEF ChainInv
  <2>1. j \in Stages /\ k \in Stages
    BY CampaignsAssumption DEF Stages, Steps
  <2>2. row[c][j] = "sent"
    <3>1. CASE <<c, k>> \notin Waiting
      <4>1. row[c][k] # "none"
        BY <1>3, <2>1, <3>1
      <4> QED BY <4>1 DEF IInv, ChainInv
    <3>2. CASE <<c, k>> \in Waiting
      <4>1. row[c][k - 1] = "sent"
        BY <3>2, WaitingFacts
      <4>2. CASE j = k - 1
        BY <4>1, <4>2
      <4>3. CASE j # k - 1
        <5>1. k - 1 \in Steps /\ j \in 0 .. (k - 1) - 1
          BY <4>3, CampaignsAssumption DEF Steps
        <5>2. row[c][k - 1] # "none"
          BY <4>1
        <5> QED BY <5>1, <5>2 DEF IInv, ChainInv
      <4> QED BY <4>2, <4>3
    <3> QED BY <3>1, <3>2
  <2> QED BY <1>4, <2>1, <2>2
<1>8. ASSUME NEW c \in People, NEW k \in Stages, Seen(c, k) PROVE Seen(c, k)'
  <2>1. CASE row[c][k] = "sent"
    BY <1>4, <2>1 DEF Seen
  <2>2. ASSUME k = 0, NEW s \in Requests, request[s].work[c] = "sent" PROVE Seen(c, k)'
    BY <1>1, <2>2 DEF Seen, Underway
  <2>3. CASE <<c, k>> \in Waiting /\ sweep.work[c] = "sent"
    BY <1>2, <2>3 DEF Seen
  <2> QED BY <1>8, <2>1, <2>2, <2>3 DEF Seen, Underway
<1>9. Counted'
  BY <1>1, <1>8, CountedStep DEF IInv
<1> QED BY <1>5, <1>6, <1>7, <1>9

LEMMA SweepFailsStep ==
  ASSUME IInv, SweepFails PROVE RequestInv' /\ SweepInv' /\ ChainInv' /\ Counted'
<1>1. /\ UNCHANGED <<row, request, got>> /\ faults' = faults + 1
      /\ sweep'.at = "off" /\ sweep'.todo = {} /\ \A c \in People : sweep'.work[c] = "none"
  BY DEF SweepFails, Asleep, NoWork
<1>2. RequestInv' /\ SweepInv' /\ ChainInv'
  BY <1>1, SweepStepInv
<1> QED BY <1>1, <1>2, CountedStep DEF IInv

\* Nothing the invariant speaks of changes.
LEMMA IdleStep ==
  ASSUME IInv, UNCHANGED <<row, request, sweep, got, faults>>
  PROVE  RequestInv' /\ SweepInv' /\ ChainInv' /\ Counted'
<1>1. RequestInv' /\ SweepInv' /\ ChainInv'
  BY SweepStepInv DEF IInv, SweepInv
<1>2. \A c \in People, k \in Stages : Seen(c, k) => Seen(c, k)'
  BY SweepSeen
<1> QED BY <1>1, <1>2, CountedStep DEF IInv

LEMMA InvStep == IInv /\ [Next]_vars => IInv'
<1> SUFFICES ASSUME IInv, [Next]_vars PROVE IInv'
  OBVIOUS
<1>0. TypeOK'
  BY TypeStep DEF IInv
<1> DEFINE Kept == RequestInv' /\ SweepInv' /\ ChainInv' /\ Counted'
<1>1. ASSUME NewDay PROVE Kept
  BY <1>1, NewDayStep
<1>2. ASSUME NEW c \in People, Reply(c) PROVE Kept
  BY <1>2, IdleStep DEF Reply
<1>3. ASSUME NEW r \in Requests, SendBegins(r) PROVE Kept
  BY <1>3, SendBeginsStep
<1>4. ASSUME NEW r \in Requests, SendReads(r) PROVE Kept
  BY <1>4, SendReadsStep
<1>5. ASSUME NEW r \in Requests, NEW c \in People, SendOne(r, c) PROVE Kept
  BY <1>5, SendOneStep
<1>6. ASSUME NEW r \in Requests, SendCommits(r) PROVE Kept
  BY <1>6, SendCommitsStep
<1>7. ASSUME NEW r \in Requests, SendFails(r) PROVE Kept
  BY <1>7, SendFailsStep
<1>8. ASSUME SweepBegins PROVE Kept
  BY <1>8, SweepBeginsStep
<1>9. ASSUME NEW k \in Steps, SweepLooks(k) PROVE Kept
  BY <1>9, SweepLooksStep
<1>10. ASSUME NEW c \in People, SweepOne(c) PROVE Kept
  BY <1>10, SweepOneStep
<1>11. ASSUME SweepTurns PROVE Kept
  BY <1>11, SweepTurnsStep
<1>12. ASSUME SweepStumbles PROVE Kept
  BY <1>12, SweepStumblesStep
<1>13. ASSUME SweepCommits PROVE Kept
  BY <1>13, SweepCommitsStep
<1>14. ASSUME SweepFails PROVE Kept
  BY <1>14, SweepFailsStep
<1>15. ASSUME UNCHANGED vars PROVE Kept
  BY <1>15, IdleStep DEF vars
<1>16. Kept
  <2> HIDE DEF Kept
  <2> QED BY <1>1, <1>2, <1>3, <1>4, <1>5, <1>6, <1>7, <1>8, <1>9, <1>10, <1>11, <1>12, <1>13,
             <1>14, <1>15, Zenon DEF Next, SendStep, SweepStep
<1> QED BY <1>0, <1>16 DEF IInv

\* "Never touched again": nobody gets a message of the campaign, or of a step, more than once
\* and once more for each transaction that was lost, for any number of people, of requests at
\* once, of steps and of faults.
THEOREM NobodyIsReachedTwice == Spec => []ReachedOnce
<1>1. IInv => ReachedOnce
  <2> SUFFICES ASSUME IInv, NEW c \in People, NEW k \in Stages PROVE got[c][k] <= 1 + faults
    BY DEF ReachedOnce
  <2>1. got[c][k] \in Nat /\ faults \in Nat
    BY CampaignsAssumption DEF IInv, TypeOK
  <2>2. got[c][k] <= faults + IF Seen(c, k) THEN 1 ELSE 0
    BY DEF IInv, Counted
  <2>3. (IF Seen(c, k) THEN 1 ELSE 0) \in {0, 1}
    OBVIOUS
  <2> QED BY <2>1, <2>2, <2>3
<1> QED BY InvInit, InvStep, <1>1, PTL DEF Spec

-----------------------------------------------------------------------------
(***************************************************************************)
(* The sequence of each person                                             *)
(***************************************************************************)

\* What is recorded as sent, or will be, was got.
SeenInv == \A c \in People, k \in Stages : Seen(c, k) => got[c][k] > 0

\* Nothing more is recorded as sent, or will be, but perhaps message k of c.
SeenBut(c, k) ==
  \A d \in People, j \in Stages : (d # c \/ j # k) /\ Seen(d, j)' => Seen(d, j)

NoneSeen == \A d \in People, j \in Stages : Seen(d, j)' => Seen(d, j)

\* c may be sent message k, which nobody has sent in a transaction that is open.
NextFor(c, k) == c \in People /\ k \in Stages /\ Sequence!Due(c, k) /\ ~ Seen(c, k)

\* What a step does to the sequence: nothing; a message goes out; something is lost; or what a
\* transaction sent and decided is recorded.
Quiet == UNCHANGED <<row, got, faults>> /\ NoneSeen

Sends(c, k) == NextFor(c, k) /\ Delivered(c, k) /\ UNCHANGED <<row, faults>> /\ SeenBut(c, k)

Loses ==
  /\ faults' = faults + 1 /\ UNCHANGED row /\ NoneSeen
  /\ UNCHANGED got \/ \E c \in People, k \in Stages : NextFor(c, k) /\ Delivered(c, k)

Stores ==
  /\ UNCHANGED <<got, faults>> /\ NoneSeen
  /\ \A c \in People, k \in Stages : row'[c][k] # row[c][k] =>
       Sequence!Due(c, k) /\ row'[c][k] # "none" /\ (row'[c][k] = "sent" => Seen(c, k))

Shows == Quiet \/ (\E c \in People, k \in Stages : Sends(c, k)) \/ Loses \/ Stores

\* Transactions that have sent no more than before, over the same rows.
LEMMA NoMoreSent ==
  ASSUME UNCHANGED row,
         \A r \in Requests, d \in People :
           request'[r].work[d] = "sent" => request[r].work[d] = "sent",
         \A d \in People : sweep'.work[d] = "sent" => sweep.work[d] = "sent"
  PROVE  NoneSeen
<1>1. Waiting' = Waiting
  BY RowsKept
<1> QED BY <1>1 DEF NoneSeen, Seen, Underway

LEMMA RequestShows ==
  ASSUME IInv, NEW r \in Requests, NEW c \in People, SendOne(r, c)
  PROVE  Shows
<1>1. /\ request[r] \in Txs /\ request[r].at = "send" /\ c \in request[r].todo
      /\ UNCHANGED <<row, sweep, faults>>
  BY TxTypes DEF SendOne, IInv
<1>2. ASSUME NEW tx, Set(r, tx) PROVE \A s \in Requests : request'[s] = IF s = r THEN tx ELSE request[s]
  BY <1>2 DEF Set, IInv, TypeOK
<1>3. ASSUME NEW outcome \in {"pending", "failed"}, Set(r, Noted(request[r], c, outcome)), UNCHANGED got
      PROVE  Shows
  <2>1. \A d \in People : Noted(request[r], c, outcome).work[d] = "sent" => request[r].work[d] = "sent"
    BY <1>1, <1>3, NotedFields
  <2>2. NoneSeen
    BY <1>1, <1>2, <1>3, <2>1, NoMoreSent
  <2> QED BY <1>1, <1>3, <2>2 DEF Shows, Quiet
<1>4. ASSUME Set(r, AfterSending(request[r], c)), Delivered(c, 0)
      PROVE  Shows
  <2>1. \A s \in Requests, d \in People : d # c =>
          (request'[s].work[d] = "sent" => request[s].work[d] = "sent")
    BY <1>1, <1>2, <1>4, AfterSendingFields
  <2>2. Waiting' = Waiting
    BY <1>1, RowsKept
  <2>3. SeenBut(c, 0)
    BY <1>1, <2>1, <2>2 DEF SeenBut, Seen, Underway
  <2>4. row[c][0] # "sent" /\ ~ Seen(c, 0)
    BY <1>1, NotReached DEF Seen
  <2>5. NextFor(c, 0)
    BY <2>4, StageFacts DEF NextFor, Sequence!Due
  <2> QED BY <1>1, <1>4, <2>3, <2>5, StageFacts DEF Shows, Sends
<1> QED BY <1>3, <1>4 DEF SendOne

LEMMA SweepShows ==
  ASSUME IInv, NEW c \in People, SweepOne(c)
  PROVE  Shows
<1>1. /\ UNCHANGED <<row, request, faults>> /\ sweep.at = "send" /\ c \in DueFor(sweep.stage)
      /\ sweep \in SweepTxs
  BY TxTypes DEF SweepOne, IInv
<1>2. /\ sweep.stage \in Steps /\ sweep.stage \in Stages /\ c \in sweep.todo
      /\ <<c, sweep.stage>> \in Waiting /\ ~ Seen(c, sweep.stage)
  BY <1>1, NotFollowedUp, StageFacts
<1>3. ASSUME UNCHANGED got, \A d \in People : sweep'.work[d] = "sent" => sweep.work[d] = "sent"
      PROVE  Shows
  <2>1. NoneSeen
    BY <1>1, <1>3, NoMoreSent
  <2> QED BY <1>1, <1>3, <2>1 DEF Shows, Quiet
<1>4. ASSUME sweep' = [sweep EXCEPT !.todo = @ \ {c}], UNCHANGED got PROVE Shows
  <2>1. sweep'.work = sweep.work
    BY <1>1, <1>4 DEF SweepTxs
  <2> QED BY <1>3, <1>4, <2>1
<1>5. ASSUME NEW outcome \in {"skipped", "failed"}, sweep' = Noted(sweep, c, outcome), UNCHANGED got
      PROVE  Shows
  <2>1. \A d \in People : sweep'.work[d] = "sent" => sweep.work[d] = "sent"
    BY <1>1, <1>5, NotedFields
  <2> QED BY <1>3, <1>5, <2>1
<1>6. ASSUME sweep' = AfterSending(sweep, c), Delivered(c, sweep.stage) PROVE Shows
  <2>1. \A d \in People : d # c => (sweep'.work[d] = "sent" => sweep.work[d] = "sent")
    BY <1>1, <1>6, AfterSendingFields
  <2>2. Waiting' = Waiting
    BY <1>1, RowsKept
  <2>3. \A j \in Stages : <<c, j>> \in Waiting => j = sweep.stage
    BY <1>2, OneStep, WaitingFacts DEF IInv
  <2>4. SeenBut(c, sweep.stage)
    BY <1>1, <2>1, <2>2, <2>3 DEF SeenBut, Seen, Underway
  <2>5. NextFor(c, sweep.stage)
    <3>1. row[c][sweep.stage - 1] = "sent" /\ row[c][sweep.stage] = "none"
      BY <1>2, WaitingFacts
    <3>2. sweep.stage > 0
      BY <1>2, CampaignsAssumption DEF Steps
    <3> QED BY <1>2, <3>1, <3>2 DEF NextFor, Sequence!Due
  <2> QED BY <1>1, <1>2, <1>6, <2>4, <2>5 DEF Shows, Sends
<1> QED BY <1>4, <1>5, <1>6 DEF SweepOne

LEMMA SendCommitsShows ==
  ASSUME IInv, NEW r \in Requests, SendCommits(r)
  PROVE  Shows
<1> DEFINE work == request[r].work
<1>1. /\ Set(r, Ended) /\ UNCHANGED <<sweep, got, faults>>
      /\ Store(request[r], People \X {0})
  BY DEF SendCommits
<1>2. \A c \in People, k \in Stages :
        row'[c][k] = IF k = 0 /\ work[c] # "none" THEN work[c] ELSE row[c][k]
  BY <1>1 DEF Store
<1>3. \A s \in Requests : request'[s] = IF s = r THEN Ended ELSE request[s]
  BY <1>1 DEF Set, IInv, TypeOK
<1>4. \A c \in People : work[c] # "none" => row[c][0] # "sent"
  BY DEF IInv, RequestInv
<1>5. \A c \in People : work[c] = "sent" => Seen(c, 0)
  BY DEF Seen, Underway
<1> HIDE DEF work
<1>6. ASSUME NEW c \in People, NEW k \in Stages, row'[c][k] # row[c][k]
      PROVE  /\ Sequence!Due(c, k) /\ row'[c][k] # "none"
             /\ row'[c][k] = "sent" => Seen(c, k)
  <2>1. k = 0 /\ work[c] # "none" /\ row'[c][k] = work[c]
    BY <1>2, <1>6
  <2> QED BY <1>4, <1>5, <2>1 DEF Sequence!Due
<1>7. ASSUME NEW c \in People, NEW k \in Stages, Seen(c, k)' PROVE Seen(c, k)
  <2>1. CASE row'[c][k] = "sent"
    BY <1>6, <2>1 DEF Seen
  <2>2. ASSUME k = 0, NEW s \in Requests, request'[s].work[c] = "sent" PROVE Seen(c, k)
    <3>1. request[s].work[c] = "sent"
      BY <1>3, <2>2 DEF Ended, NoWork
    <3> QED BY <2>2, <3>1 DEF Seen, Underway
  <2>3. CASE <<c, k>> \in Waiting' /\ sweep'.work[c] = "sent"
    <3>1. c \in InSequence
      BY <1>1, <2>3 DEF IInv, SweepInv
    <3>2. work[c] = "none"
      BY <1>4, <3>1, OneStep DEF IInv
    <3>3. \A j \in Stages : row'[c][j] = row[c][j]
      BY <1>2, <3>2
    <3>4. k \in Steps /\ row'[c][k - 1] = "sent" /\ row'[c][k] = "none"
      BY <2>3 DEF Waiting
    <3>5. <<c, k>> \in Waiting
      BY <3>3, <3>4, WaitingFacts, StageFacts
    <3> QED BY <1>1, <2>3, <3>5 DEF Seen, Underway
  <2> QED BY <1>7, <2>1, <2>2, <2>3 DEF Seen, Underway
<1> QED BY <1>1, <1>6, <1>7 DEF Shows, Stores, NoneSeen

LEMMA SweepCommitsShows ==
  ASSUME IInv, SweepCommits
  PROVE  Shows
<1>1. UNCHANGED <<request, got, faults>> /\ sweep' = Asleep /\ Store(sweep, Waiting)
  BY DEF SweepCommits
<1>2. \A c \in People, k \in Stages :
        row'[c][k] = IF <<c, k>> \in Waiting /\ sweep.work[c] # "none" THEN sweep.work[c]
                     ELSE row[c][k]
  BY <1>1 DEF Store
<1>3. ASSUME NEW c \in People, NEW k \in Stages, row'[c][k] # row[c][k]
      PROVE  /\ Sequence!Due(c, k) /\ row'[c][k] # "none"
             /\ row'[c][k] = "sent" => Seen(c, k)
  <2>1. <<c, k>> \in Waiting /\ sweep.work[c] # "none" /\ row'[c][k] = sweep.work[c]
    BY <1>2, <1>3
  <2>2. k \in Steps /\ row[c][k - 1] = "sent" /\ row[c][k] = "none"
    BY <2>1, WaitingFacts
  <2>3. k > 0
    BY <2>2, CampaignsAssumption DEF Steps
  <2> QED BY <2>1, <2>2, <2>3 DEF Sequence!Due, Seen, Underway
<1>4. ASSUME NEW c \in People, NEW k \in Stages, Seen(c, k)' PROVE Seen(c, k)
  <2>1. sweep'.work[c] = "none"
    BY <1>1 DEF Asleep, NoWork
  <2>2. CASE row'[c][k] = "sent"
    BY <1>3, <2>2 DEF Seen
  <2>3. CASE k = 0 /\ \E s \in Requests : request'[s].work[c] = "sent"
    BY <1>1, <2>3 DEF Seen, Underway
  <2> QED BY <1>4, <2>1, <2>2, <2>3 DEF Seen, Underway
<1> QED BY <1>1, <1>3, <1>4 DEF Shows, Stores, NoneSeen

LEMMA LossShows ==
  ASSUME IInv, SweepStumbles \/ SweepFails \/ \E r \in Requests : SendFails(r)
  PROVE  Shows
<1>1. /\ \A c \in People : Ended.work[c] = "none" /\ Asleep.work[c] = "none"
  BY DEF Ended, Asleep, NoWork
<1>2. ASSUME NEW r \in Requests, SendFails(r) PROVE Shows
  <2>1. /\ request[r].at = "send" /\ Set(r, Ended) /\ faults' = faults + 1
        /\ UNCHANGED <<row, sweep>>
    BY <1>2 DEF SendFails
  <2>2. \A s \in Requests : request'[s] = IF s = r THEN Ended ELSE request[s]
    BY <2>1 DEF Set, IInv, TypeOK
  <2>3. NoneSeen
    BY <1>1, <2>1, <2>2, NoMoreSent
  <2>4. ASSUME NEW c \in request[r].todo PROVE NextFor(c, 0)
    <3>1. c \in People /\ ~ Seen(c, 0) /\ row[c][0] # "sent"
      BY <2>1, <2>4, NotReached DEF Seen
    <3> QED BY <3>1, StageFacts DEF NextFor, Sequence!Due
  <2>5. CASE UNCHANGED got
    BY <2>1, <2>3, <2>5 DEF Shows, Loses
  <2>6. CASE \E c \in request[r].todo : Delivered(c, 0)
    <3>1. \E c \in People, k \in Stages : NextFor(c, k) /\ Delivered(c, k)
      BY <2>4, <2>6 DEF NextFor
    <3> QED BY <2>1, <2>3, <3>1 DEF Shows, Loses
  <2> QED BY <1>2, <2>5, <2>6, Zenon DEF SendFails
<1>3. CASE SweepStumbles
  <2>1. /\ UNCHANGED <<row, request>> /\ faults' = faults + 1 /\ sweep.at = "send"
        /\ sweep'.work = sweep.work
    BY <1>3, TxTypes DEF SweepStumbles, IInv, SweepTxs
  <2>2. NoneSeen
    BY <2>1, NoMoreSent
  <2>3. PICK c \in DueFor(sweep.stage) : UNCHANGED got \/ Delivered(c, sweep.stage)
    BY <1>3 DEF SweepStumbles
  <2>4. /\ c \in People /\ sweep.stage \in Steps /\ <<c, sweep.stage>> \in Waiting
        /\ ~ Seen(c, sweep.stage)
    BY <2>1, <2>3, NotFollowedUp
  <2>5. NextFor(c, sweep.stage)
    <3>1. row[c][sweep.stage - 1] = "sent" /\ row[c][sweep.stage] = "none"
      BY <2>4, WaitingFacts
    <3>2. sweep.stage > 0 /\ sweep.stage \in Stages
      BY <2>4, StageFacts, CampaignsAssumption DEF Steps
    <3> QED BY <2>4, <3>1, <3>2 DEF NextFor, Sequence!Due
  <2>6. UNCHANGED got \/ \E d \in People, k \in Stages : NextFor(d, k) /\ Delivered(d, k)
    BY <2>3, <2>5, Zenon DEF NextFor
  <2> QED BY <2>1, <2>2, <2>6 DEF Shows, Loses
<1>4. CASE SweepFails
  <2>1. UNCHANGED <<row, request, got>> /\ faults' = faults + 1 /\ sweep' = Asleep
    BY <1>4 DEF SweepFails
  <2>2. NoneSeen
    BY <1>1, <2>1, NoMoreSent
  <2> QED BY <2>1, <2>2 DEF Shows, Loses
<1> QED BY <1>2, <1>3, <1>4

\* Every step does one of these to the sequence.
LEMMA NextShows == IInv /\ [Next]_vars => Shows
<1> SUFFICES ASSUME IInv, [Next]_vars PROVE Shows
  OBVIOUS
<1>0. request \in [Requests -> Txs] /\ sweep \in SweepTxs
  BY TxTypes DEF IInv
<1>1. ASSUME UNCHANGED <<row, got, faults>>,
             \A r \in Requests, d \in People :
               request'[r].work[d] = "sent" => request[r].work[d] = "sent",
             \A d \in People : sweep'.work[d] = "sent" => sweep.work[d] = "sent"
      PROVE  Shows
  BY <1>1, NoMoreSent DEF Shows, Quiet
<1>2. CASE NewDay
  <2>1. /\ \A r \in Requests : request'[r].work = request[r].work
        /\ sweep'.work = sweep.work
    BY <1>0, <1>2 DEF NewDay, Txs, SweepTxs
  <2> QED BY <1>1, <1>2, <2>1 DEF NewDay
<1>3. ASSUME NEW c \in People, Reply(c) PROVE Shows
  BY <1>1, <1>3 DEF Reply
<1>4. ASSUME NEW r \in Requests, SendBegins(r) PROVE Shows
  <2>1. \A s \in Requests : request'[s] = IF s = r THEN [Ended EXCEPT !.at = "wait", !.left = Left(known)]
                                          ELSE request[s]
    BY <1>0, <1>4 DEF SendBegins, Set
  <2>2. \A d \in People : [Ended EXCEPT !.at = "wait", !.left = Left(known)].work[d] = "none"
    BY DEF Ended, NoWork
  <2> QED BY <1>1, <1>4, <2>1, <2>2 DEF SendBegins
<1>5. ASSUME NEW r \in Requests, SendReads(r) PROVE Shows
  <2>1. \A s \in Requests : request'[s].work = request[s].work
    BY <1>0, <1>5 DEF SendReads, Set, Txs
  <2> QED BY <1>1, <1>5, <2>1 DEF SendReads
<1>6. CASE SweepBegins
  <2>1. \A d \in People : sweep'.work[d] = "none"
    BY <1>6 DEF SweepBegins, Asleep, NoWork
  <2> QED BY <1>1, <1>6, <2>1 DEF SweepBegins
<1>7. ASSUME NEW k \in Steps, SweepLooks(k) PROVE Shows
  <2>1. CASE sweep' = [sweep EXCEPT !.at = "send", !.stage = k, !.left = Left(known \union sweep.fresh)]
    <3>1. sweep'.work = sweep.work
      BY <1>0, <2>1 DEF SweepTxs
    <3> QED BY <1>1, <1>7, <3>1 DEF SweepLooks
  <2>2. CASE sweep' = [sweep EXCEPT !.todo = @ \ DueFor(k), !.work =
                         [c \in People |-> IF c \in DueFor(k) THEN "failed" ELSE @[c]]]
    <3>1. sweep'.work = [c \in People |-> IF c \in DueFor(k) THEN "failed" ELSE sweep.work[c]]
      BY <1>0, <2>2 DEF SweepTxs
    <3>2. \A d \in People : sweep'.work[d] = "sent" => sweep.work[d] = "sent"
      BY <3>1
    <3> QED BY <1>1, <1>7, <3>2 DEF SweepLooks
  <2> QED BY <1>7, <2>1, <2>2 DEF SweepLooks
<1>8. CASE SweepTurns
  <2>1. sweep'.work = sweep.work
    BY <1>0, <1>8 DEF SweepTurns, SweepTxs
  <2> QED BY <1>1, <1>8, <2>1 DEF SweepTurns
<1>9. CASE UNCHANGED vars
  BY <1>1, <1>9 DEF vars
<1> QED BY <1>2, <1>3, <1>4, <1>5, <1>6, <1>7, <1>8, <1>9, RequestShows, SweepShows,
           SendCommitsShows, SweepCommitsShows, LossShows, Zenon DEF Next, SendStep, SweepStep

\* So SeenInv is kept.
LEMMA ShowsSeen ==
  ASSUME TypeOK, SeenInv, Shows
  PROVE  SeenInv'
<1>0. \A c \in People, k \in Stages : got[c][k] \in Nat
  BY DEF TypeOK
<1>1. ASSUME NEW c \in People, NEW k \in Stages, Delivered(c, k), SeenBut(c, k) PROVE SeenInv'
  <2>1. \A d \in People, j \in Stages :
          got'[d][j] = IF d = c /\ j = k THEN got[d][j] + 1 ELSE got[d][j]
    BY <1>1, DeliveredOnce
  <2> QED BY <1>0, <1>1, <2>1 DEF SeenInv, SeenBut
<1>2. NoneSeen => \A c \in People, k \in Stages : SeenBut(c, k)
  BY DEF NoneSeen, SeenBut
<1>3. NoneSeen /\ UNCHANGED got => SeenInv'
  BY DEF NoneSeen, SeenInv
<1> QED BY <1>1, <1>2, <1>3, Zenon DEF Shows, Quiet, Sends, Loses, Stores

\* And each is a step of the sequence, or none.
LEMMA ShowsSequence ==
  ASSUME TypeOK, TypeOK', Counted, SeenInv, Shows
  PROVE  [Sequence!SequenceNext]_(Sequence!sequenceVars)
<1>0. Sequence!Stages = Stages
  BY DEF Stages, Sequence!Stages
<1>1. ASSUME NEW c \in People, NEW k \in Stages, NextFor(c, k), Delivered(c, k), UNCHANGED row
      PROVE  Sequence!Deliver(c, k)
  <2>1. got[c][k] <= faults + 0
    BY <1>1 DEF Counted, NextFor
  <2>2. got[c][k] <= faults
    BY <2>1, CampaignsAssumption DEF TypeOK
  <2> QED BY <1>1, <2>2, Zenon DEF Sequence!Deliver, NextFor, Delivered
<1>2. CASE Quiet
  BY <1>2 DEF Quiet, Sequence!sequenceVars
<1>3. ASSUME NEW c \in People, NEW k \in Stages, Sends(c, k) PROVE Sequence!SequenceNext
  BY <1>0, <1>1, <1>3, Zenon DEF Sends, Sequence!SequenceNext
<1>4. CASE Loses
  BY <1>0, <1>1, <1>4, Zenon DEF Loses, Sequence!Lose, Sequence!SequenceNext
<1>5. CASE Stores
  <2>1. row' \in [People -> [Stages -> Sequence!Outcomes \union {"none"}]]
    <3>1. Statuses = Sequence!Outcomes \union {"none"}
      BY DEF Statuses, Sequence!Outcomes
    <3> QED BY <3>1 DEF TypeOK
  <2>2. \A c \in People, k \in Stages : row'[c][k] # row[c][k] =>
          /\ Sequence!Due(c, k) /\ row'[c][k] # "none"
          /\ row'[c][k] = "sent" => got[c][k] > 0
    BY <1>5 DEF Stores, SeenInv
  <2>3. Sequence!Record
    BY <1>0, <1>5, <2>1, <2>2, Zenon DEF Stores, Sequence!Record
  <2> QED BY <2>3 DEF Sequence!SequenceNext
<1> QED BY <1>2, <1>3, <1>4, <1>5, Zenon DEF Shows

\* A campaign sent, resumed and followed up by any number of transactions at once comes to a
\* sequence each person goes through once: what is recorded as sent they got, what is decided
\* stays decided, and a message comes again only after a loss.
THEOREM CampaignIsASequence == Spec => FollowsTheSequence
<1>1. Init => Sequence!SequenceInit
  BY DEF Init, Sequence!SequenceInit, Stages, Sequence!Stages
<1>2. Init => SeenInv
  BY DEF Init, SeenInv, Seen, Underway, Ended, Asleep, NoWork, Waiting
<1>3. IInv /\ SeenInv /\ [Next]_vars =>
        IInv' /\ SeenInv' /\ [Sequence!SequenceNext]_(Sequence!sequenceVars)
  <2> SUFFICES ASSUME IInv, SeenInv, [Next]_vars
               PROVE  IInv' /\ SeenInv' /\ [Sequence!SequenceNext]_(Sequence!sequenceVars)
    OBVIOUS
  <2>1. IInv' /\ Shows
    BY InvStep, NextShows
  <2>2. TypeOK /\ TypeOK' /\ Counted
    BY <2>1 DEF IInv
  <2> QED BY <2>1, <2>2, ShowsSeen, ShowsSequence
<1> QED
  BY <1>1, <1>2, <1>3, InvInit, PTL DEF Spec, FollowsTheSequence, Sequence!SequenceSpec

-----------------------------------------------------------------------------
(* The daily limit.                                                        *)

\* Who has nothing open has sent nothing and has nothing left, and the sweep has something left
\* only while it sends.
LeftInv ==
  /\ \A r \in Requests :
       /\ request[r].left <= Tier
       /\ request[r].at = "off" => request[r].left = 0 /\ request[r].fresh = {}
  /\ sweep.left <= Tier /\ (sweep.at # "send" => sweep.left = 0)
  /\ sweep.at = "off" => sweep.fresh = {}

\* Unless two counted at once, what is left is left to one, and was not sent yet.
TierInv ==
  ~ blind =>
    /\ \A r \in Requests : /\ Cardinality(Today) + request[r].left <= Tier
                           /\ request[r].left = 0 \/ sweep.left = 0
    /\ Cardinality(Today) + sweep.left <= Tier
    /\ \A r, s \in Requests : r = s \/ request[r].left = 0 \/ request[s].left = 0

LEMMA CountFacts ==
  /\ \A S \in SUBSET People : Cardinality(S) \in Nat
  /\ \A S \in SUBSET People, c \in People : Cardinality(S \union {c}) <= Cardinality(S) + 1
  /\ Cardinality({}) = 0
<1>1. \A S \in SUBSET People : IsFiniteSet(S) /\ Cardinality(S) \in Nat
  BY CampaignsAssumption, FS_Subset, FS_CardinalityType
<1>2. ASSUME NEW S \in SUBSET People, NEW c \in People
      PROVE  Cardinality(S \union {c}) <= Cardinality(S) + 1
  BY <1>1, FS_AddElement
<1> QED BY <1>1, <1>2, FS_EmptySet

LEMMA TodayType == TypeOK => Today \in SUBSET People
BY DEF TypeOK, Today

\* Nobody has more left, and nobody was sent anything.
LEMMA TierKept ==
  ASSUME TypeOK, TypeOK', TierInv, Today' = Today, blind' = blind,
         \A r \in Requests : request'[r].left = request[r].left \/ request'[r].left = 0,
         sweep'.left = sweep.left \/ sweep'.left = 0
  PROVE  TierInv'
<1> SUFFICES ASSUME ~ blind PROVE TierInv'
  BY DEF TierInv
<1>1. \A r \in Requests : request[r].left \in Nat /\ request'[r].left \in Nat
  BY DEF TypeOK
<1>2. sweep.left \in Nat /\ sweep'.left \in Nat /\ Cardinality(Today) \in Nat
  BY TodayType, CountFacts DEF TypeOK
<1>3. /\ Cardinality(Today) + sweep.left <= Tier
      /\ \A r \in Requests : /\ Cardinality(Today) + request[r].left <= Tier
                             /\ request[r].left = 0 \/ sweep.left = 0
      /\ \A r, s \in Requests : r = s \/ request[r].left = 0 \/ request[s].left = 0
  BY DEF TierInv
<1>4. Cardinality(Today) <= Tier
  BY <1>2, <1>3, CampaignsAssumption
<1>5. ASSUME NEW r \in Requests
      PROVE  /\ Cardinality(Today) + request'[r].left <= Tier
             /\ request'[r].left = 0 \/ sweep'.left = 0
  <2>1. CASE request'[r].left = 0
    BY <1>2, <1>4, <2>1, CampaignsAssumption
  <2>2. CASE request'[r].left = request[r].left
    BY <1>3, <2>2
  <2> QED BY <2>1, <2>2
<1>6. Cardinality(Today) + sweep'.left <= Tier
  BY <1>2, <1>3, <1>4, CampaignsAssumption
<1>7. \A r, s \in Requests : r = s \/ request'[r].left = 0 \/ request'[s].left = 0
  BY <1>3
<1> QED BY <1>5, <1>6, <1>7, Zenon DEF TierInv

\* Only one request has anything left, and the day has room for it.
LEMMA OneHasLeft ==
  ASSUME NEW r \in Requests, Cardinality(Today') \in Nat, Cardinality(Today') <= Tier,
         Cardinality(Today') + request'[r].left <= Tier,
         \A s \in Requests : s # r => request'[s].left = 0,
         sweep'.left = 0
  PROVE  TierInv'
<1>1. \A s \in Requests : Cardinality(Today') + request'[s].left <= Tier
  <2> SUFFICES ASSUME NEW s \in Requests PROVE Cardinality(Today') + request'[s].left <= Tier
    OBVIOUS
  <2>1. CASE s = r
    BY <2>1
  <2>2. CASE s # r
    <3>1. request'[s].left = 0
      BY <2>2
    <3> QED BY <3>1
  <2> QED BY <2>1, <2>2
<1>2. \A s, t \in Requests : s = t \/ request'[s].left = 0 \/ request'[t].left = 0
  OBVIOUS
<1>3. Cardinality(Today') + sweep'.left <= Tier
  OBVIOUS
<1> QED BY <1>1, <1>2, <1>3 DEF TierInv

\* A message of a request's is one less that it has left.
LEMMA RequestSpends ==
  ASSUME TypeOK, TypeOK', TierInv, blind' = blind, sweep' = sweep, NEW r \in Requests, NEW c \in People,
         Today' = Today \union {c}, request[r].left > 0, request'[r].left = request[r].left - 1,
         \A s \in Requests : s # r => request'[s].left = request[s].left
  PROVE  TierInv'
<1> SUFFICES ASSUME ~ blind PROVE TierInv'
  BY DEF TierInv
<1>1. \A s \in Requests : request[s].left \in Nat /\ request'[s].left \in Nat
  BY DEF TypeOK
<1>2. /\ Cardinality(Today) \in Nat /\ Cardinality(Today') \in Nat
      /\ Cardinality(Today') <= Cardinality(Today) + 1
  BY TodayType, CountFacts
<1>3. /\ sweep.left = 0 /\ Cardinality(Today) + request[r].left <= Tier
      /\ \A s \in Requests : s # r => request[s].left = 0
  BY <1>1, CampaignsAssumption DEF TierInv
<1>4. Cardinality(Today') + request'[r].left <= Tier
  BY <1>1, <1>2, <1>3, CampaignsAssumption
<1>5. Cardinality(Today') <= Tier
  BY <1>1, <1>2, <1>4, CampaignsAssumption
<1> QED BY <1>2, <1>3, <1>4, <1>5, OneHasLeft

\* A message of the sweep's is one less that it has left.
LEMMA SweepSpends ==
  ASSUME TypeOK, TypeOK', TierInv, blind' = blind, request' = request, NEW c \in People,
         Today' = Today \union {c}, sweep.left > 0, sweep'.left = sweep.left - 1
  PROVE  TierInv'
<1> SUFFICES ASSUME ~ blind PROVE TierInv'
  BY DEF TierInv
<1>1. \A s \in Requests : request[s].left \in Nat
  BY DEF TypeOK
<1>2. /\ sweep.left \in Nat /\ sweep'.left \in Nat
      /\ Cardinality(Today) \in Nat /\ Cardinality(Today') \in Nat
      /\ Cardinality(Today') <= Cardinality(Today) + 1
  BY TodayType, CountFacts DEF TypeOK
<1>3. /\ Cardinality(Today) + sweep.left <= Tier
      /\ \A s \in Requests : request[s].left = 0
  BY <1>1, <1>2, CampaignsAssumption DEF TierInv
<1>4. Cardinality(Today') + sweep'.left <= Tier /\ Cardinality(Today') <= Tier
  BY <1>2, <1>3, CampaignsAssumption
<1> QED BY <1>1, <1>2, <1>3, <1>4, CampaignsAssumption DEF TierInv

LInv == TypeOK /\ LeftInv /\ TierInv

LEMMA LimitInit == Init => LInv
<1> SUFFICES ASSUME Init PROVE LInv
  OBVIOUS
<1>1. /\ TypeOK /\ Tier \in Nat
  BY TypeInit, CampaignsAssumption
<1>2. /\ \A r \in Requests : request[r].left = 0 /\ request[r].fresh = {}
      /\ sweep.left = 0 /\ sweep.fresh = {} /\ known = {}
  BY DEF Init, Ended, Asleep
<1>3. LeftInv
  BY <1>1, <1>2 DEF LeftInv
<1>4. Today = {}
  BY <1>2 DEF Today
<1>5. TierInv
  BY <1>1, <1>2, <1>4, CountFacts DEF TierInv
<1> QED BY <1>1, <1>3, <1>5 DEF LInv

LEMMA LimitStep == LInv /\ [Next]_vars => LInv'
<1> SUFFICES ASSUME LInv, [Next]_vars PROVE LInv'
  OBVIOUS
<1>0. /\ TypeOK /\ TypeOK' /\ LeftInv /\ TierInv /\ Tier \in Nat
      /\ request \in [Requests -> Txs] /\ sweep \in SweepTxs
      /\ \A r \in Requests : request[r] \in Txs /\ request[r].left \in Nat
      /\ sweep.left \in Nat
  BY TypeStep, TxTypes, CampaignsAssumption DEF LInv, Txs, SweepTxs
<1> DEFINE Kept == LeftInv' /\ TierInv'
<1>1. ASSUME NewDay PROVE Kept
  <2>1. /\ \A r \in Requests : /\ request'[r].at = request[r].at /\ request'[r].fresh = {}
                               /\ request'[r].left = request[r].left
        /\ sweep'.at = sweep.at /\ sweep'.fresh = {} /\ sweep'.left = sweep.left /\ known' = {}
    BY <1>0, <1>1 DEF NewDay, Txs, SweepTxs
  <2>2. LeftInv'
    BY <1>0, <2>1 DEF LeftInv
  <2>3. Today' = {}
    BY <2>1 DEF Today
  <2>4. ASSUME ~ blind', NEW r \in Requests, request[r].left # 0
        PROVE  sweep.left = 0 /\ \A s \in Requests : r = s \/ request[s].left = 0
    <3>1. r \in Sending
      BY <1>0, <2>4 DEF Sending, LeftInv
    <3>2. sweep.at = "off" /\ Sending = {r}
      BY <1>1, <2>4, <3>1 DEF NewDay
    <3> QED BY <1>0, <3>2 DEF LeftInv, Sending
  <2>5. TierInv'
    BY <1>0, <2>1, <2>3, <2>4, CountFacts DEF TierInv, LeftInv
  <2> QED BY <2>2, <2>5
<1>2. ASSUME NEW c \in People, Reply(c) PROVE Kept
  <2>1. UNCHANGED <<request, sweep, known, blind>>
    BY <1>2 DEF Reply
  <2>2. Today' = Today
    BY <2>1 DEF Today
  <2> QED BY <1>0, <2>1, <2>2, TierKept DEF LeftInv
<1>3. ASSUME NEW r \in Requests, SendBegins(r) PROVE Kept
  <2>1. /\ \A s \in Requests : request'[s] = IF s = r THEN [Ended EXCEPT !.at = "wait", !.left = Left(known)]
                                             ELSE request[s]
        /\ UNCHANGED <<sweep, known>> /\ request[r].at = "off"
        /\ blind' = (blind \/ Sending # {} \/ sweep.at # "off")
    BY <1>0, <1>3 DEF SendBegins, Set
  <2>2. request'[r].at = "wait" /\ request'[r].left = Left(known) /\ request'[r].fresh = {}
    BY <2>1 DEF Ended
  <2>3. /\ known \in SUBSET People /\ Left(known) \in Nat /\ Cardinality(known) \in Nat
        /\ Left(known) <= Tier
        /\ Cardinality(known) <= Tier => Cardinality(known) + Left(known) <= Tier
    <3>1. known \in SUBSET People
      BY <1>0 DEF TypeOK
    <3>2. Cardinality(known) \in Nat
      BY <3>1, CountFacts
    <3> QED BY <1>0, <3>1, <3>2, LeftType DEF Left
  <2>4. LeftInv'
    BY <1>0, <2>1, <2>2, <2>3 DEF LeftInv
  <2>5. ASSUME ~ blind'
        PROVE  /\ ~ blind /\ sweep.left = 0 /\ sweep.fresh = {}
               /\ \A s \in Requests : request[s].left = 0 /\ request[s].fresh = {}
    BY <1>0, <2>1, <2>5 DEF Sending, LeftInv
  <2>6. ASSUME ~ blind' PROVE Today' = known /\ Today = known
    BY <2>1, <2>2, <2>5, <2>6 DEF Today
  <2>7. ASSUME ~ blind' PROVE Cardinality(Today') + Left(known) <= Tier /\ Cardinality(Today') <= Tier
    BY <1>0, <2>3, <2>5, <2>6, <2>7 DEF TierInv
  <2>8. ASSUME ~ blind' PROVE \A s \in Requests : s # r => request'[s].left = 0
    BY <2>1, <2>5, <2>8
  <2>9. TierInv'
    <3> SUFFICES ASSUME ~ blind' PROVE TierInv'
      BY DEF TierInv
    <3>1. Cardinality(Today') \in Nat /\ Cardinality(Today') <= Tier
      BY <2>3, <2>6, <2>7
    <3>2. Cardinality(Today') + request'[r].left <= Tier /\ sweep'.left = 0
      BY <2>1, <2>2, <2>5, <2>7
    <3> QED BY <2>8, <3>1, <3>2, OneHasLeft
  <2> QED BY <2>4, <2>9
<1>4. ASSUME NEW r \in Requests, SendReads(r) PROVE Kept
  <2>1. /\ \A s \in Requests : /\ request'[s].left = request[s].left
                               /\ request'[s].fresh = request[s].fresh
                               /\ request'[s].at = "off" => request[s].at = "off"
        /\ UNCHANGED <<sweep, known, blind>>
    BY <1>0, <1>4 DEF SendReads, Set, Txs
  <2>2. Today' = Today
    BY <2>1 DEF Today
  <2>3. LeftInv'
    BY <1>0, <2>1 DEF LeftInv
  <2> QED BY <1>0, <2>1, <2>2, <2>3, TierKept
<1>5. ASSUME NEW r \in Requests, NEW c \in People, SendOne(r, c) PROVE Kept
  <2>1. UNCHANGED <<sweep, known, blind>> /\ request[r] \in Txs \union SweepTxs
    BY <1>0, <1>5 DEF SendOne
  <2>2. ASSUME NEW outcome, Set(r, Noted(request[r], c, outcome)) PROVE Kept
    <3>1. \A s \in Requests : /\ request'[s].at = request[s].at /\ request'[s].left = request[s].left
                              /\ request'[s].fresh = request[s].fresh
      BY <1>0, <2>2 DEF Set, Noted, Txs
    <3>2. Today' = Today
      BY <2>1, <3>1 DEF Today
    <3>3. LeftInv'
      BY <1>0, <2>1, <3>1 DEF LeftInv
    <3> QED BY <1>0, <2>1, <3>1, <3>2, <3>3, TierKept
  <2>3. ASSUME request[r].left > 0, Set(r, AfterSending(request[r], c)) PROVE Kept
    <3>1. \A s \in Requests :
            /\ request'[s].at = request[s].at
            /\ request'[s].left = IF s = r THEN request[r].left - 1 ELSE request[s].left
            /\ request'[s].fresh = IF s = r THEN request[r].fresh \union {c} ELSE request[s].fresh
      BY <1>0, <2>3 DEF Set, AfterSending, Txs
    <3>2. Today' = Today \union {c}
      BY <2>1, <3>1 DEF Today
    <3>3. request[r].at # "off"
      BY <1>5 DEF SendOne
    <3>4. LeftInv'
      BY <1>0, <2>1, <2>3, <3>1, <3>3 DEF LeftInv
    <3> QED BY <1>0, <2>1, <2>3, <3>1, <3>2, <3>4, RequestSpends
  <2> QED BY <1>5, <2>2, <2>3 DEF SendOne
<1>6. ASSUME NEW r \in Requests, SendCommits(r) PROVE Kept
  <2>1. /\ UNCHANGED <<sweep, blind>> /\ known' = known \union request[r].fresh
        /\ \A s \in Requests : request'[s] = IF s = r THEN Ended ELSE request[s]
    BY <1>0, <1>6 DEF SendCommits, Set, Store
  <2>2. Ended.at = "off" /\ Ended.left = 0 /\ Ended.fresh = {}
    BY DEF Ended
  <2>3. Today' = Today
    BY <2>1, <2>2 DEF Today
  <2>4. LeftInv'
    BY <1>0, <2>1, <2>2 DEF LeftInv
  <2> QED BY <1>0, <2>1, <2>2, <2>3, <2>4, TierKept
<1>7. ASSUME NEW r \in Requests, SendFails(r) PROVE Kept
  <2>1. /\ UNCHANGED sweep /\ blind'
        /\ \A s \in Requests : request'[s] = IF s = r THEN Ended ELSE request[s]
    BY <1>0, <1>7 DEF SendFails, Set
  <2>2. Ended.at = "off" /\ Ended.left = 0 /\ Ended.fresh = {}
    BY DEF Ended
  <2> QED BY <1>0, <2>1, <2>2 DEF LeftInv, TierInv
<1>8. ASSUME SweepBegins PROVE Kept
  <2>1. /\ UNCHANGED <<request, known, blind>> /\ sweep.fresh = {}
        /\ sweep'.at = "next" /\ sweep'.left = 0 /\ sweep'.fresh = {}
    BY <1>0, <1>8 DEF SweepBegins, Asleep, LeftInv
  <2>2. Today' = Today
    BY <2>1 DEF Today
  <2>3. LeftInv'
    BY <1>0, <2>1 DEF LeftInv
  <2> QED BY <1>0, <2>1, <2>2, <2>3, TierKept
<1>9. ASSUME NEW k \in Steps, SweepLooks(k) PROVE Kept
  <2>1. UNCHANGED <<request, known>> /\ blind' = (blind \/ Sending # {}) /\ sweep.at = "next"
    BY <1>9 DEF SweepLooks
  <2>2. ASSUME sweep' = [sweep EXCEPT !.todo = @ \ DueFor(k), !.work =
                           [c \in People |-> IF c \in DueFor(k) THEN "failed" ELSE @[c]]]
        PROVE  Kept
    <3>1. sweep'.at = "next" /\ sweep'.left = sweep.left /\ sweep'.fresh = sweep.fresh
      BY <1>0, <2>1, <2>2 DEF SweepTxs
    <3>2. Today' = Today
      BY <2>1, <3>1 DEF Today
    <3>3. LeftInv'
      BY <1>0, <2>1, <3>1 DEF LeftInv
    <3>4. CASE blind' = blind
      BY <1>0, <2>1, <3>1, <3>2, <3>3, <3>4, TierKept
    <3>5. CASE blind'
      BY <3>3, <3>5 DEF TierInv
    <3>6. blind \in BOOLEAN
      BY <1>0 DEF TypeOK
    <3> QED BY <2>1, <3>4, <3>5, <3>6
  <2>3. ASSUME sweep' = [sweep EXCEPT !.at = "send", !.stage = k,
                                      !.left = Left(known \union sweep.fresh)]
        PROVE  Kept
    <3> DEFINE used == known \union sweep.fresh
    <3>1. sweep'.at = "send" /\ sweep'.left = Left(used) /\ sweep'.fresh = sweep.fresh
      BY <1>0, <2>3 DEF SweepTxs
    <3>2. used \in SUBSET People
      BY <1>0 DEF TypeOK
    <3>3. Cardinality(used) \in Nat
      BY <3>2, CountFacts
    <3> HIDE DEF used
    <3>4. /\ Left(used) \in Nat /\ Left(used) <= Tier
          /\ Cardinality(used) <= Tier => Cardinality(used) + Left(used) <= Tier
      BY <1>0, <3>2, <3>3, LeftType DEF Left
    <3>5. LeftInv'
      BY <1>0, <2>1, <3>1, <3>4 DEF LeftInv
    <3>6. ASSUME ~ blind'
          PROVE  ~ blind /\ \A s \in Requests : request[s].left = 0 /\ request[s].fresh = {}
      BY <1>0, <2>1, <3>6 DEF Sending, LeftInv
    <3>7. ASSUME ~ blind' PROVE Today' = used /\ Today = used
      BY <2>1, <3>1, <3>6, <3>7 DEF Today, used
    <3>8. ASSUME ~ blind' PROVE Cardinality(Today') + Left(used) <= Tier /\ Cardinality(Today') <= Tier
      <4>1. Cardinality(used) + sweep.left <= Tier
        BY <1>0, <3>6, <3>7, <3>8 DEF TierInv
      <4>2. Cardinality(used) <= Tier
        BY <1>0, <3>3, <4>1
      <4>3. Today' = used
        BY <3>7, <3>8
      <4> QED BY <3>4, <4>2, <4>3
    <3>9. ASSUME ~ blind', NEW s \in Requests
          PROVE  /\ Cardinality(Today') + request'[s].left <= Tier
                 /\ request'[s].left = 0
      <4>1. request'[s].left = 0
        BY <2>1, <3>6, <3>9
      <4>2. Cardinality(Today') \in Nat /\ Cardinality(Today') <= Tier
        BY <3>3, <3>7, <3>8, <3>9
      <4> QED BY <4>1, <4>2
    <3>10. TierInv'
      <4> SUFFICES ASSUME ~ blind' PROVE TierInv'
        BY DEF TierInv
      <4> QED BY <3>1, <3>8, <3>9 DEF TierInv
    <3> QED BY <3>5, <3>10
  <2> QED BY <1>9, <2>2, <2>3 DEF SweepLooks
<1>10. ASSUME NEW c \in People, SweepOne(c) PROVE Kept
  <2>1. UNCHANGED <<request, known, blind>> /\ sweep.at = "send"
    BY <1>10 DEF SweepOne
  <2>2. ASSUME sweep'.at = "send", sweep'.left = sweep.left, sweep'.fresh = sweep.fresh PROVE Kept
    <3>1. Today' = Today
      BY <2>1, <2>2 DEF Today
    <3>2. LeftInv'
      BY <1>0, <2>1, <2>2 DEF LeftInv
    <3> QED BY <1>0, <2>1, <2>2, <3>1, <3>2, TierKept
  <2>3. ASSUME sweep' = [sweep EXCEPT !.todo = @ \ {c}] PROVE Kept
    BY <1>0, <2>1, <2>2, <2>3 DEF SweepTxs
  <2>4. ASSUME NEW outcome \in {"skipped", "failed"}, sweep' = Noted(sweep, c, outcome) PROVE Kept
    BY <1>0, <2>1, <2>2, <2>4 DEF Noted, SweepTxs
  <2>5. ASSUME sweep.left > 0, sweep' = AfterSending(sweep, c) PROVE Kept
    <3>1. /\ sweep'.at = "send" /\ sweep'.left = sweep.left - 1
          /\ sweep'.fresh = sweep.fresh \union {c}
      BY <1>0, <2>1, <2>5 DEF AfterSending, SweepTxs
    <3>2. Today' = Today \union {c}
      BY <2>1, <3>1 DEF Today
    <3>3. LeftInv'
      BY <1>0, <2>1, <3>1 DEF LeftInv
    <3> QED BY <1>0, <2>1, <2>5, <3>1, <3>2, <3>3, SweepSpends
  <2> QED BY <1>10, <2>3, <2>4, <2>5 DEF SweepOne
<1>11. ASSUME SweepTurns PROVE Kept
  <2>1. /\ UNCHANGED <<request, known, blind>>
        /\ sweep'.at = "next" /\ sweep'.left = 0 /\ sweep'.fresh = sweep.fresh
    BY <1>0, <1>11 DEF SweepTurns, SweepTxs
  <2>2. Today' = Today
    BY <2>1 DEF Today
  <2>3. LeftInv'
    BY <1>0, <2>1 DEF LeftInv
  <2> QED BY <1>0, <2>1, <2>2, <2>3, TierKept
<1>12. ASSUME SweepStumbles PROVE Kept
  <2>1. UNCHANGED request /\ blind' /\ sweep'.at = "next" /\ sweep'.left = 0
    BY <1>0, <1>12 DEF SweepStumbles, SweepTxs
  <2> QED BY <1>0, <2>1 DEF LeftInv, TierInv
<1>13. ASSUME SweepCommits PROVE Kept
  <2>1. /\ UNCHANGED <<request, blind>> /\ known' = known \union sweep.fresh
        /\ sweep'.at = "off" /\ sweep'.left = 0 /\ sweep'.fresh = {}
    BY <1>13 DEF SweepCommits, Store, Asleep
  <2>2. Today' = Today
    BY <2>1 DEF Today
  <2>3. LeftInv'
    BY <1>0, <2>1 DEF LeftInv
  <2> QED BY <1>0, <2>1, <2>2, <2>3, TierKept
<1>14. ASSUME SweepFails PROVE Kept
  <2>1. UNCHANGED request /\ blind' /\ sweep'.at = "off" /\ sweep'.left = 0 /\ sweep'.fresh = {}
    BY <1>14 DEF SweepFails, Asleep
  <2> QED BY <1>0, <2>1 DEF LeftInv, TierInv
<1>15. ASSUME UNCHANGED vars PROVE Kept
  <2>1. UNCHANGED <<request, sweep, known, blind>>
    BY <1>15 DEF vars
  <2>2. Today' = Today
    BY <2>1 DEF Today
  <2> QED BY <1>0, <2>1, <2>2, TierKept DEF LeftInv
<1>16. Kept
  <2> HIDE DEF Kept
  <2> QED BY <1>1, <1>2, <1>3, <1>4, <1>5, <1>6, <1>7, <1>8, <1>9, <1>10, <1>11, <1>12, <1>13,
             <1>14, <1>15, Zenon DEF Next, SendStep, SweepStep
<1> QED BY <1>0, <1>16 DEF LInv

LEMMA LimitOfToday == LInv /\ ~ blind => Cardinality(Today) <= Tier
<1> SUFFICES ASSUME LInv, ~ blind PROVE Cardinality(Today) <= Tier
  OBVIOUS
<1>1. sweep.left \in Nat /\ Cardinality(Today) \in Nat /\ Cardinality(Today) + sweep.left <= Tier
  BY TodayType, CountFacts DEF LInv, TypeOK, TierInv
<1> QED BY <1>1, CampaignsAssumption

\* The day before, when all its messages were seen, was within the limit as well.
LEMMA DayBefore == LInv /\ Cardinality(before) <= Tier /\ [Next]_vars => Cardinality(before') <= Tier
<1> SUFFICES ASSUME LInv, Cardinality(before) <= Tier, [Next]_vars PROVE Cardinality(before') <= Tier
  OBVIOUS
<1>1. CASE NewDay
  <2>1. CASE blind
    BY <1>1, <2>1, CountFacts, CampaignsAssumption DEF NewDay
  <2>2. CASE ~ blind
    BY <1>1, <2>2, LimitOfToday DEF NewDay
  <2> QED BY <2>1, <2>2
<1>2. ASSUME NEW c \in People, Reply(c) PROVE before' = before
  BY <1>2 DEF Reply
<1>3. ASSUME NEW r \in Requests, SendBegins(r) \/ SendStep(r) \/ SendFails(r) PROVE before' = before
  <2>1. \A c \in People : SendOne(r, c) => before' = before
    BY DEF SendOne
  <2>2. SendReads(r) => before' = before
    BY DEF SendReads
  <2> QED BY <1>3, <2>1, <2>2 DEF SendBegins, SendStep, SendCommits, SendFails
<1>4. ASSUME SweepStep \/ SweepStumbles \/ SweepFails PROVE before' = before
  BY <1>4 DEF SweepStep, SweepBegins, SweepLooks, SweepOne, SweepTurns, SweepCommits, SweepStumbles, SweepFails
<1>5. ASSUME UNCHANGED vars PROVE before' = before
  BY <1>5 DEF vars
<1>6. NewDay \/ before' = before
  BY <1>2, <1>3, <1>4, <1>5, Zenon DEF Next
<1> QED BY <1>1, <1>6

\* "Stops cleanly at the daily limit": nobody is messaged beyond it on a calendar day whose
\* senders counted one after the other and lost nothing, and so at most twice the limit in
\* any 24 hours, for any people, requests, steps and limit.
THEOREM TheLimitIsKept == Spec => []WithinTierByCalendarDay
<1> DEFINE DInv == LInv /\ Cardinality(before) <= Tier
<1>1. Init => DInv
  BY LimitInit, CountFacts, CampaignsAssumption DEF Init
<1>2. DInv /\ [Next]_vars => DInv'
  BY LimitStep, DayBefore
<1>3. DInv => WithinTierByCalendarDay
  <2> SUFFICES ASSUME LInv, Cardinality(before) <= Tier, ~ blind
               PROVE  /\ Cardinality(Today) <= Tier
                      /\ Cardinality(before) + Cardinality(Today) <= 2 * Tier
    BY DEF WithinTierByCalendarDay
  <2>1. Cardinality(Today) \in Nat /\ Cardinality(Today) <= Tier
    BY LimitOfToday, TodayType, CountFacts DEF LInv
  <2>2. Cardinality(before) \in Nat /\ Tier \in Nat
    BY CountFacts, CampaignsAssumption DEF LInv, TypeOK
  <2> QED BY <2>1, <2>2
<1> QED BY <1>1, <1>2, <1>3, PTL DEF Spec
=============================================================================
