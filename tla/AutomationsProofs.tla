------------------------- MODULE AutomationsProofs -------------------------
(***************************************************************************)
(* Proofs about Automations: its types; that a committed step is performed *)
(* once, because every pause is beyond the steps kept and done; that a     *)
(* chain stops for a customer who wrote, because its pauses carry the time *)
(* of its first wait to the gate; and that reentry_days is kept, because the marker is *)
(* that of the start committed last.                                       *)
(***************************************************************************)
EXTENDS Automations, NaturalsInduction, WellFoundedInduction, TLAPS

\* A transaction that is in a chain: about to run a step, or at its gate.
InChain(t) == t.pc \in {"chain", "gate", "resume"}

\* Its step is one of a chain that has no row.
At(t) == t.at \in 1..Len(Chain(t.cur)) /\ t.rows[t.cur] = Never /\ t.cur \notin t.todo

\* A transaction that has nothing.
Empty(p, pc, n) ==
  /\ n \in Transactions /\ n.pc = pc /\ n.cur = Home(p) /\ n.at = 1 /\ n.since = Never /\ n.clock = 0
  /\ n.todo = {} /\ n.took = {} /\ n.acts = {} /\ n.acted = FALSE /\ n.seen = Never
  /\ \A e \in Events : n.rows[e] = Never

\* Where process p is, and in whose chain.
WorkOf(p, t) ==
  /\ t.pc \in IF p = Sweep THEN {"idle", "chain", "gate", "resume", "batch"}
             ELSE {"idle", "chain", "commit", "over"}
  /\ t.pc \in {"idle", "over"} => Empty(p, t.pc, t)
  /\ InChain(t) => At(t)
  /\ p # Sweep => t.cur = p /\ t.since = Never
  /\ \A e \in Events : t.rows[e] # Never => t.rows[e].at \in 1..Len(Chain(e))
  /\ \A e \in t.todo : t.rows[e] # Never

WorkInv ==
  /\ \A e \in Events : row[e] # Never => row[e].at \in 1..Len(Chain(e))
  /\ \A p \in Processes : WorkOf(p, tx[p])

-----------------------------------------------------------------------------
(* What has been performed.                                                *)

\* All acts of e in a set are of steps before step n.
Before(acts, e, n) == \A x \in acts : x[1] = e => x[2] < n

\* Transaction t has e's chain: at the step it is about to run, or at the one it paused at,
\* and that is beyond everything performed.
Beyond(t, e) ==
  LET n == IF InChain(t) /\ t.cur = e THEN t.at ELSE t.rows[e].at IN
  (InChain(t) /\ t.cur = e) \/ t.rows[e] # Never => Before(kept, e, n) /\ Before(t.acts, e, n)

\* An event that is not over is the only one to know its chain.
OwnInv ==
  \A e \in Events :
    /\ tx[e].pc # "over" =>
         row[e] = Never /\ e \notin tx[Sweep].todo \cup tx[Sweep].took /\ \A y \in kept : y[1] # e
    /\ \A x \in tx[e].acts : x[1] = e
    /\ Beyond(tx[e], e)

SweepInv ==
  LET t == tx[Sweep] IN
  /\ t.todo \cap t.took = {}
  /\ InChain(t) => t.cur \in t.took
  /\ \A x \in t.acts : x[1] \in t.took
  /\ \A x \in t.acts, y \in kept : x[1] = y[1] => y[2] < x[2]
  /\ \A e \in t.todo \cup t.took : Beyond(t, e)

PerformedInv ==
  /\ OwnInv /\ SweepInv
  /\ \A e \in Events : row[e] # Never => Before(kept, e, row[e].at)

-----------------------------------------------------------------------------
(* When chains first waited.                                               *)

Dated(pause, e) == pause # Never => begun[e] # Never /\ pause.since = begun[e]

SinceInv ==
  /\ \A e \in Events : Dated(row[e], e) /\ (tx[e].pc = "idle" => begun[e] = Never)
  /\ \A p \in Processes :
       /\ \A e \in Events : Dated(tx[p].rows[e], e)
       /\ InChain(tx[p]) =>
            /\ tx[p].since = begun[tx[p].cur]
            /\ p = Sweep <=> begun[tx[p].cur] # Never

-----------------------------------------------------------------------------
(* Who started before whom.                                                *)

Bounded(r) == r \in alive /\ setup.reentry[r] # Always

\* w's is the marker that the others of rule r in S were followed by: none of them saw it.
LastOf(S, r, w) ==
  w \in S /\ RuleOf(w) = r /\ \A e \in S : RuleOf(e) = r /\ e # w => w \notin saw[e]

Started == {e \in Events : started[e] # Never}
OfRule(S, r) == {e \in S : RuleOf(e) = r}

\* Everything is seen after it was committed, and an event that has started is over.
SawInv ==
  \A e \in Events :
    /\ tx[e].clock <= now /\ (started[e] # Never => started[e] <= now /\ tx[e].pc = "over")
    /\ saw[e] \subseteq Started \ {e}

\* The marker is that of a start which no other of its rule saw.
MarkerInv ==
  \A r \in Rules : Bounded(r) /\ OfRule(Started, r) # {} =>
    marker[r] # Never /\ \E w \in Events : LastOf(Started, r, w) /\ started[w] = marker[r]

\* A start of f at time t is late enough for what f saw.
LateEnough(f, t) ==
  LET r == RuleOf(f) IN
  /\ \A e \in saw[f] : started[e] <= t
  /\ OfRule(saw[f], r) # {} => \E w \in Events : LastOf(saw[f], r, w) /\ t - started[w] >= setup.reentry[r]

StartInv(f) ==
  LET r == RuleOf(f) IN
  Bounded(r) =>
    /\ tx[f].pc \in {"chain", "commit"} =>
         (setup.reentry[r] = 0 => tx[f].seen = Never) /\ LateEnough(f, tx[f].clock)
    /\ started[f] # Never =>
         /\ LateEnough(f, started[f])
         /\ \A e \in Events : e # f /\ RuleOf(e) = r /\ started[e] # Never => setup.reentry[r] # 0

ReentryInv == SawInv /\ MarkerInv /\ \A f \in Events : StartInv(f)

-----------------------------------------------------------------------------
(* The end of the quiet hours.                                             *)

LEMMA TimeTypes ==
  DayLen \in Nat \ {0} /\ Quiet \subseteq 0..(DayLen - 1) /\ Quiet # 0..(DayLen - 1)
BY TimeAssumption

\* The remainder of a number that is k days and q ticks.
LEMMA RemainderOf ==
  ASSUME NEW D \in Nat \ {0}, NEW k \in Int, NEW q \in 0..(D - 1)
  PROVE  (D * k + q) % D = q
<1> DEFINE x == D * k + q
           d == x \div D
           m == x % D
<1>1. x \in Int /\ d \in Int /\ m \in 0..(D - 1) /\ x = D * d + m
  BY SMT
<1>2. D * (k - d) = m - q
  BY <1>1, SMT
<1>3. k - d \in Int /\ m - q < D /\ m - q > -D
  BY <1>1, SMT
<1>4. k - d < 1
  BY <1>2, <1>3, SMT
<1>5. k - d > -1
  BY <1>2, <1>3, SMT
<1>6. k - d = 0
  BY <1>3, <1>4, <1>5, SMT
<1> QED
  BY <1>1, <1>2, <1>6, SMT

\* A set of natural numbers that is not empty has a least element.
LEMMA LeastOf ==
  ASSUME NEW T, T \subseteq Nat, T # {}
  PROVE  \E x \in T : \A y \in T : x <= y
<1>1. \E x \in T : \A y \in T : ~(<<y, x>> \in OpToRel(<, Nat))
  BY NatLessThanWellFounded, WFMin, Zenon
<1>2. \E x \in T : \A y \in T : ~(y < x)
  BY <1>1, Zenon DEF OpToRel
<1> QED
  BY <1>2, SMT

\* After a quiet tick, there is one within a day that is not.
LEMMA SomeNotQuiet ==
  ASSUME NEW t \in Nat, IsQuiet(t)
  PROVE  \E u \in (t + 1)..(t + DayLen) : ~IsQuiet(u)
<1>1. PICK q \in 0..(DayLen - 1) : q \notin Quiet
  BY TimeTypes
<1> DEFINE m == t % DayLen
           k == t \div DayLen
<1>2. m \in 0..(DayLen - 1) /\ k \in Int /\ t = DayLen * k + m
  BY TimeTypes, SMT
<1>3. m # q
  BY <1>1 DEF IsQuiet
<1>4. ASSUME q > m PROVE \E u \in (t + 1)..(t + DayLen) : ~IsQuiet(u)
  <2>1. DayLen * k + q \in (t + 1)..(t + DayLen)
    BY <1>1, <1>2, <1>4, TimeTypes, SMT
  <2>2. (DayLen * k + q) % DayLen = q
    BY <1>1, <1>2, RemainderOf, TimeTypes, Zenon
  <2> QED
    BY <1>1, <2>1, <2>2 DEF IsQuiet
<1>5. ASSUME q < m PROVE \E u \in (t + 1)..(t + DayLen) : ~IsQuiet(u)
  <2>1. k + 1 \in Int /\ DayLen * (k + 1) + q = DayLen * k + DayLen + q
    BY <1>1, <1>2, TimeTypes, SMT
  <2>2. DayLen * (k + 1) + q \in (t + 1)..(t + DayLen)
    BY <1>1, <1>2, <1>5, <2>1, TimeTypes, SMT
  <2>3. (DayLen * (k + 1) + q) % DayLen = q
    BY <1>1, <2>1, RemainderOf, TimeTypes, Zenon
  <2> QED
    BY <1>1, <2>2, <2>3 DEF IsQuiet
<1> QED
  BY <1>1, <1>2, <1>3, <1>4, <1>5

\* So quiet_until, asked at a quiet tick, has an answer, and it is later.
LEMMA QuietEnds ==
  ASSUME NEW t \in Nat, IsQuiet(t)
  PROVE  QuietEnd(t) \in Nat /\ QuietEnd(t) > t
<1> DEFINE T == {u \in Nat : u > t /\ ~IsQuiet(u)}
<1>1. PICK w \in (t + 1)..(t + DayLen) : ~IsQuiet(w)
  BY SomeNotQuiet
<1>2. w \in T
  BY <1>1, TimeTypes
<1>3. PICK u \in T : \A y \in T : u <= y
  BY <1>2, LeastOf
<1>4. u \in (t + 1)..(t + DayLen) /\ ~IsQuiet(u)
  BY <1>1, <1>2, <1>3, TimeTypes
<1>5. \A v \in t..(u - 1) : IsQuiet(v)
  BY <1>3
<1>6. QuietEnd(t) \in (t + 1)..(t + DayLen)
  BY <1>4, <1>5 DEF QuietEnd
<1> QED
  BY <1>6, TimeTypes

-----------------------------------------------------------------------------
(* What a round makes of a transaction.                                    *)

LEMMA ChainTypes ==
  ASSUME setup \in Setups, NEW e \in Events
  PROVE  /\ RuleOf(e) \in Rules /\ Chain(e) \in Seq(Steps)
         /\ \A r \in Rules : setup.reentry[r] \in Nat \cup {Always}
         /\ \A n \in 1..Len(Chain(e)) : Chain(e)[n] \in Steps
<1>1. setup \in [rule: [Events -> Rules], chain: [Rules -> Seq(Steps)], reentry: [Rules -> Nat \cup {Always}]]
  BY SetupAssumption
<1>2. RuleOf(e) \in Rules /\ \A r \in Rules : setup.reentry[r] \in Nat \cup {Always}
  BY <1>1 DEF RuleOf
<1>3. Chain(e) \in Seq(Steps)
  BY <1>1, <1>2 DEF Chain
<1> QED
  BY <1>2, <1>3

Kind(p) == IF p = Sweep THEN "batch" ELSE "commit"

\* What no round changes.
Keeps(t, n) ==
  n.cur = t.cur /\ n.clock = t.clock /\ n.todo = t.todo /\ n.took = t.took /\ n.seen = t.seen

TxTypes(t) ==
  /\ t.pc \in {"idle", "chain", "gate", "resume", "batch", "commit", "over"} /\ t.cur \in Events /\ t.at \in Nat
  /\ t.since \in Moments \cup {Never} /\ t.clock \in Moments /\ t.todo \in SUBSET Events
  /\ t.rows \in [Events -> Pauses \cup {Never}] /\ t.took \in SUBSET Events
  /\ t.acts \in SUBSET Acts /\ t.acted \in BOOLEAN /\ t.seen \in Moments \cup {Never}

LEMMA TransactionTypes ==
  ASSUME NEW t \in Transactions
  PROVE  TxTypes(t)
BY DEF Transactions, TxTypes

LEMMA EndedFields ==
  ASSUME NEW t \in Transactions, NEW p, NEW n, n = Ended(p, t)
  PROVE  /\ Keeps(t, n) /\ n.pc = Kind(p) /\ n.at = 1 /\ n.since = Never /\ n.rows = t.rows /\ n.acts = t.acts
         /\ n \in Transactions
<1>1. TxTypes(t)
  BY TransactionTypes
<1>2. /\ Keeps(t, n) /\ n.pc = Kind(p) /\ n.at = 1 /\ n.since = Never /\ n.rows = t.rows /\ n.acts = t.acts
      /\ n.acted = t.acted
  BY DEF Transactions, Keeps, Ended, Kind
<1>3. TxTypes(n)
  BY <1>1, <1>2 DEF TxTypes, Keeps, Kind
<1>4. n \in Transactions
  BY <1>3 DEF Transactions, TxTypes, Ended
<1> QED
  BY <1>2, <1>4

\* The transaction has gone on to its next step, or is at the end of its chain.
Moved(p, t, n) ==
  /\ n.rows = t.rows
  /\ \/ n.pc = "chain" /\ n.at = t.at + 1 /\ n.at \in 1..Len(Chain(t.cur)) /\ n.since = t.since
     \/ n.pc = Kind(p) /\ n.since = Never

LEMMA OnwardFields ==
  ASSUME setup \in Setups, NEW t \in Transactions, t.at \in 1..Len(Chain(t.cur)), NEW p, NEW n, n = Onward(p, t)
  PROVE  Keeps(t, n) /\ Moved(p, t, n) /\ n.acts = t.acts /\ n \in Transactions
<1>1. ASSUME t.at = Len(Chain(t.cur))
      PROVE Keeps(t, n) /\ Moved(p, t, n) /\ n.acts = t.acts /\ n \in Transactions
  <2>1. n = Ended(p, t)
    BY <1>1 DEF Onward
  <2> QED
    BY <2>1, EndedFields DEF Moved
<1>2. ASSUME t.at # Len(Chain(t.cur))
      PROVE Keeps(t, n) /\ Moved(p, t, n) /\ n.acts = t.acts /\ n \in Transactions
  <2>1. TxTypes(t)
    BY TransactionTypes
  <2>2. n = [t EXCEPT !.pc = "chain", !.at = t.at + 1]
    BY <1>2 DEF Onward
  <2>3. /\ Keeps(t, n) /\ n.pc = "chain" /\ n.at = t.at + 1 /\ n.since = t.since /\ n.rows = t.rows /\ n.acts = t.acts
        /\ n.acted = t.acted
    BY <2>2 DEF Transactions, Keeps
  <2>4. TxTypes(n)
    BY <2>1, <2>3 DEF TxTypes, Keeps
  <2>5. n \in Transactions
    BY <2>2, <2>4 DEF Transactions, TxTypes
  <2>6. Len(Chain(t.cur)) \in Nat
    BY <2>1, ChainTypes DEF TxTypes
  <2>7. n.at \in 1..Len(Chain(t.cur))
    BY <1>2, <2>1, <2>3, <2>6 DEF TxTypes
  <2> QED
    BY <2>3, <2>5, <2>7 DEF Moved
<1> QED
  BY <1>1, <1>2

\* What the pause carries along as the time of the chain's start.
SinceOf(t) == IF t.since = Never THEN now ELSE t.since
PauseOf(t, due) == [at |-> t.at, since |-> SinceOf(t), due |-> due]

LEMMA PausedFields ==
  ASSUME now \in Moments, NEW t \in Transactions, NEW p, NEW due \in Nat, NEW n, n = Paused(p, t, due)
  PROVE  /\ Keeps(t, n) /\ n.pc = Kind(p) /\ n.since = Never /\ n.acts = t.acts
         /\ n.rows = [t.rows EXCEPT ![t.cur] = PauseOf(t, due)]
         /\ n \in Transactions
<1>1. TxTypes(t)
  BY TransactionTypes
<1> DEFINE rows == [t.rows EXCEPT ![t.cur] = PauseOf(t, due)]
           held == [t EXCEPT !.acted = TRUE, !.rows = rows]
<1>2. held = [t EXCEPT !.acted = TRUE, !.rows[t.cur] = PauseOf(t, due)]
  BY DEF Transactions
<1>3. n = Ended(p, held)
  BY <1>2 DEF Paused, PauseOf, SinceOf
<1>4. PauseOf(t, due) \in Pauses
  BY <1>1 DEF PauseOf, SinceOf, TxTypes, Pauses
<1>5. rows \in [Events -> Pauses \cup {Never}]
  BY <1>1, <1>4 DEF TxTypes
<1> HIDE DEF rows
<1>6. /\ Keeps(t, held) /\ held.pc = t.pc /\ held.at = t.at /\ held.since = t.since /\ held.acts = t.acts
      /\ held.rows = rows /\ held.acted = TRUE
  BY DEF Transactions, Keeps
<1>7. TxTypes(held)
  BY <1>1, <1>5, <1>6 DEF TxTypes, Keeps
<1>8. held \in Transactions
  BY <1>7 DEF Transactions, TxTypes
<1> HIDE DEF held
<1>9. /\ Keeps(held, n) /\ n.pc = Kind(p) /\ n.since = Never /\ n.acts = held.acts /\ n.rows = held.rows
      /\ n \in Transactions
  BY <1>3, <1>8, EndedFields
<1> QED
  BY <1>6, <1>9 DEF Keeps, rows

LEMMA PerformedFields ==
  ASSUME setup \in Setups, NEW t \in Transactions, t.at \in 1..Len(Chain(t.cur)), NEW p, NEW u \in Nat,
         NEW n \in Performed(p, t, u)
  PROVE  /\ Keeps(t, n) /\ Moved(p, t, n) /\ n \in Transactions
         /\ \/ n.acts = t.acts
            \/ Day(u) \in Nat /\ n.acts = t.acts \cup {<<t.cur, t.at, Day(u)>>}
<1>1. TxTypes(t)
  BY TransactionTypes
<1> DEFINE x == <<t.cur, t.at, Day(u)>>
           done == [t EXCEPT !.acted = TRUE, !.acts = t.acts \cup {x}]
<1>2. n = Onward(p, done) \/ n = Onward(p, t)
  BY DEF Performed
<1>3. Day(u) \in Nat
  BY TimeTypes DEF Day
<1>4. x \in Acts
  BY <1>1, <1>3 DEF Acts, TxTypes
<1> HIDE DEF x
<1>5. /\ Keeps(t, done) /\ done.pc = t.pc /\ done.at = t.at /\ done.since = t.since /\ done.rows = t.rows
      /\ done.acts = t.acts \cup {x} /\ done.acted = TRUE
  BY DEF Transactions, Keeps
<1>6. TxTypes(done)
  BY <1>1, <1>4, <1>5 DEF TxTypes, Keeps
<1>7. done \in Transactions
  BY <1>6 DEF Transactions, TxTypes
<1>8. done.at \in 1..Len(Chain(done.cur))
  BY <1>5 DEF Keeps
<1> HIDE DEF done
<1>9. ASSUME n = Onward(p, done)
      PROVE Keeps(t, n) /\ Moved(p, t, n) /\ n \in Transactions /\ n.acts = t.acts \cup {x}
  <2>1. Keeps(done, n) /\ Moved(p, done, n) /\ n.acts = done.acts /\ n \in Transactions
    BY <1>7, <1>8, <1>9, OnwardFields
  <2> QED
    BY <1>5, <2>1 DEF Keeps, Moved
<1>10. ASSUME n = Onward(p, t)
       PROVE Keeps(t, n) /\ Moved(p, t, n) /\ n \in Transactions /\ n.acts = t.acts
  BY <1>10, OnwardFields
<1> QED
  BY <1>2, <1>3, <1>9, <1>10 DEF x

\* A step is done once: at its gate, if stop_if is asked for it; or the chain pauses at it; or
\* it comes to its gate, and nobody had written.
AtItsGate(t) == t.pc \in {"gate", "resume"}
Done(t, n) ==
  \/ n.acts = t.acts
  \/ /\ \E d \in Nat : n.acts = t.acts \cup {<<t.cur, t.at, d>>}
     /\ ~Asks(t, Chain(t.cur)[t.at]) \/ AtItsGate(t)
Pausing(p, t, n) ==
  /\ n.pc = Kind(p) /\ n.since = Never /\ n.acts = t.acts
  /\ \E due \in Nat : n.rows = [t.rows EXCEPT ![t.cur] = PauseOf(t, due)]
Passed(t, n) ==
  /\ AtItsGate(n) /\ n.at = t.at /\ n.since = t.since /\ n.rows = t.rows /\ n.acts = t.acts
  /\ t.since # Never /\ ~Stopped(t)

Round(p, t, n) ==
  /\ Keeps(t, n) /\ n \in Transactions
  /\ (Moved(p, t, n) /\ Done(t, n)) \/ Pausing(p, t, n) \/ Passed(t, n)

LEMMA OutcomesAreRounds ==
  ASSUME TypeOK, NEW t \in Transactions, t.at \in 1..Len(Chain(t.cur)), NEW p, NEW u \in Nat,
         ~Asks(t, Chain(t.cur)[t.at]) \/ AtItsGate(t), NEW n \in Outcomes(p, t, u)
  PROVE  Round(p, t, n)
<1> DEFINE step == Chain(t.cur)[t.at]
<1>0. setup \in Setups /\ now \in Moments
  BY DEF TypeOK
<1>1. ASSUME Held(step, u) PROVE Round(p, t, n)
  <2>1. n = Paused(p, t, QuietEnd(u))
    BY <1>1 DEF Outcomes
  <2>2. QuietEnd(u) \in Nat
    BY <1>1, QuietEnds DEF Held
  <2>3. \E due \in Nat : n = Paused(p, t, due)
    BY <2>1, <2>2
  <2>4. PICK due \in Nat : n = Paused(p, t, due)
    BY <2>3
  <2>5. /\ Keeps(t, n) /\ n.pc = Kind(p) /\ n.since = Never /\ n.acts = t.acts
        /\ n.rows = [t.rows EXCEPT ![t.cur] = PauseOf(t, due)] /\ n \in Transactions
    BY <1>0, <2>4, PausedFields
  <2>6. Pausing(p, t, n)
    BY <2>4, <2>5 DEF Pausing
  <2> QED
    BY <2>5, <2>6 DEF Round
<1>2. ASSUME ~Held(step, u), OverCap(t, step, u) PROVE Round(p, t, n)
  <2>1. n = Onward(p, t)
    BY <1>2 DEF Outcomes
  <2> QED
    BY <1>0, <2>1, OnwardFields DEF Round, Done
<1>3. ASSUME ~Held(step, u), ~OverCap(t, step, u) PROVE Round(p, t, n)
  <2>1. n \in Performed(p, t, u)
    BY <1>3 DEF Outcomes
  <2>2. /\ Keeps(t, n) /\ Moved(p, t, n) /\ n \in Transactions
        /\ \/ n.acts = t.acts
           \/ Day(u) \in Nat /\ n.acts = t.acts \cup {<<t.cur, t.at, Day(u)>>}
    BY <1>0, <2>1, PerformedFields
  <2>3. Done(t, n)
    BY <2>2 DEF Done
  <2> QED
    BY <2>2, <2>3 DEF Round
<1> QED
  BY <1>1, <1>2, <1>3

\* The transaction at the gate of its step.
LEMMA GateFields ==
  ASSUME NEW t \in Transactions, NEW gate \in {"gate", "resume"}, NEW n, n = [t EXCEPT !.pc = gate]
  PROVE  /\ Keeps(t, n) /\ AtItsGate(n) /\ n.at = t.at /\ n.since = t.since /\ n.rows = t.rows
         /\ n.acts = t.acts /\ n \in Transactions
<1>1. TxTypes(t)
  BY TransactionTypes
<1>2. /\ Keeps(t, n) /\ n.pc = gate /\ n.at = t.at /\ n.since = t.since /\ n.rows = t.rows
      /\ n.acts = t.acts /\ n.acted = t.acted
  BY DEF Transactions, Keeps
<1>3. TxTypes(n)
  BY <1>1, <1>2 DEF TxTypes, Keeps
<1>4. n \in Transactions
  BY <1>3 DEF Transactions, TxTypes
<1> QED
  BY <1>2, <1>4 DEF AtItsGate

LEMMA AfterWaitAreRounds ==
  ASSUME TypeOK, NEW t \in Transactions, t.at \in 1..Len(Chain(t.cur)), NEW p, NEW u \in Nat,
         NEW gate \in {"gate", "resume"}, NEW n \in AfterWait(p, t, u, gate)
  PROVE  Round(p, t, n)
<1> DEFINE step == Chain(t.cur)[t.at]
<1>1. ASSUME ~Asks(t, step) PROVE Round(p, t, n)
  <2>1. n \in Outcomes(p, t, u)
    BY <1>1 DEF AfterWait
  <2> QED
    BY <1>1, <2>1, OutcomesAreRounds
<1>2. ASSUME Asks(t, step), Stopped(t) PROVE Round(p, t, n)
  <2>1. n = Ended(p, t)
    BY <1>2 DEF AfterWait
  <2> QED
    BY <2>1, EndedFields DEF Round, Moved, Done
<1>3. ASSUME Asks(t, step), ~Stopped(t) PROVE Round(p, t, n)
  <2>1. n = [t EXCEPT !.pc = gate]
    BY <1>3 DEF AfterWait
  <2>2. t.since # Never
    BY <1>3 DEF Asks
  <2> QED
    BY <1>3, <2>1, <2>2, GateFields DEF Round, Passed
<1> QED
  BY <1>1, <1>2, <1>3

\* What the first step of a row taken up starts from.
TakenOf(e) ==
  LET t == tx[Sweep] IN
  [t EXCEPT !.cur = e, !.todo = @ \ {e}, !.took = @ \cup {e},
            !.at = t.rows[e].at, !.since = t.rows[e].since, !.rows[e] = Never]

LEMMA TakenFields ==
  ASSUME TypeOK, WorkInv, NEW e \in Events, tx[Sweep].pc = "batch", e \in tx[Sweep].todo
  PROVE  LET t == tx[Sweep] n == TakenOf(e) IN
         /\ n \in Transactions /\ n.pc = "batch" /\ n.cur = e /\ n.at = t.rows[e].at /\ n.since = t.rows[e].since
         /\ n.todo = t.todo \ {e} /\ n.took = t.took \cup {e} /\ n.rows = [t.rows EXCEPT ![e] = Never]
         /\ n.acts = t.acts /\ n.clock = t.clock /\ n.seen = t.seen
         /\ t.rows[e] \in Pauses /\ n.at \in 1..Len(Chain(e))
<1> DEFINE t == tx[Sweep]
           n == TakenOf(e)
<1>1. t \in Transactions
  BY DEF TypeOK, Processes
<1>2. TxTypes(t)
  BY <1>1, TransactionTypes
<1>3. t.rows[e] \in Pauses /\ t.rows[e].at \in 1..Len(Chain(e))
  BY <1>2 DEF WorkInv, WorkOf, TxTypes, Processes
<1> DEFINE rows == [t.rows EXCEPT ![e] = Never]
<1>4. n = [t EXCEPT !.cur = e, !.todo = t.todo \ {e}, !.took = t.took \cup {e},
                    !.at = t.rows[e].at, !.since = t.rows[e].since, !.rows = rows]
  BY <1>1 DEF TakenOf, Transactions
<1>5. rows \in [Events -> Pauses \cup {Never}]
  BY <1>2 DEF TxTypes
<1> HIDE DEF rows, t, n
<1>6. /\ n.pc = t.pc /\ n.cur = e /\ n.at = t.rows[e].at /\ n.since = t.rows[e].since
      /\ n.todo = t.todo \ {e} /\ n.took = t.took \cup {e} /\ n.rows = rows
      /\ n.acts = t.acts /\ n.clock = t.clock /\ n.seen = t.seen /\ n.acted = t.acted
  BY <1>1, <1>4 DEF Transactions
<1>7. t.rows[e].at \in Nat /\ t.rows[e].since \in Moments
  BY <1>3 DEF Pauses
<1>8. TxTypes(n)
  BY <1>2, <1>5, <1>6, <1>7 DEF TxTypes
<1>9. n \in Transactions
  BY <1>1, <1>4, <1>8 DEF Transactions, TxTypes
<1>10. t.pc = "batch"
  BY DEF t
<1> QED
  BY <1>3, <1>6, <1>9, <1>10 DEF rows, t, n

\* Process p runs a step from t: its own transaction, or the sweep's with the row it takes up.
Ready(p, t) ==
  /\ t \in Transactions /\ At(t) /\ (p # Sweep => t.cur = p /\ t.since = Never)
  /\ \A e \in Events : t.rows[e] # Never => t.rows[e].at \in 1..Len(Chain(e))
  /\ \A e \in t.todo : t.rows[e] # Never
Runs(p, t, n) == Ready(p, t) /\ Round(p, t, n) /\ tx' = [tx EXCEPT ![p] = n]

LEMMA ChainStepRuns ==
  ASSUME TypeOK, WorkInv, NEW p \in Processes, ChainStep(p)
  PROVE  \E n : Runs(p, tx[p], n)
<1> DEFINE t == tx[p]
           step == Chain(t.cur)[t.at]
<1>1. t \in Transactions /\ setup \in Setups /\ now \in Moments /\ now \in Nat
  BY TimeAssumption DEF TypeOK, Moments
<1>2. WorkOf(p, t) /\ At(t)
  BY DEF WorkInv, WorkOf, ChainStep, InChain
<1>3. TxTypes(t)
  BY <1>1, TransactionTypes
<1>4. Ready(p, t) /\ t.at \in 1..Len(Chain(t.cur))
  BY <1>1, <1>2 DEF Ready, WorkOf, At
<1>5. step \in Steps
  BY <1>1, <1>3, <1>4, ChainTypes DEF TxTypes
<1>6. \/ tx' = [tx EXCEPT ![p] = Onward(p, t)]
      \/ tx' = [tx EXCEPT ![p] = Paused(p, t, now + step.wait)]
      \/ \E n \in AfterWait(p, t, now, "gate") : tx' = [tx EXCEPT ![p] = n]
  BY DEF ChainStep
<1>7. ASSUME tx' = [tx EXCEPT ![p] = Onward(p, t)]
      PROVE \E n : Runs(p, t, n)
  <2> DEFINE n == Onward(p, t)
  <2>1. Keeps(t, n) /\ Moved(p, t, n) /\ n.acts = t.acts /\ n \in Transactions
    BY <1>1, <1>4, OnwardFields
  <2>2. Round(p, t, n)
    BY <2>1 DEF Round, Done
  <2> QED
    BY <1>4, <1>7, <2>2 DEF Runs
<1>8. ASSUME tx' = [tx EXCEPT ![p] = Paused(p, t, now + step.wait)]
      PROVE \E n : Runs(p, t, n)
  <2>1. now + step.wait \in Nat
    BY <1>1, <1>5 DEF Steps
  <2>2. PICK due \in Nat : due = now + step.wait
    BY <2>1
  <2>3. PICK n : n = Paused(p, t, due)
    OBVIOUS
  <2>4. /\ Keeps(t, n) /\ n.pc = Kind(p) /\ n.since = Never /\ n.acts = t.acts
        /\ n.rows = [t.rows EXCEPT ![t.cur] = PauseOf(t, due)] /\ n \in Transactions
    BY <1>1, <2>2, <2>3, PausedFields
  <2>5. Round(p, t, n)
    BY <2>2, <2>4 DEF Round, Pausing
  <2> QED
    BY <1>4, <1>8, <2>2, <2>3, <2>5 DEF Runs
<1>9. ASSUME NEW n \in AfterWait(p, t, now, "gate"), tx' = [tx EXCEPT ![p] = n]
      PROVE \E m : Runs(p, t, m)
  <2>1. Round(p, t, n)
    BY <1>1, <1>4, <1>9, AfterWaitAreRounds
  <2> QED
    BY <1>4, <1>9, <2>1 DEF Runs
<1> QED
  BY <1>6, <1>7, <1>8, <1>9

LEMMA SweepTakeRuns ==
  ASSUME TypeOK, WorkInv, NEW e \in Events, SweepTake(e)
  PROVE  \E n : Runs(Sweep, TakenOf(e), n)
<1> DEFINE t == tx[Sweep]
           m == TakenOf(e)
<1>1. t.pc = "batch" /\ e \in t.todo
  BY DEF SweepTake
<1>2. /\ m \in Transactions /\ m.cur = e /\ m.at = t.rows[e].at
      /\ m.todo = t.todo \ {e} /\ m.rows = [t.rows EXCEPT ![e] = Never]
      /\ m.clock = t.clock /\ m.at \in 1..Len(Chain(e))
  BY <1>1, TakenFields
<1>3. WorkOf(Sweep, t) /\ t \in Transactions
  BY DEF WorkInv, TypeOK, Processes
<1>4. TxTypes(t)
  BY <1>3, TransactionTypes
<1>5. \E n \in AfterWait(Sweep, m, t.clock, "resume") : tx' = [tx EXCEPT ![Sweep] = n]
  BY DEF SweepTake, TakenOf
<1>6. t.clock \in Nat
  BY <1>4, TimeAssumption DEF TxTypes, Moments
<1> HIDE DEF m, t
<1>7. At(m)
  BY <1>2, <1>4 DEF At, TxTypes
<1>8. \A f \in Events : m.rows[f] # Never => m.rows[f].at \in 1..Len(Chain(f))
  BY <1>2, <1>3, <1>4 DEF WorkOf, TxTypes
<1>9. \A f \in m.todo : m.rows[f] # Never
  BY <1>2, <1>3, <1>4 DEF WorkOf, TxTypes
<1>10. Ready(Sweep, m)
  BY <1>2, <1>7, <1>8, <1>9 DEF Ready
<1>11. PICK n \in AfterWait(Sweep, m, t.clock, "resume") : tx' = [tx EXCEPT ![Sweep] = n]
  BY <1>5
<1>12. Round(Sweep, m, n)
  BY <1>2, <1>6, <1>11, AfterWaitAreRounds
<1>13. Runs(Sweep, m, n)
  BY <1>10, <1>11, <1>12 DEF Runs
<1> QED
  BY <1>13 DEF m

LEMMA SweepPassesRuns ==
  ASSUME TypeOK, WorkInv, SweepPasses
  PROVE  \E n : Runs(Sweep, tx[Sweep], n)
<1> DEFINE t == tx[Sweep]
           u == IF t.pc = "gate" THEN now ELSE t.clock
<1>1. WorkOf(Sweep, t) /\ t \in Transactions /\ AtItsGate(t)
  BY DEF WorkInv, TypeOK, Processes, SweepPasses, AtItsGate
<1>2. TxTypes(t)
  BY <1>1, TransactionTypes
<1>3. PICK n \in Outcomes(Sweep, t, u) : tx' = [tx EXCEPT ![Sweep] = n]
  BY DEF SweepPasses
<1>4. u \in Nat
  BY <1>2, TimeAssumption DEF TypeOK, TxTypes, Moments
<1> HIDE DEF t, u
<1>5. At(t)
  BY <1>1 DEF WorkOf, InChain, AtItsGate
<1>6. Ready(Sweep, t)
  BY <1>1, <1>5 DEF Ready, WorkOf
<1>7. Round(Sweep, t, n)
  BY <1>1, <1>3, <1>4, <1>5, OutcomesAreRounds DEF At
<1> QED
  BY <1>3, <1>6, <1>7 DEF Runs, t

-----------------------------------------------------------------------------
(* Types, and where processes are.                                         *)

LEMMA ConstantTypes ==
  /\ 0 \in Moments /\ Moments \subseteq Nat /\ Never \notin Moments /\ Never \notin Nat /\ Always \notin Nat
  /\ Sweep \notin Events /\ Sweep \in Processes /\ Events \subseteq Processes
  /\ MaxTime \in Nat /\ MaxReplies \in Nat /\ MaxFaults \in Nat
BY TimeAssumption, NameAssumption DEF Moments, Processes

LEMMA HomeTypes ==
  ASSUME NEW p \in Processes
  PROVE  Home(p) \in Events /\ (p # Sweep => Home(p) = p /\ p \in Events)
BY SetupAssumption DEF Home, Processes

LEMMA CleanFields ==
  ASSUME NEW p \in Processes, NEW pc \in {"idle", "over"}
  PROVE  Empty(p, pc, Clean(Home(p), pc))
<1> DEFINE n == Clean(Home(p), pc)
<1>1. Home(p) \in Events
  BY HomeTypes
<1>2. /\ n.pc = pc /\ n.cur = Home(p) /\ n.at = 1 /\ n.since = Never /\ n.clock = 0
      /\ n.todo = {} /\ n.took = {} /\ n.acts = {} /\ n.acted = FALSE /\ n.seen = Never
      /\ n.rows = [f \in Events |-> Never]
  BY DEF Clean
<1>3. n.rows \in [Events -> Pauses \cup {Never}] /\ \A e \in Events : n.rows[e] = Never
  BY <1>2
<1>4. n.pc \in {"idle", "over"} /\ n.cur \in Events /\ n.at \in Nat /\ n.since \in Moments \cup {Never}
      /\ n.clock \in Moments /\ n.seen \in Moments \cup {Never}
  BY <1>1, <1>2, ConstantTypes
<1>5. n \in Transactions
  BY <1>2, <1>3, <1>4 DEF Transactions, Clean
<1> QED
  BY <1>2, <1>3, <1>5 DEF Empty

LEMMA GoneFields ==
  ASSUME NEW p \in Processes, NEW n, n = Gone(p)
  PROVE  /\ Empty(p, n.pc, n) /\ n.pc = (IF p = Sweep THEN "idle" ELSE "over")
         /\ WorkOf(p, n)
<1> DEFINE pc == IF p = Sweep THEN "idle" ELSE "over"
<1>1. n = Clean(Home(p), pc) /\ pc \in {"idle", "over"}
  BY DEF Gone
<1> HIDE DEF pc
<1>2. Empty(p, pc, n)
  BY <1>1, CleanFields
<1>3. n.pc = pc /\ n.pc = (IF p = Sweep THEN "idle" ELSE "over")
  BY <1>2 DEF Empty, pc
<1>4. WorkOf(p, n)
  BY <1>1, <1>2, <1>3, HomeTypes DEF WorkOf, Empty, InChain
<1> QED
  BY <1>2, <1>3, <1>4

\* A process that runs a step has its work in order after it.
LEMMA RunWork ==
  ASSUME setup \in Setups, NEW p \in Processes, NEW t, NEW n, Runs(p, t, n)
  PROVE  n \in Transactions /\ WorkOf(p, n)
<1>1. /\ t \in Transactions /\ At(t) /\ (p # Sweep => t.cur = p /\ t.since = Never)
      /\ Keeps(t, n) /\ n \in Transactions
      /\ \A e \in Events : t.rows[e] # Never => t.rows[e].at \in 1..Len(Chain(e))
      /\ \A e \in t.todo : t.rows[e] # Never
      /\ (Moved(p, t, n) \/ Pausing(p, t, n) \/ Passed(t, n))
  BY DEF Runs, Ready, Round
<1>2. TxTypes(t)
  BY <1>1, TransactionTypes
<1>3. ASSUME Moved(p, t, n) PROVE WorkOf(p, n)
  <2>1. InChain(n) => At(n)
    BY <1>1, <1>3 DEF Moved, At, Keeps, Kind, InChain
  <2>2. n.rows = t.rows /\ n.cur = t.cur /\ n.todo = t.todo /\ n.pc \in {"chain", Kind(p)}
        /\ n.since \in {t.since, Never}
    BY <1>1, <1>3 DEF Moved, Keeps
  <2> QED
    BY <1>1, <2>1, <2>2 DEF WorkOf, Kind
<1>4. ASSUME Pausing(p, t, n) PROVE WorkOf(p, n)
  <2>1. PICK due \in Nat : n.rows = [t.rows EXCEPT ![t.cur] = PauseOf(t, due)]
    BY <1>4 DEF Pausing
  <2>2. n.pc = Kind(p) /\ n.since = Never /\ n.cur = t.cur /\ n.todo = t.todo
    BY <1>1, <1>4 DEF Pausing, Keeps
  <2>3. \A e \in Events : n.rows[e] = IF e = t.cur THEN PauseOf(t, due) ELSE t.rows[e]
    BY <1>2, <2>1 DEF TxTypes
  <2>4. PauseOf(t, due).at \in 1..Len(Chain(t.cur))
    BY <1>1 DEF PauseOf, At
  <2>5. \A e \in Events : n.rows[e] # Never => n.rows[e].at \in 1..Len(Chain(e))
    BY <1>1, <2>3, <2>4
  <2>6. \A e \in n.todo : n.rows[e] # Never
    BY <1>1, <1>2, <2>2, <2>3 DEF At, TxTypes
  <2> QED
    BY <1>1, <2>2, <2>5, <2>6 DEF WorkOf, Kind, InChain
<1>5. ASSUME Passed(t, n) PROVE WorkOf(p, n)
  <2>1. p = Sweep
    BY <1>1, <1>5 DEF Passed
  <2>2. n.rows = t.rows /\ n.cur = t.cur /\ n.todo = t.todo /\ n.pc \in {"gate", "resume"} /\ At(n)
    BY <1>1, <1>5 DEF Passed, Keeps, At, AtItsGate
  <2> QED
    BY <1>1, <2>1, <2>2 DEF WorkOf
<1> QED
  BY <1>1, <1>3, <1>4, <1>5

LEMMA OneMoves ==
  ASSUME TypeOK, WorkInv, setup' = setup, NEW p \in Processes, NEW n \in Transactions, WorkOf(p, n),
         tx' = [tx EXCEPT ![p] = n]
  PROVE  /\ tx' \in [Processes -> Transactions] /\ \A q \in Processes : WorkOf(q, tx[q])'
         /\ tx'[p] = n /\ \A q \in Processes : q # p => tx'[q] = tx[q]
<1>1. tx \in [Processes -> Transactions]
  BY DEF TypeOK
<1>2. tx' \in [Processes -> Transactions] /\ tx'[p] = n /\ \A q \in Processes : q # p => tx'[q] = tx[q]
  BY <1>1
<1>3. ASSUME NEW q \in Processes PROVE WorkOf(q, tx[q])'
  <2>1. PICK d : d = tx'[q]
    OBVIOUS
  <2>2. WorkOf(q, d)
    BY <1>2, <2>1 DEF WorkInv
  <2> QED
    BY <2>1, <2>2 DEF WorkOf, At, Chain, RuleOf, InChain
<1> QED
  BY <1>2, <1>3

\* Rows that are as they were, or taken over from a transaction, or gone.
LEMMA RowsStay ==
  ASSUME TypeOK, WorkInv, setup' = setup,
         \A e \in Events : row'[e] = Never \/ row'[e] = row[e] \/ \E p \in Processes : row'[e] = tx[p].rows[e]
  PROVE  \A e \in Events : (row[e] # Never => row[e].at \in 1..Len(Chain(e)))'
<1> SUFFICES ASSUME NEW e \in Events, row'[e] # Never
             PROVE  (row[e].at \in 1..Len(Chain(e)))'
  OBVIOUS
<1>1. ASSUME row'[e] = row[e] PROVE (row[e].at \in 1..Len(Chain(e)))'
  BY <1>1 DEF WorkInv, Chain, RuleOf
<1>2. ASSUME NEW p \in Processes, row'[e] = tx[p].rows[e] PROVE (row[e].at \in 1..Len(Chain(e)))'
  BY <1>2 DEF WorkInv, WorkOf, Chain, RuleOf
<1> QED
  BY <1>1, <1>2

LEMMA StartTypes ==
  ASSUME TypeOK, WorkInv, NEW e \in Events, Start(e)
  PROVE  TypeOK' /\ WorkInv'
<1> DEFINE t == tx[e]
           r == RuleOf(e)
<1>0. e \in Processes /\ e # Sweep
  BY ConstantTypes
<1>1. t.pc = "idle" /\ t \in Transactions /\ WorkOf(e, t) /\ setup' = setup
  BY <1>0 DEF Start, WorkInv, TypeOK
<1>3. Empty(e, "idle", t)
  BY <1>1 DEF WorkOf
<1>4. marker[r] \in Moments \cup {Never} /\ now \in Moments
  BY <1>1, ChainTypes DEF TypeOK
<1>5. TxTypes(t) /\ t.cur = e
  BY <1>0, <1>1, TransactionTypes DEF WorkOf
<1> HIDE DEF t, r
<1>6. ASSUME Chain(e) # <<>>, MayStart(r, marker[r]),
             tx' = [tx EXCEPT ![e].pc = "chain", ![e].seen = marker[r], ![e].clock = now],
             saw' = [saw EXCEPT ![e] = {f \in Events : started[f] # Never}]
      PROVE TypeOK' /\ WorkInv'
  <2> DEFINE n == [t EXCEPT !.pc = "chain", !.seen = marker[r], !.clock = now]
  <2>1. tx' = [tx EXCEPT ![e] = n]
    BY <1>0, <1>6 DEF TypeOK, t
  <2>2. /\ n.pc = "chain" /\ n.seen = marker[r] /\ n.clock = now /\ n.cur = t.cur /\ n.at = t.at /\ n.since = t.since
        /\ n.todo = t.todo /\ n.rows = t.rows /\ n.took = t.took /\ n.acts = t.acts /\ n.acted = t.acted
    BY <1>1 DEF Transactions
  <2>3. n \in Transactions
    BY <1>1, <1>4, <1>5, <2>2 DEF Transactions, TxTypes
  <2> HIDE DEF n
  <2>4. 1 \in 1..Len(Chain(e))
    BY <1>6, ChainTypes DEF TypeOK
  <2>5. At(n)
    BY <1>3, <1>5, <2>2, <2>4 DEF At, Empty
  <2>6. WorkOf(e, n)
    BY <1>0, <1>1, <1>3, <1>5, <2>2, <2>5 DEF WorkOf, Empty
  <2>7. tx' \in [Processes -> Transactions] /\ \A q \in Processes : WorkOf(q, tx[q])'
    BY <1>0, <1>1, <2>1, <2>3, <2>6, OneMoves
  <2>8. saw' \in [Events -> SUBSET Events]
    BY <1>6 DEF TypeOK
  <2>9. TypeOK'
    BY <2>7, <2>8 DEF TypeOK, Start, Moments
  <2>10. \A f \in Events : (row[f] # Never => row[f].at \in 1..Len(Chain(f)))'
    BY RowsStay, <1>1 DEF Start
  <2> QED
    BY <2>7, <2>9, <2>10 DEF WorkInv
<1>7. ASSUME tx' = [tx EXCEPT ![e].pc = "over"], saw' = saw PROVE TypeOK' /\ WorkInv'
  <2> DEFINE n == [t EXCEPT !.pc = "over"]
  <2>1. tx' = [tx EXCEPT ![e] = n]
    BY <1>0, <1>7 DEF TypeOK, t
  <2>2. /\ n.pc = "over" /\ n.cur = t.cur /\ n.at = t.at /\ n.since = t.since /\ n.clock = t.clock /\ n.seen = t.seen
        /\ n.todo = t.todo /\ n.rows = t.rows /\ n.took = t.took /\ n.acts = t.acts /\ n.acted = t.acted
    BY <1>1 DEF Transactions
  <2>3. n \in Transactions
    BY <1>1 DEF Transactions
  <2>8. Empty(e, "over", n)
    BY <1>3, <2>2, <2>3 DEF Empty
  <2> HIDE DEF n
  <2>4. WorkOf(e, n)
    BY <1>0, <2>8, HomeTypes DEF WorkOf, Empty, InChain
  <2>5. tx' \in [Processes -> Transactions] /\ \A q \in Processes : WorkOf(q, tx[q])'
    BY <1>0, <1>1, <2>1, <2>3, <2>4, OneMoves
  <2>6. TypeOK'
    BY <1>7, <2>5 DEF TypeOK, Start, Moments
  <2>7. \A f \in Events : (row[f] # Never => row[f].at \in 1..Len(Chain(f)))'
    BY RowsStay, <1>1 DEF Start
  <2> QED
    BY <2>5, <2>6, <2>7 DEF WorkInv
<1> QED
  BY <1>6, <1>7 DEF Start, r

LEMMA ChainStepTypes ==
  ASSUME TypeOK, WorkInv, NEW p \in Processes, ChainStep(p)
  PROVE  TypeOK' /\ WorkInv'
<1>1. PICK n : Runs(p, tx[p], n)
  BY ChainStepRuns
<1>2. n \in Transactions /\ WorkOf(p, n) /\ tx' = [tx EXCEPT ![p] = n]
  BY <1>1, RunWork DEF TypeOK, Runs
<1>3. setup' = setup
  BY DEF ChainStep
<1>4. tx' \in [Processes -> Transactions] /\ \A q \in Processes : WorkOf(q, tx[q])'
  BY <1>2, <1>3, OneMoves
<1>5. begun' \in [Events -> Moments \cup {Never}]
  BY DEF ChainStep, TypeOK
<1>6. TypeOK'
  BY <1>4, <1>5 DEF TypeOK, ChainStep, Moments
<1>7. \A f \in Events : (row[f] # Never => row[f].at \in 1..Len(Chain(f)))'
  BY RowsStay, <1>3 DEF ChainStep
<1> QED
  BY <1>4, <1>6, <1>7 DEF WorkInv

LEMMA SweepTakeTypes ==
  ASSUME TypeOK, WorkInv, NEW e \in Events, SweepTake(e)
  PROVE  TypeOK' /\ WorkInv'
<1>1. PICK n : Runs(Sweep, TakenOf(e), n)
  BY SweepTakeRuns
<1>2. n \in Transactions /\ WorkOf(Sweep, n) /\ tx' = [tx EXCEPT ![Sweep] = n]
  BY <1>1, RunWork, ConstantTypes DEF TypeOK, Runs
<1>3. setup' = setup
  BY DEF SweepTake
<1>4. tx' \in [Processes -> Transactions] /\ \A q \in Processes : WorkOf(q, tx[q])'
  BY <1>2, <1>3, OneMoves, ConstantTypes
<1>5. TypeOK'
  BY <1>4 DEF TypeOK, SweepTake, Moments, history
<1>6. \A f \in Events : (row[f] # Never => row[f].at \in 1..Len(Chain(f)))'
  BY RowsStay, <1>3 DEF SweepTake
<1> QED
  BY <1>4, <1>5, <1>6 DEF WorkInv

LEMMA SweepPassesTypes ==
  ASSUME TypeOK, WorkInv, SweepPasses
  PROVE  TypeOK' /\ WorkInv'
<1>1. PICK n : Runs(Sweep, tx[Sweep], n)
  BY SweepPassesRuns
<1>2. n \in Transactions /\ WorkOf(Sweep, n) /\ tx' = [tx EXCEPT ![Sweep] = n]
  BY <1>1, RunWork, ConstantTypes DEF TypeOK, Runs
<1>3. setup' = setup
  BY DEF SweepPasses
<1>4. tx' \in [Processes -> Transactions] /\ \A q \in Processes : WorkOf(q, tx[q])'
  BY <1>2, <1>3, OneMoves, ConstantTypes
<1>5. TypeOK'
  BY <1>4 DEF TypeOK, SweepPasses, Moments, history
<1>6. \A f \in Events : (row[f] # Never => row[f].at \in 1..Len(Chain(f)))'
  BY RowsStay, <1>3 DEF SweepPasses
<1> QED
  BY <1>4, <1>5, <1>6 DEF WorkInv

\* The sweep that begins holds a copy of the rows, and nothing else.
LEMMA BeginFields ==
  ASSUME TypeOK, WorkInv, SweepBegin
  PROVE  \E n \in Transactions :
           /\ tx' = [tx EXCEPT ![Sweep] = n] /\ n.pc = "batch" /\ n.todo = DueRows /\ n.took = {} /\ n.acts = {}
           /\ n.rows = row /\ n.clock = now
<1> DEFINE t == tx[Sweep]
           n == [t EXCEPT !.pc = "batch", !.todo = DueRows, !.clock = now, !.rows = row]
<1>1. tx' = [tx EXCEPT ![Sweep] = n]
  BY ConstantTypes DEF SweepBegin, TypeOK
<1>2. t \in Transactions /\ Empty(Sweep, "idle", t)
  BY ConstantTypes DEF SweepBegin, TypeOK, WorkInv, WorkOf
<1>3. TxTypes(t)
  BY <1>2, TransactionTypes
<1> HIDE DEF t
<1>4. /\ n.pc = "batch" /\ n.todo = DueRows /\ n.clock = now /\ n.rows = row /\ n.cur = t.cur /\ n.at = t.at
      /\ n.since = t.since /\ n.took = t.took /\ n.acts = t.acts /\ n.acted = t.acted /\ n.seen = t.seen
  BY <1>2 DEF Transactions
<1>5. DueRows \in SUBSET Events /\ row \in [Events -> Pauses \cup {Never}] /\ now \in Moments
  BY DEF DueRows, TypeOK
<1>6. n \in Transactions
  BY <1>2, <1>3, <1>4, <1>5 DEF Transactions, TxTypes
<1> HIDE DEF n
<1>7. n.took = {} /\ n.acts = {}
  BY <1>2, <1>4 DEF Empty
<1> QED
  BY <1>1, <1>4, <1>6, <1>7

LEMMA SweepBeginTypes ==
  ASSUME TypeOK, WorkInv, SweepBegin
  PROVE  TypeOK' /\ WorkInv'
<1>1. PICK n \in Transactions :
           /\ tx' = [tx EXCEPT ![Sweep] = n] /\ n.pc = "batch" /\ n.todo = DueRows
           /\ n.rows = row
  BY BeginFields
<1>2. WorkOf(Sweep, n)
  BY <1>1 DEF WorkOf, WorkInv, DueRows, InChain
<1>3. setup' = setup
  BY DEF SweepBegin
<1>4. tx' \in [Processes -> Transactions] /\ \A q \in Processes : WorkOf(q, tx[q])'
  BY <1>1, <1>2, <1>3, OneMoves, ConstantTypes
<1>5. TypeOK'
  BY <1>4 DEF TypeOK, SweepBegin, Moments, history
<1>6. \A f \in Events : (row[f] # Never => row[f].at \in 1..Len(Chain(f)))'
  BY RowsStay, <1>3 DEF SweepBegin
<1> QED
  BY <1>4, <1>5, <1>6 DEF WorkInv

LEMMA FailTypes ==
  ASSUME TypeOK, WorkInv, NEW p \in Processes, Fail(p)
  PROVE  TypeOK' /\ WorkInv'
<1>1. PICK n : n = Gone(p)
  OBVIOUS
<1>2. n \in Transactions /\ WorkOf(p, n) /\ tx' = [tx EXCEPT ![p] = n]
  BY <1>1, GoneFields DEF Fail, Empty
<1>3. setup' = setup
  BY DEF Fail
<1>4. tx' \in [Processes -> Transactions] /\ \A q \in Processes : WorkOf(q, tx[q])'
  BY <1>2, <1>3, OneMoves
<1>5. TypeOK'
  BY <1>4, ConstantTypes DEF TypeOK, Fail, Moments, history
<1>6. \A f \in Events : (row[f] # Never => row[f].at \in 1..Len(Chain(f)))'
  BY RowsStay, <1>3 DEF Fail
<1> QED
  BY <1>4, <1>5, <1>6 DEF WorkInv

LEMMA CommitTypes ==
  ASSUME TypeOK, WorkInv, NEW p \in Processes, Commit(p)
  PROVE  TypeOK' /\ WorkInv'
<1> DEFINE t == tx[p]
<1>1. PICK n : n = Gone(p)
  OBVIOUS
<1>2. n \in Transactions /\ WorkOf(p, n) /\ tx' = [tx EXCEPT ![p] = n]
  BY <1>1, GoneFields DEF Commit, Empty
<1>3. setup' = setup
  BY DEF Commit
<1>4. tx' \in [Processes -> Transactions] /\ \A q \in Processes : WorkOf(q, tx[q])'
  BY <1>2, <1>3, OneMoves
<1>5. TxTypes(t)
  BY TransactionTypes DEF TypeOK
<1> HIDE DEF t
<1>6. ASSUME ~Broken(p) PROVE
        /\ row' = [e \in Events |-> IF e \in (IF p = Sweep THEN t.took ELSE {p}) THEN t.rows[e] ELSE row[e]]
        /\ kept' = kept \cup t.acts
        /\ started' = started \/ started' = [started EXCEPT ![p] = t.clock]
        /\ marker' = marker \/ marker' = [marker EXCEPT ![RuleOf(p)] = t.clock]
  BY <1>6 DEF Commit, t
<1>7. ASSUME Broken(p) PROVE row' = row /\ kept' = kept /\ started' = started /\ marker' = marker
  BY <1>7 DEF Commit
<1>8. /\ row' \in [Events -> Pauses \cup {Never}] /\ kept' \subseteq Acts
      /\ started' \in [Events -> Moments \cup {Never}] /\ marker' \in [Rules -> Moments \cup {Never}]
  BY <1>5, <1>6, <1>7 DEF TypeOK, TxTypes
<1>9. TypeOK'
  BY <1>4, <1>8 DEF TypeOK, Commit, Moments
<1>10. \A e \in Events : row'[e] = Never \/ row'[e] = row[e] \/ row'[e] = tx[p].rows[e]
  BY <1>6, <1>7 DEF t
<1>11. \A f \in Events : (row[f] # Never => row[f].at \in 1..Len(Chain(f)))'
  BY RowsStay, <1>3, <1>10
<1> QED
  BY <1>4, <1>9, <1>11 DEF WorkInv

\* What does not touch a transaction leaves its work in order.
LEMMA NoneMoves ==
  ASSUME TypeOK, WorkInv, setup' = setup, tx' = tx
  PROVE  tx' \in [Processes -> Transactions] /\ \A q \in Processes : WorkOf(q, tx[q])'
BY DEF TypeOK, WorkInv, WorkOf, At, Chain, RuleOf, InChain

LEMMA DeleteTypes ==
  ASSUME TypeOK, WorkInv, NEW r \in Rules, Delete(r)
  PROVE  TypeOK' /\ WorkInv'
<1>1. setup' = setup /\ tx' = tx
  BY DEF Delete
<1>2. tx' \in [Processes -> Transactions] /\ \A q \in Processes : WorkOf(q, tx[q])'
  BY <1>1, NoneMoves
<1>3. \A f \in Events : (row[f] # Never => row[f].at \in 1..Len(Chain(f)))'
  BY RowsStay, <1>1 DEF Delete
<1>4. row' \in [Events -> Pauses \cup {Never}] /\ marker' \in [Rules -> Moments \cup {Never}]
  BY DEF Delete, TypeOK
<1>5. TypeOK'
  BY <1>2, <1>4, ConstantTypes DEF TypeOK, Delete, Moments, history
<1> QED
  BY <1>2, <1>3, <1>5 DEF WorkInv

LEMMA InitTypes ==
  ASSUME Init
  PROVE  TypeOK /\ WorkInv
<1>1. ASSUME NEW p \in Processes PROVE Empty(p, "idle", tx[p])
  BY <1>1, CleanFields DEF Init
<1>2. tx \in [Processes -> Transactions]
  BY <1>1 DEF Init, Empty
<1>3. TypeOK
  BY <1>2, ConstantTypes DEF TypeOK, Init, Moments
<1>4. ASSUME NEW p \in Processes PROVE WorkOf(p, tx[p])
  BY <1>1, HomeTypes DEF Empty, WorkOf, InChain
<1> QED
  BY <1>3, <1>4 DEF WorkInv, Init

\* Every step keeps the types and everybody's work in order.
LEMMA NextTypes ==
  ASSUME TypeOK, WorkInv, Next
  PROVE  TypeOK' /\ WorkInv'
<1>1. ASSUME Tick \/ Reply PROVE TypeOK' /\ WorkInv'
  <2>1. setup' = setup /\ tx' = tx
    BY <1>1 DEF Tick, Reply
  <2>2. tx' \in [Processes -> Transactions] /\ \A q \in Processes : WorkOf(q, tx[q])'
    BY <2>1, NoneMoves
  <2>3. \A f \in Events : (row[f] # Never => row[f].at \in 1..Len(Chain(f)))'
    BY RowsStay, <1>1, <2>1 DEF Tick, Reply
  <2>4. TypeOK'
    BY <1>1, <2>2, ConstantTypes DEF TypeOK, Tick, Reply, Moments, history
  <2> QED
    BY <2>2, <2>3, <2>4 DEF WorkInv
<1>2. ASSUME NEW p \in Processes, ChainStep(p) \/ Commit(p) \/ Fail(p) PROVE TypeOK' /\ WorkInv'
  BY <1>2, ChainStepTypes, CommitTypes, FailTypes
<1> QED
  BY <1>1, <1>2, DeleteTypes, StartTypes, SweepBeginTypes, SweepTakeTypes, SweepPassesTypes, ConstantTypes
     DEF Next, EventStep, SweepStep

LEMMA StepTypes ==
  ASSUME TypeOK, WorkInv, [Next]_vars
  PROVE  TypeOK' /\ WorkInv'
<1>1. ASSUME UNCHANGED vars PROVE TypeOK' /\ WorkInv'
  BY <1>1 DEF TypeOK, WorkInv, WorkOf, At, Chain, RuleOf, InChain, vars, Moments
<1> QED
  BY <1>1, NextTypes

\* The types of the variables: pauses and their times among them, so that quiet hours do end.
THEOREM TypeCorrect == Spec => []TypeOK
<1>1. Init => TypeOK /\ WorkInv
  BY InitTypes
<1>2. TypeOK /\ WorkInv /\ [Next]_vars => TypeOK' /\ WorkInv'
  BY StepTypes
<1> QED
  BY <1>1, <1>2, PTL DEF Spec

-----------------------------------------------------------------------------
(* No step is performed again.                                             *)

\* The chain has been performed up to t's place in it, not further.
Reached(t) == Before(kept, t.cur, t.at) /\ Before(t.acts, t.cur, t.at)

LEMMA RunBeyond ==
  ASSUME TypeOK, NEW p, NEW t, NEW n, Runs(p, t, n), Reached(t)
  PROVE  /\ Beyond(n, t.cur)
         /\ \A x \in n.acts : x \in t.acts \/ (x[1] = t.cur /\ x[2] = t.at)
         /\ \A e \in Events : e # t.cur /\ Beyond(t, e) => Beyond(n, e)
         /\ \A e \in Events : e # t.cur => n.rows[e] = t.rows[e]
<1>1. /\ t \in Transactions /\ At(t) /\ Keeps(t, n) /\ n \in Transactions
      /\ (Moved(p, t, n) /\ Done(t, n)) \/ Pausing(p, t, n) \/ Passed(t, n)
  BY DEF Runs, Ready, Round
<1>2. TxTypes(t) /\ TxTypes(n)
  BY <1>1, TransactionTypes
<1>3. \A x \in n.acts : x \in t.acts \/ (x[1] = t.cur /\ x[2] = t.at)
  BY <1>1 DEF Done, Pausing, Passed
<1>4. n.cur = t.cur /\ t.rows[t.cur] = Never
  BY <1>1 DEF Keeps, At
<1>5. \A e \in Events : e # t.cur => n.rows[e] = t.rows[e]
  BY <1>1, <1>2 DEF Moved, Pausing, Passed, TxTypes
<1>6. Before(kept, t.cur, t.at) /\ Before(t.acts, t.cur, t.at)
  BY DEF Reached
<1>7. \A x \in kept \cup n.acts : x[2] \in Nat
  BY <1>2 DEF TypeOK, TxTypes, Acts
<1>8. ASSUME InChain(n) PROVE n.at = t.at + 1 \/ (n.at = t.at /\ n.acts = t.acts)
  BY <1>1, <1>8 DEF Moved, Pausing, Passed, Kind, InChain
<1>9. ASSUME InChain(n) PROVE Beyond(n, t.cur)
  <2>1. Before(kept, t.cur, n.at) /\ Before(n.acts, t.cur, n.at)
    <3>1. CASE n.at = t.at + 1
      BY <1>2, <1>3, <1>6, <1>7, <3>1 DEF Before, TxTypes
    <3>2. CASE n.at = t.at /\ n.acts = t.acts
      BY <1>6, <3>2
    <3> QED
      BY <1>8, <1>9, <3>1, <3>2
  <2> QED
    BY <1>4, <1>9, <2>1 DEF Beyond
<1>10. ASSUME ~InChain(n), n.rows[t.cur] # Never PROVE Beyond(n, t.cur)
  <2>1. Pausing(p, t, n)
    BY <1>1, <1>4, <1>10 DEF Moved, Passed
  <2>2. n.rows[t.cur].at = t.at /\ n.acts = t.acts
    BY <1>2, <2>1 DEF Pausing, PauseOf, TxTypes
  <2> QED
    BY <1>4, <1>6, <1>10, <2>2 DEF Beyond
<1>11. Beyond(n, t.cur)
  BY <1>9, <1>10 DEF Beyond
<1>12. ASSUME NEW e \in Events, e # t.cur, t.rows[e] # Never, Beyond(t, e) PROVE Beyond(n, e)
  <2>1. Before(kept, e, t.rows[e].at) /\ Before(t.acts, e, t.rows[e].at)
    BY <1>12 DEF Beyond
  <2>2. Before(n.acts, e, t.rows[e].at)
    BY <1>3, <1>12, <2>1 DEF Before
  <2> QED
    BY <1>4, <1>5, <1>12, <2>1, <2>2 DEF Beyond
<1>13. ASSUME NEW e \in Events, e # t.cur, t.rows[e] = Never PROVE Beyond(n, e)
  BY <1>4, <1>5, <1>13 DEF Beyond
<1> QED
  BY <1>3, <1>5, <1>11, <1>12, <1>13

LEMMA TxTypesOf ==
  ASSUME TypeOK, NEW p \in Processes
  PROVE  tx[p] \in Transactions /\ TxTypes(tx[p])
BY TransactionTypes DEF TypeOK

\* A committed step and one of a transaction are never the same.
LEMMA PerformedOnceHolds ==
  ASSUME TypeOK, WorkInv, PerformedInv
  PROVE  PerformedOnce
<1> SUFFICES ASSUME NEW p \in Processes, NEW x \in tx[p].acts, NEW y \in kept, x[1] = y[1]
             PROVE  x[2] # y[2]
  BY DEF PerformedOnce
<1>1. x \in Acts /\ y \in Acts
  BY TxTypesOf DEF TypeOK, TxTypes
<1>2. ASSUME p = Sweep PROVE x[2] # y[2]
  <2>1. y[2] < x[2]
    BY <1>2 DEF PerformedInv, SweepInv
  <2> QED
    BY <1>1, <2>1 DEF Acts
<1>3. ASSUME p # Sweep PROVE FALSE
  <2>1. p \in Events /\ WorkOf(p, tx[p])
    BY <1>3 DEF Processes, WorkInv
  <2>2. tx[p].pc # "over"
    BY <2>1 DEF WorkOf, Empty
  <2>3. x[1] = p /\ y[1] # p
    BY <2>1, <2>2 DEF PerformedInv, OwnInv
  <2> QED
    BY <2>3
<1> QED
  BY <1>2, <1>3

\* What the invariant says of the transactions is left alone by what leaves them alone.
LEMMA OwnStays ==
  ASSUME NEW e \in Events, PerformedInv, tx'[e] = tx[e], kept' = kept,
         row'[e] = Never \/ row'[e] = row[e] \/ tx[e].pc = "over",
         e \in (tx[Sweep].todo \cup tx[Sweep].took)' =>
           e \in tx[Sweep].todo \cup tx[Sweep].took \/ tx[e].pc = "over"
  PROVE  (/\ tx[e].pc # "over" =>
              row[e] = Never /\ e \notin tx[Sweep].todo \cup tx[Sweep].took /\ \A y \in kept : y[1] # e
          /\ \A x \in tx[e].acts : x[1] = e
          /\ Beyond(tx[e], e))'
<1>1. /\ tx[e].pc # "over" =>
           row[e] = Never /\ e \notin tx[Sweep].todo \cup tx[Sweep].took /\ \A y \in kept : y[1] # e
      /\ \A x \in tx[e].acts : x[1] = e
      /\ Beyond(tx[e], e)
  BY DEF PerformedInv, OwnInv
<1>2. Beyond(tx[e], e)'
  BY <1>1 DEF Beyond, Before
<1> QED
  BY <1>1, <1>2

LEMMA SweepStays ==
  ASSUME PerformedInv, tx'[Sweep] = tx[Sweep], kept' = kept
  PROVE  SweepInv'
<1>1. SweepInv
  BY DEF PerformedInv
<1> QED
  BY <1>1 DEF SweepInv, Beyond, Before

\* An event runs a step of its chain.
LEMMA OwnChainStep ==
  ASSUME TypeOK, WorkInv, PerformedInv, NEW p \in Events, ChainStep(p)
  PROVE  PerformedInv'
<1> DEFINE t == tx[p]
<1>0. p \in Processes /\ p # Sweep /\ Sweep \in Processes
  BY ConstantTypes
<1>1. PICK n : Runs(p, t, n)
  BY <1>0, ChainStepRuns
<1>2. tx'[p] = n /\ \A q \in Processes : q # p => tx'[q] = tx[q]
  BY <1>0, <1>1 DEF Runs, TypeOK
<1>3. row' = row /\ kept' = kept
  BY DEF ChainStep
<1>4. t.pc = "chain" /\ t.cur = p /\ n.cur = p /\ n.pc # "over"
  BY <1>0, <1>1 DEF ChainStep, Runs, Ready, Round, Keeps, Moved, Pausing, Passed, AtItsGate, Kind
<1>5. /\ row[p] = Never /\ p \notin tx[Sweep].todo \cup tx[Sweep].took /\ \A y \in kept : y[1] # p
      /\ \A x \in t.acts : x[1] = p
      /\ Beyond(t, p)
  BY <1>4 DEF PerformedInv, OwnInv
<1>6. Reached(t)
  BY <1>4, <1>5 DEF Beyond, Reached, InChain
<1>7. Beyond(n, p) /\ \A x \in n.acts : x \in t.acts \/ (x[1] = p /\ x[2] = t.at)
  BY <1>1, <1>4, <1>6, RunBeyond
<1>8. \A x \in n.acts : x[1] = p
  BY <1>5, <1>7
<1>9. Beyond(tx[p], p)'
  BY <1>2, <1>3, <1>7 DEF Beyond, Before
<1>10. OwnInv'
  <2> SUFFICES ASSUME NEW e \in Events
               PROVE (/\ tx[e].pc # "over" =>
                           row[e] = Never /\ e \notin tx[Sweep].todo \cup tx[Sweep].took /\ \A y \in kept : y[1] # e
                      /\ \A x \in tx[e].acts : x[1] = e
                      /\ Beyond(tx[e], e))'
    BY DEF OwnInv
  <2>1. ASSUME e = p
        PROVE /\ row'[e] = Never /\ e \notin (tx[Sweep].todo \cup tx[Sweep].took)' /\ \A y \in kept' : y[1] # e
              /\ \A x \in tx'[e].acts : x[1] = e
    BY <1>0, <1>2, <1>3, <1>5, <1>8, <2>1
  <2>2. e # p => tx'[e] = tx[e]
    BY <1>2, ConstantTypes
  <2>3. tx'[Sweep] = tx[Sweep]
    BY <1>0, <1>2
  <2> QED
    BY <1>3, <1>9, <2>1, <2>2, <2>3, OwnStays
<1>11. SweepInv'
  BY <1>0, <1>2, <1>3, SweepStays
<1>12. \A e \in Events : (row[e] # Never => Before(kept, e, row[e].at))'
  BY <1>3 DEF PerformedInv, Before
<1> QED
  BY <1>10, <1>11, <1>12 DEF PerformedInv

\* The sweep runs a step of a chain it has, or takes one up.
LEMMA SweepRun ==
  ASSUME TypeOK, WorkInv, PerformedInv, row' = row, kept' = kept,
         NEW t, NEW n, Runs(Sweep, t, n), Reached(t), t.acts = tx[Sweep].acts,
         t.todo \cup t.took = tx[Sweep].todo \cup tx[Sweep].took, tx[Sweep].took \subseteq t.took,
         t.todo \cap t.took = {}, t.cur \in t.took,
         \A e \in t.todo \cup t.took : e # t.cur => Beyond(t, e)
  PROVE  PerformedInv'
<1>0. Sweep \in Processes /\ \A e \in Events : e # Sweep /\ e \in Processes
  BY ConstantTypes
<1>1. tx'[Sweep] = n /\ \A e \in Events : tx'[e] = tx[e]
  BY <1>0 DEF Runs, TypeOK
<1>2. /\ Beyond(n, t.cur)
      /\ \A x \in n.acts : x \in t.acts \/ (x[1] = t.cur /\ x[2] = t.at)
      /\ \A e \in Events : e # t.cur /\ Beyond(t, e) => Beyond(n, e)
  BY RunBeyond
<1>3. n.todo = t.todo /\ n.took = t.took /\ n.cur = t.cur /\ t \in Transactions
  BY DEF Runs, Ready, Round, Keeps
<1>4. TxTypes(t)
  BY <1>3, TransactionTypes
<1>5. OwnInv'
  <2> SUFFICES ASSUME NEW e \in Events
               PROVE (/\ tx[e].pc # "over" =>
                           row[e] = Never /\ e \notin tx[Sweep].todo \cup tx[Sweep].took /\ \A y \in kept : y[1] # e
                      /\ \A x \in tx[e].acts : x[1] = e
                      /\ Beyond(tx[e], e))'
    BY DEF OwnInv
  <2>1. (tx[Sweep].todo \cup tx[Sweep].took)' = tx[Sweep].todo \cup tx[Sweep].took
    BY <1>1, <1>3
  <2> QED
    BY <1>1, <2>1, OwnStays
<1>6. SweepInv
  BY DEF PerformedInv
<1>7. \A x \in n.acts : x[1] \in n.took
  <2>1. \A x \in t.acts : x[1] \in tx[Sweep].took
    BY <1>6 DEF SweepInv
  <2> QED
    BY <1>2, <1>3, <2>1
<1>8. \A x \in n.acts, y \in kept : x[1] = y[1] => y[2] < x[2]
  BY <1>2, <1>6 DEF SweepInv, Reached, Before
<1>9. \A e \in n.todo \cup n.took : Beyond(n, e)
  BY <1>2, <1>3, <1>4 DEF TxTypes
<1>10. \A e \in n.todo \cup n.took : Beyond(n, e)'
  BY <1>9 DEF Beyond, Before
<1>11. PICK d : d = tx'[Sweep]
  OBVIOUS
<1>12. d = n
  BY <1>1, <1>11
<1>13. \A e \in d.todo \cup d.took : Beyond(d, e)'
  BY <1>10, <1>12
<1>14. SweepInv'
  BY <1>3, <1>7, <1>8, <1>11, <1>12, <1>13 DEF SweepInv, Beyond, Before
<1>15. \A e \in Events : (row[e] # Never => Before(kept, e, row[e].at))'
  BY DEF PerformedInv, Before
<1> QED
  BY <1>5, <1>14, <1>15 DEF PerformedInv

LEMMA SweepChainStep ==
  ASSUME TypeOK, WorkInv, PerformedInv, ChainStep(Sweep) \/ SweepPasses
  PROVE  PerformedInv'
<1> DEFINE t == tx[Sweep]
<1>1. PICK n : Runs(Sweep, t, n)
  BY ChainStepRuns, SweepPassesRuns, ConstantTypes
<1>3. InChain(t) /\ row' = row /\ kept' = kept
  BY DEF ChainStep, SweepPasses, InChain
<1>2. /\ t.todo \cap t.took = {} /\ t.cur \in t.took
      /\ \A e \in t.todo \cup t.took : Beyond(t, e)
  BY <1>3 DEF PerformedInv, SweepInv
<1>4. Reached(t)
  BY <1>2, <1>3 DEF Reached, Beyond
<1> QED
  BY <1>1, <1>2, <1>3, <1>4, SweepRun

LEMMA SweepTakeStep ==
  ASSUME TypeOK, WorkInv, PerformedInv, NEW e \in Events, SweepTake(e)
  PROVE  PerformedInv'
<1> DEFINE t == tx[Sweep]
           m == TakenOf(e)
<1>1. t.pc = "batch" /\ e \in t.todo /\ row' = row /\ kept' = kept
  BY DEF SweepTake
<1>2. /\ m \in Transactions /\ m.pc = "batch" /\ m.cur = e /\ m.at = t.rows[e].at
      /\ m.todo = t.todo \ {e} /\ m.took = t.took \cup {e} /\ m.rows = [t.rows EXCEPT ![e] = Never]
      /\ m.acts = t.acts
  BY <1>1, TakenFields
<1>3. PICK n : Runs(Sweep, m, n)
  BY SweepTakeRuns
<1>4. TxTypes(t) /\ t.rows[e] # Never
  BY <1>1, TxTypesOf, ConstantTypes DEF WorkInv, WorkOf
<1>5. t.todo \cap t.took = {} /\ \A f \in t.todo \cup t.took : Beyond(t, f)
  BY DEF PerformedInv, SweepInv
<1> HIDE DEF t, m
<1>6. Reached(m)
  BY <1>1, <1>2, <1>4, <1>5 DEF Reached, Beyond, InChain
<1>7. \A f \in m.todo \cup m.took : f # e => Beyond(m, f)
  BY <1>1, <1>2, <1>4, <1>5 DEF Beyond, InChain, TxTypes
<1>8. m.todo \cup m.took = t.todo \cup t.took /\ t.took \subseteq m.took /\ m.todo \cap m.took = {} /\ m.cur \in m.took
  BY <1>1, <1>2, <1>5
<1>9. /\ m.acts = tx[Sweep].acts /\ m.todo \cup m.took = tx[Sweep].todo \cup tx[Sweep].took
      /\ tx[Sweep].took \subseteq m.took
  BY <1>2, <1>8 DEF t
<1> QED
  BY <1>1, <1>2, <1>3, <1>6, <1>7, <1>8, <1>9, SweepRun

LEMMA SweepBeginStep ==
  ASSUME TypeOK, WorkInv, PerformedInv, SweepBegin
  PROVE  PerformedInv'
<1>1. PICK n \in Transactions :
           /\ tx' = [tx EXCEPT ![Sweep] = n] /\ n.pc = "batch" /\ n.todo = DueRows /\ n.took = {} /\ n.acts = {}
           /\ n.rows = row
  BY BeginFields
<1>2. tx'[Sweep] = n /\ \A e \in Events : tx'[e] = tx[e]
  BY <1>1, ConstantTypes DEF TypeOK
<1>3. row' = row /\ kept' = kept
  BY DEF SweepBegin
<1>4. OwnInv'
  <2> SUFFICES ASSUME NEW e \in Events
               PROVE (/\ tx[e].pc # "over" =>
                           row[e] = Never /\ e \notin tx[Sweep].todo \cup tx[Sweep].took /\ \A y \in kept : y[1] # e
                      /\ \A x \in tx[e].acts : x[1] = e
                      /\ Beyond(tx[e], e))'
    BY DEF OwnInv
  <2>1. e \in (tx[Sweep].todo \cup tx[Sweep].took)' => tx[e].pc = "over"
    BY <1>1, <1>2 DEF DueRows, PerformedInv, OwnInv
  <2> QED
    BY <1>2, <1>3, <2>1, OwnStays
<1>5. ASSUME NEW e \in n.todo \cup n.took PROVE Beyond(n, e)
  BY <1>1 DEF DueRows, PerformedInv, Beyond, Before, InChain
<1>6. PICK d : d = tx'[Sweep]
  OBVIOUS
<1>7. d = n
  BY <1>2, <1>6
<1>8. \A e \in d.todo \cup d.took : Beyond(d, e)'
  BY <1>3, <1>5, <1>7 DEF Beyond, Before
<1>9. SweepInv'
  BY <1>1, <1>6, <1>7, <1>8 DEF SweepInv, Beyond, Before, InChain
<1>10. \A e \in Events : (row[e] # Never => Before(kept, e, row[e].at))'
  BY <1>3 DEF PerformedInv, Before
<1> QED
  BY <1>4, <1>9, <1>10 DEF PerformedInv

\* An event starts its chain, or finds nothing to do.
LEMMA StartStep ==
  ASSUME TypeOK, WorkInv, PerformedInv, NEW p \in Events, Start(p)
  PROVE  PerformedInv'
<1> DEFINE t == tx[p]
<1>0. p \in Processes /\ p # Sweep /\ Sweep \in Processes
  BY ConstantTypes
<1>1. t.pc = "idle" /\ Empty(p, "idle", t) /\ t \in Transactions
  BY <1>0 DEF Start, WorkInv, WorkOf, TypeOK
<1>2. \E n : /\ tx' = [tx EXCEPT ![p] = n] /\ n.cur = t.cur /\ n.at = t.at /\ n.rows = t.rows /\ n.acts = t.acts
             /\ n.pc \in {"chain", "over"}
  <2>1. ASSUME tx' = [tx EXCEPT ![p].pc = "chain", ![p].seen = marker[RuleOf(p)], ![p].clock = now]
        PROVE \E n : /\ tx' = [tx EXCEPT ![p] = n] /\ n.cur = t.cur /\ n.at = t.at /\ n.rows = t.rows /\ n.acts = t.acts
                     /\ n.pc \in {"chain", "over"}
    <3> DEFINE n == [t EXCEPT !.pc = "chain", !.seen = marker[RuleOf(p)], !.clock = now]
    <3>1. tx' = [tx EXCEPT ![p] = n]
      BY <1>0, <2>1 DEF TypeOK
    <3>2. n.cur = t.cur /\ n.at = t.at /\ n.rows = t.rows /\ n.acts = t.acts /\ n.pc = "chain"
      BY <1>1 DEF Transactions
    <3> HIDE DEF n, t
    <3> QED
      BY <3>1, <3>2
  <2>2. ASSUME tx' = [tx EXCEPT ![p].pc = "over"]
        PROVE \E n : /\ tx' = [tx EXCEPT ![p] = n] /\ n.cur = t.cur /\ n.at = t.at /\ n.rows = t.rows /\ n.acts = t.acts
                     /\ n.pc \in {"chain", "over"}
    <3> DEFINE n == [t EXCEPT !.pc = "over"]
    <3>1. tx' = [tx EXCEPT ![p] = n]
      BY <1>0, <2>2 DEF TypeOK
    <3>2. n.cur = t.cur /\ n.at = t.at /\ n.rows = t.rows /\ n.acts = t.acts /\ n.pc = "over"
      BY <1>1 DEF Transactions
    <3> HIDE DEF n, t
    <3> QED
      BY <3>1, <3>2
  <2> QED
    BY <2>1, <2>2 DEF Start
<1>3. PICK n : /\ tx' = [tx EXCEPT ![p] = n] /\ n.cur = t.cur /\ n.at = t.at /\ n.rows = t.rows /\ n.acts = t.acts
               /\ n.pc \in {"chain", "over"}
  BY <1>2
<1>4. tx'[p] = n /\ \A q \in Processes : q # p => tx'[q] = tx[q]
  BY <1>0, <1>3 DEF TypeOK
<1>5. row' = row /\ kept' = kept
  BY DEF Start
<1>6. row[p] = Never /\ p \notin tx[Sweep].todo \cup tx[Sweep].took /\ \A y \in kept : y[1] # p
  BY <1>1 DEF PerformedInv, OwnInv
<1>7. n.acts = {} /\ \A e \in Events : n.rows[e] = Never
  BY <1>1, <1>3 DEF Empty
<1>8. Beyond(n, p)
  BY <1>6, <1>7 DEF Beyond, Before
<1>9. Beyond(tx[p], p)'
  BY <1>4, <1>5, <1>8 DEF Beyond, Before
<1>10. OwnInv'
  <2> SUFFICES ASSUME NEW e \in Events
               PROVE (/\ tx[e].pc # "over" =>
                           row[e] = Never /\ e \notin tx[Sweep].todo \cup tx[Sweep].took /\ \A y \in kept : y[1] # e
                      /\ \A x \in tx[e].acts : x[1] = e
                      /\ Beyond(tx[e], e))'
    BY DEF OwnInv
  <2>1. ASSUME e = p
        PROVE /\ row'[e] = Never /\ e \notin (tx[Sweep].todo \cup tx[Sweep].took)' /\ \A y \in kept' : y[1] # e
              /\ \A x \in tx'[e].acts : x[1] = e
    BY <1>0, <1>4, <1>5, <1>6, <1>7, <2>1
  <2>2. (e # p => tx'[e] = tx[e]) /\ tx'[Sweep] = tx[Sweep]
    BY <1>0, <1>4, ConstantTypes
  <2> QED
    BY <1>5, <1>9, <2>1, <2>2, OwnStays
<1>11. SweepInv'
  BY <1>0, <1>4, <1>5, SweepStays
<1>12. \A e \in Events : (row[e] # Never => Before(kept, e, row[e].at))'
  BY <1>5 DEF PerformedInv, Before
<1> QED
  BY <1>10, <1>11, <1>12 DEF PerformedInv

\* A transaction that is gone has nothing that could be repeated.
LEMMA GoneOwn ==
  ASSUME NEW p \in Events, tx'[p] = Gone(p)
  PROVE  (/\ tx[p].pc # "over" =>
              row[p] = Never /\ p \notin tx[Sweep].todo \cup tx[Sweep].took /\ \A y \in kept : y[1] # p
          /\ \A x \in tx[p].acts : x[1] = p
          /\ Beyond(tx[p], p))'
<1>1. PICK n : n = Gone(p)
  OBVIOUS
<1>2. Empty(p, n.pc, n) /\ n.pc = "over"
  BY <1>1, GoneFields, ConstantTypes
<1>3. n.acts = {} /\ n.rows[p] = Never
  BY <1>2 DEF Empty
<1> QED
  BY <1>1, <1>2, <1>3 DEF Beyond, InChain

LEMMA GoneSweep ==
  ASSUME tx'[Sweep] = Gone(Sweep)
  PROVE  SweepInv' /\ tx'[Sweep].todo = {} /\ tx'[Sweep].took = {}
<1>1. PICK n : n = Gone(Sweep)
  OBVIOUS
<1>2. Empty(Sweep, n.pc, n) /\ n.pc = "idle"
  BY <1>1, GoneFields, ConstantTypes
<1>3. n.acts = {} /\ n.todo = {} /\ n.took = {}
  BY <1>2 DEF Empty
<1> QED
  BY <1>1, <1>2, <1>3 DEF SweepInv, InChain

LEMMA FailStep ==
  ASSUME TypeOK, WorkInv, PerformedInv, NEW p \in Processes, Fail(p)
  PROVE  PerformedInv'
<1>0. Sweep \in Processes /\ \A e \in Events : e # Sweep /\ e \in Processes
  BY ConstantTypes
<1>1. row' = row /\ kept' = kept
  BY DEF Fail, history
<1>2. tx'[p] = Gone(p) /\ \A q \in Processes : q # p => tx'[q] = tx[q]
  BY DEF Fail, TypeOK
<1>3. p # Sweep => p \in Events
  BY DEF Processes
<1>4. (tx[Sweep].todo \cup tx[Sweep].took)' \subseteq tx[Sweep].todo \cup tx[Sweep].took
  BY <1>0, <1>2, GoneSweep
<1>5. OwnInv'
  <2> SUFFICES ASSUME NEW e \in Events
               PROVE (/\ tx[e].pc # "over" =>
                           row[e] = Never /\ e \notin tx[Sweep].todo \cup tx[Sweep].took /\ \A y \in kept : y[1] # e
                      /\ \A x \in tx[e].acts : x[1] = e
                      /\ Beyond(tx[e], e))'
    BY DEF OwnInv
  <2>1. CASE e = p
    BY <1>2, <2>1, GoneOwn
  <2>2. CASE e # p
    <3>1. tx'[e] = tx[e]
      BY <1>0, <1>2, <2>2
    <3> QED
      BY <1>1, <1>4, <3>1, OwnStays
  <2> QED
    BY <2>1, <2>2
<1>6. SweepInv'
  BY <1>0, <1>1, <1>2, GoneSweep, SweepStays
<1>7. \A e \in Events : (row[e] # Never => Before(kept, e, row[e].at))'
  BY <1>1 DEF PerformedInv, Before
<1> QED
  BY <1>5, <1>6, <1>7 DEF PerformedInv

\* A commit that is rolled back is a failure.
LEMMA RolledBackStep ==
  ASSUME TypeOK, WorkInv, PerformedInv, NEW p \in Processes, Commit(p), Broken(p)
  PROVE  PerformedInv'
<1>0. Sweep \in Processes /\ \A e \in Events : e # Sweep /\ e \in Processes
  BY ConstantTypes
<1>1. row' = row /\ kept' = kept
  BY DEF Commit
<1>2. tx'[p] = Gone(p) /\ \A q \in Processes : q # p => tx'[q] = tx[q]
  BY DEF Commit, TypeOK
<1>4. (tx[Sweep].todo \cup tx[Sweep].took)' \subseteq tx[Sweep].todo \cup tx[Sweep].took
  BY <1>0, <1>2, GoneSweep
<1>5. OwnInv'
  <2> SUFFICES ASSUME NEW e \in Events
               PROVE (/\ tx[e].pc # "over" =>
                           row[e] = Never /\ e \notin tx[Sweep].todo \cup tx[Sweep].took /\ \A y \in kept : y[1] # e
                      /\ \A x \in tx[e].acts : x[1] = e
                      /\ Beyond(tx[e], e))'
    BY DEF OwnInv
  <2>1. CASE e = p
    BY <1>2, <2>1, GoneOwn
  <2>2. CASE e # p
    <3>1. tx'[e] = tx[e]
      BY <1>0, <1>2, <2>2
    <3> QED
      BY <1>1, <1>4, <3>1, OwnStays
  <2> QED
    BY <2>1, <2>2
<1>6. SweepInv'
  BY <1>0, <1>1, <1>2, GoneSweep, SweepStays
<1>7. \A e \in Events : (row[e] # Never => Before(kept, e, row[e].at))'
  BY <1>1 DEF PerformedInv, Before
<1> QED
  BY <1>5, <1>6, <1>7 DEF PerformedInv

\* An event commits: its steps are of a chain that nobody else has.
LEMMA OwnCommitStep ==
  ASSUME TypeOK, WorkInv, PerformedInv, NEW p \in Events, Commit(p), ~Broken(p)
  PROVE  PerformedInv'
<1> DEFINE t == tx[p]
<1>0. p \in Processes /\ p # Sweep /\ Sweep \in Processes
  BY ConstantTypes
<1>1. t.pc = "commit" /\ kept' = kept \cup t.acts
      /\ \A e \in Events : row'[e] = IF e = p THEN t.rows[e] ELSE row[e]
  BY <1>0 DEF Commit
<1>2. tx'[p] = Gone(p) /\ \A q \in Processes : q # p => tx'[q] = tx[q]
  BY <1>0 DEF Commit, TypeOK
<1>3. /\ row[p] = Never /\ p \notin tx[Sweep].todo \cup tx[Sweep].took
      /\ \A x \in t.acts : x[1] = p
      /\ Beyond(t, p)
  BY <1>1 DEF PerformedInv, OwnInv
<1>4. \A e \in Events : \A n : e # p /\ Before(kept, e, n) => Before(kept', e, n)
  BY <1>1, <1>3 DEF Before
<1>5. tx'[Sweep] = tx[Sweep]
  BY <1>0, <1>2
<1>6. OwnInv'
  <2> SUFFICES ASSUME NEW e \in Events
               PROVE (/\ tx[e].pc # "over" =>
                           row[e] = Never /\ e \notin tx[Sweep].todo \cup tx[Sweep].took /\ \A y \in kept : y[1] # e
                      /\ \A x \in tx[e].acts : x[1] = e
                      /\ Beyond(tx[e], e))'
    BY DEF OwnInv
  <2>1. CASE e = p
    BY <1>2, <2>1, GoneOwn
  <2>2. CASE e # p
    <3>1. tx'[e] = tx[e]
      BY <1>2, <2>2, ConstantTypes
    <3>2. /\ tx[e].pc # "over" =>
               row[e] = Never /\ e \notin tx[Sweep].todo \cup tx[Sweep].took /\ \A y \in kept : y[1] # e
          /\ \A x \in tx[e].acts : x[1] = e
          /\ Beyond(tx[e], e)
      BY DEF PerformedInv, OwnInv
    <3>3. Beyond(tx[e], e)'
      BY <1>4, <2>2, <3>1, <3>2 DEF Beyond
    <3> QED
      BY <1>1, <1>3, <1>5, <2>2, <3>1, <3>2, <3>3
  <2> QED
    BY <2>1, <2>2
<1>7. SweepInv'
  <2>1. SweepInv
    BY DEF PerformedInv
  <2>2. \A x \in tx[Sweep].acts, y \in kept' : x[1] = y[1] => y[2] < x[2]
    BY <1>1, <1>3, <2>1 DEF SweepInv
  <2>3. PICK d : d = tx[Sweep]
    OBVIOUS
  <2>4. TxTypes(d)
    BY <1>0, <2>3, TxTypesOf
  <2>5. ASSUME NEW e \in d.todo \cup d.took PROVE Beyond(d, e)'
    <3>1. Beyond(d, e) /\ e # p /\ e \in Events
      BY <1>3, <2>1, <2>3, <2>4, <2>5 DEF SweepInv, TxTypes
    <3> QED
      BY <1>4, <3>1 DEF Beyond
  <2> QED
    BY <1>5, <2>1, <2>2, <2>3, <2>5 DEF SweepInv, Beyond
<1>8. \A e \in Events : (row[e] # Never => Before(kept, e, row[e].at))'
  <2> SUFFICES ASSUME NEW e \in Events, row'[e] # Never PROVE Before(kept', e, row'[e].at)
    OBVIOUS
  <2>1. CASE e = p
    <3>1. Before(kept, p, t.rows[p].at) /\ Before(t.acts, p, t.rows[p].at)
      BY <1>1, <1>3, <2>1 DEF Beyond, InChain
    <3> QED
      BY <1>1, <2>1, <3>1 DEF Before
  <2>2. CASE e # p
    BY <1>1, <1>4, <2>2 DEF PerformedInv
  <2> QED
    BY <2>1, <2>2
<1> QED
  BY <1>6, <1>7, <1>8 DEF PerformedInv

\* The sweep commits: the pauses of the chains it has are beyond what it did.
LEMMA SweepCommitStep ==
  ASSUME TypeOK, WorkInv, PerformedInv, Commit(Sweep), ~Broken(Sweep)
  PROVE  PerformedInv'
<1> DEFINE t == tx[Sweep]
<1>0. Sweep \in Processes /\ \A e \in Events : e # Sweep /\ e \in Processes
  BY ConstantTypes
<1>1. t.pc = "batch" /\ kept' = kept \cup t.acts
      /\ \A e \in Events : row'[e] = IF e \in t.took THEN t.rows[e] ELSE row[e]
  BY DEF Commit
<1>2. tx'[Sweep] = Gone(Sweep) /\ \A e \in Events : tx'[e] = tx[e]
  BY <1>0 DEF Commit, TypeOK
<1>3. (\A x \in t.acts : x[1] \in t.took) /\ \A e \in t.took : Beyond(t, e)
  BY DEF PerformedInv, SweepInv
<1>4. \A e \in Events : \A n : e \notin t.took /\ Before(kept, e, n) => Before(kept', e, n)
  BY <1>1, <1>3 DEF Before
<1>5. SweepInv' /\ (tx[Sweep].todo \cup tx[Sweep].took)' = {}
  BY <1>2, GoneSweep
<1>6. OwnInv'
  <2> SUFFICES ASSUME NEW e \in Events
               PROVE (/\ tx[e].pc # "over" =>
                           row[e] = Never /\ e \notin tx[Sweep].todo \cup tx[Sweep].took /\ \A y \in kept : y[1] # e
                      /\ \A x \in tx[e].acts : x[1] = e
                      /\ Beyond(tx[e], e))'
    BY DEF OwnInv
  <2>1. /\ tx[e].pc # "over" =>
             row[e] = Never /\ e \notin tx[Sweep].todo \cup tx[Sweep].took /\ \A y \in kept : y[1] # e
        /\ \A x \in tx[e].acts : x[1] = e
        /\ Beyond(tx[e], e)
    BY DEF PerformedInv, OwnInv
  <2>2. ASSUME tx[e].pc = "over" PROVE Beyond(tx[e], e)'
    <3>1. Empty(e, "over", tx[e])
      BY <1>0, <2>2 DEF WorkInv, WorkOf
    <3> QED
      BY <1>2, <2>2, <3>1 DEF Empty, Beyond, InChain
  <2>3. ASSUME tx[e].pc # "over" PROVE Beyond(tx[e], e)'
    BY <1>2, <1>4, <2>1, <2>3 DEF Beyond
  <2>4. tx[e].pc # "over" => \A y \in kept' : y[1] # e
    BY <1>1, <1>3, <2>1
  <2> QED
    BY <1>1, <1>2, <1>5, <2>1, <2>2, <2>3, <2>4
<1>7. \A e \in Events : (row[e] # Never => Before(kept, e, row[e].at))'
  <2> SUFFICES ASSUME NEW e \in Events, row'[e] # Never PROVE Before(kept', e, row'[e].at)
    OBVIOUS
  <2>1. CASE e \in t.took
    <3>1. Before(kept, e, t.rows[e].at) /\ Before(t.acts, e, t.rows[e].at)
      BY <1>1, <1>3, <2>1 DEF Beyond, InChain
    <3> QED
      BY <1>1, <2>1, <3>1 DEF Before
  <2>2. CASE e \notin t.took
    BY <1>1, <1>4, <2>2 DEF PerformedInv
  <2> QED
    BY <2>1, <2>2
<1> QED
  BY <1>5, <1>6, <1>7 DEF PerformedInv

\* Nothing happens to a transaction, and rows at most go.
LEMMA QuietStep ==
  ASSUME PerformedInv, tx' = tx, kept' = kept, \A e \in Events : row'[e] = Never \/ row'[e] = row[e]
  PROVE  PerformedInv'
<1>1. OwnInv'
  <2> SUFFICES ASSUME NEW e \in Events
               PROVE (/\ tx[e].pc # "over" =>
                           row[e] = Never /\ e \notin tx[Sweep].todo \cup tx[Sweep].took /\ \A y \in kept : y[1] # e
                      /\ \A x \in tx[e].acts : x[1] = e
                      /\ Beyond(tx[e], e))'
    BY DEF OwnInv
  <2> QED
    BY OwnStays
<1>2. SweepInv'
  BY SweepStays
<1>3. \A e \in Events : (row[e] # Never => Before(kept, e, row[e].at))'
  BY DEF PerformedInv, Before
<1> QED
  BY <1>1, <1>2, <1>3 DEF PerformedInv

LEMMA PerformedNext ==
  ASSUME TypeOK, WorkInv, PerformedInv, Next
  PROVE  PerformedInv'
<1>1. ASSUME Tick \/ Reply PROVE PerformedInv'
  BY <1>1, QuietStep DEF Tick, Reply
<1>2. ASSUME NEW r \in Rules, Delete(r) PROVE PerformedInv'
  BY <1>2, QuietStep DEF Delete
<1>3. ASSUME NEW p \in Processes, ChainStep(p) PROVE PerformedInv'
  BY <1>3, OwnChainStep, SweepChainStep DEF Processes
<1>4. ASSUME NEW p \in Processes, Commit(p) PROVE PerformedInv'
  BY <1>4, RolledBackStep, OwnCommitStep, SweepCommitStep DEF Processes
<1> QED
  BY <1>1, <1>2, <1>3, <1>4, StartStep, SweepBeginStep, SweepTakeStep, SweepChainStep, FailStep, ConstantTypes
     DEF Next, EventStep, SweepStep

LEMMA InitPerformed ==
  ASSUME Init
  PROVE  PerformedInv
<1>1. ASSUME NEW p \in Processes PROVE Empty(p, "idle", tx[p])
  BY <1>1, CleanFields DEF Init
<1>2. kept = {} /\ \A e \in Events : row[e] = Never
  BY DEF Init
<1>3. OwnInv
  BY <1>1, <1>2, ConstantTypes DEF OwnInv, Empty, Beyond, Before, InChain
<1>4. SweepInv
  BY <1>1, ConstantTypes DEF SweepInv, Empty, InChain
<1> QED
  BY <1>2, <1>3, <1>4 DEF PerformedInv

\* A step whose transaction committed is never performed again, whatever fails, overlaps or waits.
THEOREM StepsArePerformedOnce == Spec => []PerformedOnce
<1>1. Init => TypeOK /\ WorkInv /\ PerformedInv
  BY InitTypes, InitPerformed
<1>2. TypeOK /\ WorkInv /\ PerformedInv /\ [Next]_vars => TypeOK' /\ WorkInv' /\ PerformedInv'
  <2>1. ASSUME PerformedInv, UNCHANGED vars PROVE PerformedInv'
    BY <2>1, QuietStep DEF vars
  <2> QED
    BY <2>1, StepTypes, PerformedNext
<1>3. TypeOK /\ WorkInv /\ PerformedInv => PerformedOnce
  BY PerformedOnceHolds
<1> QED
  BY <1>1, <1>2, <1>3, PTL DEF Spec

-----------------------------------------------------------------------------
(* A chain stops for a customer who wrote.                                 *)

\* A pause keeps its date when a chain that has none first pauses.
LEMMA DatedStays ==
  ASSUME NEW x, NEW e \in Events, Dated(x, e), begun[e] # Never => begun'[e] = begun[e]
  PROVE  Dated(x, e)'
BY DEF Dated

LEMMA RunDated ==
  ASSUME TypeOK, NEW p, NEW t, NEW n, Runs(p, t, n), t.since = begun[t.cur],
         \A e \in Events : Dated(t.rows[e], e),
         begun' = [begun EXCEPT ![t.cur] = IF @ = Never /\ n.rows[t.cur] # Never THEN now ELSE @]
  PROVE  /\ \A e \in Events : Dated(n.rows[e], e)'
         /\ InChain(n) => n.cur = t.cur /\ n.since = begun[t.cur] /\ begun'[t.cur] = begun[t.cur]
         /\ n.pc # "idle"
<1>1. /\ t \in Transactions /\ At(t) /\ Keeps(t, n) /\ n \in Transactions
      /\ Moved(p, t, n) \/ Passed(t, n) \/ Pausing(p, t, n)
  BY DEF Runs, Ready, Round
<1>2. TxTypes(t) /\ TxTypes(n)
  BY <1>1, TransactionTypes
<1>3. t.cur \in Events /\ begun \in [Events -> Moments \cup {Never}] /\ now \in Moments /\ now # Never
  BY <1>2, ConstantTypes DEF TypeOK, TxTypes
<1>4. \A e \in Events : begun[e] # Never => begun'[e] = begun[e]
  BY <1>3
<1>5. ASSUME Moved(p, t, n) \/ Passed(t, n)
      PROVE /\ \A e \in Events : Dated(n.rows[e], e)'
            /\ InChain(n) => n.cur = t.cur /\ n.since = begun[t.cur] /\ begun'[t.cur] = begun[t.cur]
  <2>1. n.rows = t.rows
    BY <1>5 DEF Moved, Passed
  <2>2. \A e \in Events : Dated(n.rows[e], e)'
    BY <1>4, <2>1, DatedStays
  <2>3. n.rows[t.cur] = Never
    BY <1>1, <2>1 DEF At
  <2>4. begun'[t.cur] = begun[t.cur]
    BY <1>3, <2>3
  <2>5. InChain(n) => n.cur = t.cur /\ n.since = begun[t.cur]
    BY <1>1, <1>5 DEF Moved, Passed, Keeps, Kind, InChain
  <2> QED
    BY <2>2, <2>4, <2>5
<1>6. ASSUME Pausing(p, t, n) PROVE ~InChain(n) /\ \A e \in Events : Dated(n.rows[e], e)'
  <2>1. PICK due \in Nat : n.rows = [t.rows EXCEPT ![t.cur] = PauseOf(t, due)]
    BY <1>6 DEF Pausing
  <2>2. ~InChain(n)
    BY <1>6 DEF Pausing, Kind, InChain
  <2>3. n.rows[t.cur].since = SinceOf(t)
    BY <1>2, <2>1 DEF PauseOf, TxTypes
  <2>4. n.rows[t.cur] # Never => begun'[t.cur] # Never /\ SinceOf(t) = begun'[t.cur]
    BY <1>3 DEF SinceOf
  <2>5. Dated(n.rows[t.cur], t.cur)'
    BY <2>3, <2>4 DEF Dated
  <2>6. ASSUME NEW e \in Events, e # t.cur PROVE Dated(n.rows[e], e)'
    <3>1. n.rows[e] = t.rows[e]
      BY <1>2, <2>1, <2>6 DEF TxTypes
    <3> QED
      BY <1>4, <3>1, DatedStays
  <2> QED
    BY <2>2, <2>5, <2>6
<1>7. n.pc # "idle"
  BY <1>1 DEF Moved, Pausing, Passed, AtItsGate, Kind
<1> QED
  BY <1>1, <1>5, <1>6, <1>7

\* Dates of the rows and transactions that a step leaves alone.
SinceOfTx(p, t) ==
  /\ \A e \in Events : Dated(t.rows[e], e)
  /\ InChain(t) => t.since = begun[t.cur] /\ (p = Sweep <=> begun[t.cur] # Never)

LEMMA SinceTxStays ==
  ASSUME NEW p, NEW t, SinceOfTx(p, t), t.cur \in Events,
         \A e \in Events : begun[e] # Never => begun'[e] = begun[e],
         InChain(t) => begun'[t.cur] = begun[t.cur]
  PROVE  SinceOfTx(p, t)'
<1>1. \A e \in Events : Dated(t.rows[e], e)'
  BY DatedStays DEF SinceOfTx
<1> QED
  BY <1>1 DEF SinceOfTx

LEMMA SinceChainStep ==
  ASSUME TypeOK, WorkInv, SinceInv, NEW p \in Processes, ChainStep(p)
  PROVE  SinceInv'
<1> DEFINE t == tx[p]
<1>1. PICK n : Runs(p, t, n)
  BY ChainStepRuns
<1>2. tx'[p] = n /\ \A q \in Processes : q # p => tx'[q] = tx[q]
  BY <1>1 DEF Runs, TypeOK
<1>3. InChain(t) /\ row' = row
      /\ begun' = [begun EXCEPT ![t.cur] = IF @ = Never /\ n.rows[t.cur] # Never THEN now ELSE @]
  BY <1>2 DEF ChainStep, InChain
<1>4. SinceOfTx(p, t)
  BY DEF SinceInv, SinceOfTx
<1>5. /\ \A e \in Events : Dated(n.rows[e], e)'
      /\ InChain(n) => n.cur = t.cur /\ n.since = begun[t.cur] /\ begun'[t.cur] = begun[t.cur]
      /\ n.pc # "idle"
  <2>1. (\A e \in Events : Dated(t.rows[e], e)) /\ t.since = begun[t.cur]
    BY <1>3, <1>4 DEF SinceOfTx
  <2> HIDE DEF t
  <2> QED
    BY <1>1, <1>3, <2>1, RunDated, Zenon
<1>6. t.cur \in Events /\ begun \in [Events -> Moments \cup {Never}]
  BY TxTypesOf DEF TypeOK, TxTypes
<1>7. \A e \in Events : begun[e] # Never => begun'[e] = begun[e]
  BY <1>3, <1>6
<1>8. \A e \in Events : e # t.cur => begun'[e] = begun[e]
  BY <1>3, <1>6
<1>9. SinceOfTx(p, n)'
  BY <1>3, <1>4, <1>5 DEF SinceOfTx
<1>10. ASSUME NEW q \in Processes PROVE SinceOfTx(q, tx[q])'
  <2>1. PICK d : d = tx'[q]
    OBVIOUS
  <2>2. CASE q = p
    BY <1>2, <1>9, <2>1, <2>2 DEF SinceOfTx, Dated
  <2>3. CASE q # p
    <3>1. d = tx[q] /\ SinceOfTx(q, d) /\ d.cur \in Events
      BY <1>2, <2>1, <2>3, TxTypesOf DEF SinceInv, SinceOfTx, TxTypes
    <3>2. ASSUME InChain(d) PROVE begun'[d.cur] = begun[d.cur]
      <4>1. CASE q = Sweep \/ p = Sweep
        BY <1>3, <1>4, <1>7, <1>8, <3>1, <3>2, <4>1 DEF SinceOfTx
      <4>2. CASE q # Sweep /\ p # Sweep
        <5>1. d.cur = q /\ t.cur = p
          BY <3>1, <4>2 DEF WorkInv, WorkOf
        <5> QED
          BY <1>8, <2>3, <3>1, <5>1
      <4> QED
        BY <4>1, <4>2
    <3>3. SinceOfTx(q, d)'
      BY <1>7, <3>1, <3>2, SinceTxStays
    <3> QED
      BY <2>1, <3>3 DEF SinceOfTx, Dated
  <2> QED
    BY <2>2, <2>3
<1>11. ASSUME NEW e \in Events PROVE (Dated(row[e], e) /\ (tx[e].pc = "idle" => begun[e] = Never))'
  <2>1. Dated(row[e], e) /\ (tx[e].pc = "idle" => begun[e] = Never)
    BY DEF SinceInv
  <2>2. Dated(row[e], e)'
    BY <1>3, <1>7, <2>1 DEF Dated
  <2>3. ASSUME tx'[e].pc = "idle" PROVE begun'[e] = Never
    <3>1. e # p /\ begun[e] = Never /\ e \in Processes
      BY <1>2, <1>5, <2>1, <2>3, ConstantTypes
    <3>2. e # t.cur
      <4>1. p # Sweep => t.cur = p
        BY DEF WorkInv, WorkOf
      <4>2. p = Sweep => begun[t.cur] # Never
        BY <1>3, <1>4 DEF SinceOfTx
      <4> QED
        BY <3>1, <4>1, <4>2
    <3> QED
      BY <1>8, <3>1, <3>2
  <2> QED
    BY <2>2, <2>3
<1> QED
  BY <1>10, <1>11 DEF SinceInv, SinceOfTx

\* A row taken up brings the date of its chain.
LEMMA TakenSince ==
  ASSUME TypeOK, WorkInv, SinceInv, NEW e \in Events, tx[Sweep].pc = "batch", e \in tx[Sweep].todo
  PROVE  LET m == TakenOf(e) IN
         /\ m.cur = e /\ m.since = begun[e] /\ begun[e] # Never /\ \A f \in Events : Dated(m.rows[f], f)
<1> DEFINE t == tx[Sweep]
           m == TakenOf(e)
<1>1. m.cur = e /\ m.since = t.rows[e].since /\ m.rows = [t.rows EXCEPT ![e] = Never]
  BY TakenFields
<1>2. t.rows[e] # Never /\ \A f \in Events : Dated(t.rows[f], f)
  BY ConstantTypes DEF WorkInv, WorkOf, SinceInv
<1>3. TxTypes(t)
  BY TxTypesOf, ConstantTypes
<1> HIDE DEF m, t
<1>4. \A f \in Events : m.rows[f] = IF f = e THEN Never ELSE t.rows[f]
  BY <1>1, <1>3 DEF TxTypes
<1> QED
  BY <1>1, <1>2, <1>4 DEF Dated, m

\* The sweep runs a step of a chain that has begun.
LEMMA SinceSweepRun ==
  ASSUME TypeOK, WorkInv, SinceInv, row' = row, begun' = begun, NEW m, NEW n, Runs(Sweep, m, n),
         m.cur \in Events, m.since = begun[m.cur], begun[m.cur] # Never, \A f \in Events : Dated(m.rows[f], f)
  PROVE  SinceInv'
<1>3. tx'[Sweep] = n /\ \A q \in Processes : q # Sweep => tx'[q] = tx[q]
  BY ConstantTypes DEF Runs, TypeOK
<1>4. begun' = [begun EXCEPT ![m.cur] = IF @ = Never /\ n.rows[m.cur] # Never THEN now ELSE @]
  BY DEF TypeOK
<1>5. /\ \A f \in Events : Dated(n.rows[f], f)'
      /\ InChain(n) => n.cur = m.cur /\ n.since = begun[m.cur] /\ begun'[m.cur] = begun[m.cur]
      /\ n.pc # "idle"
  BY <1>4, RunDated
<1>6. SinceOfTx(Sweep, n)'
  BY <1>5 DEF SinceOfTx
<1>7. ASSUME NEW q \in Processes PROVE SinceOfTx(q, tx[q])'
  <2>1. CASE q = Sweep
    BY <1>3, <1>6, <2>1 DEF SinceOfTx, Dated
  <2>2. CASE q # Sweep
    BY <1>3, <2>2 DEF SinceInv, SinceOfTx, Dated
  <2> QED
    BY <2>1, <2>2
<1>8. \A f \in Events : (Dated(row[f], f) /\ (tx[f].pc = "idle" => begun[f] = Never))'
  BY <1>3, ConstantTypes DEF SinceInv, Dated
<1> QED
  BY <1>7, <1>8 DEF SinceInv, SinceOfTx

LEMMA SinceTakeStep ==
  ASSUME TypeOK, WorkInv, SinceInv, NEW e \in Events, SweepTake(e)
  PROVE  SinceInv'
<1> DEFINE m == TakenOf(e)
<1>1. tx[Sweep].pc = "batch" /\ e \in tx[Sweep].todo /\ row' = row /\ begun' = begun
  BY DEF SweepTake, history
<1>2. m.cur = e /\ m.since = begun[e] /\ begun[e] # Never /\ \A f \in Events : Dated(m.rows[f], f)
  BY <1>1, TakenSince
<1>3. PICK n : Runs(Sweep, m, n)
  BY SweepTakeRuns
<1> HIDE DEF m
<1> QED
  BY <1>1, <1>2, <1>3, SinceSweepRun

\* The sweep's own transaction, in a chain, has that chain's date.
LEMMA GateSince ==
  ASSUME TypeOK, WorkInv, SinceInv, SweepPasses
  PROVE  LET t == tx[Sweep] IN
         /\ t.cur \in Events /\ t.since = begun[t.cur] /\ begun[t.cur] # Never
         /\ \A f \in Events : Dated(t.rows[f], f)
<1>1. Sweep \in Processes /\ InChain(tx[Sweep])
  BY ConstantTypes DEF SweepPasses, InChain
<1>2. tx[Sweep].cur \in Events
  BY <1>1, TxTypesOf DEF TxTypes
<1> QED
  BY <1>1, <1>2 DEF SinceInv

LEMMA SincePassStep ==
  ASSUME TypeOK, WorkInv, SinceInv, SweepPasses
  PROVE  SinceInv'
<1>1. row' = row /\ begun' = begun
  BY DEF SweepPasses, history
<1>2. PICK n : Runs(Sweep, tx[Sweep], n)
  BY SweepPassesRuns
<1>3. PICK m : m = tx[Sweep]
  OBVIOUS
<1>4. Runs(Sweep, m, n)
  BY <1>2, <1>3
<1>5. m.cur \in Events /\ m.since = begun[m.cur] /\ begun[m.cur] # Never /\ \A f \in Events : Dated(m.rows[f], f)
  BY <1>3, GateSince
<1> QED
  BY <1>1, <1>4, <1>5, SinceSweepRun

\* Process p gets a transaction whose rows are as they were, or the rows of now, or none.
LEMMA SinceMoves ==
  ASSUME TypeOK, SinceInv, begun' = begun, NEW p \in Processes, NEW n, tx'[p] = n,
         \A q \in Processes : q # p => tx'[q] = tx[q],
         n.pc # "idle" \/ tx[p].pc = "idle" \/ p = Sweep,
         InChain(n) => p # Sweep /\ n.since = Never /\ begun[n.cur] = Never,
         \A e \in Events : n.rows[e] = Never \/ n.rows[e] = row[e] \/ n.rows[e] = tx[p].rows[e],
         \A e \in Events : row'[e] = Never \/ row'[e] = row[e] \/ row'[e] = tx[p].rows[e]
  PROVE  SinceInv'
<1>1. \A e \in Events : Dated(row[e], e) /\ (tx[e].pc = "idle" => begun[e] = Never)
  BY DEF SinceInv
<1>2. \A q \in Processes : SinceOfTx(q, tx[q])
  BY DEF SinceInv, SinceOfTx
<1>3. \A e \in Events : Dated(n.rows[e], e)'
  BY <1>1, <1>2 DEF Dated, SinceOfTx
<1>4. SinceOfTx(p, n)'
  BY <1>3 DEF SinceOfTx
<1>5. ASSUME NEW q \in Processes PROVE SinceOfTx(q, tx[q])'
  <2>1. CASE q = p
    BY <1>4, <2>1 DEF SinceOfTx, Dated
  <2>2. CASE q # p
    BY <1>2, <2>2 DEF SinceOfTx, Dated
  <2> QED
    BY <2>1, <2>2
<1>6. \A e \in Events : Dated(row[e], e)'
  BY <1>1, <1>2 DEF Dated, SinceOfTx
<1>7. \A e \in Events : (tx[e].pc = "idle" => begun[e] = Never)'
  BY <1>1, ConstantTypes
<1> QED
  BY <1>5, <1>6, <1>7 DEF SinceInv, SinceOfTx

LEMMA SinceStartStep ==
  ASSUME TypeOK, WorkInv, SinceInv, NEW p \in Events, Start(p)
  PROVE  SinceInv'
<1> DEFINE t == tx[p]
<1>0. p \in Processes /\ p # Sweep
  BY ConstantTypes
<1>1. t.pc = "idle" /\ Empty(p, "idle", t) /\ t \in Transactions /\ t.cur = p
  BY <1>0 DEF Start, WorkInv, WorkOf, TypeOK
<1>2. tx'[p].pc \in {"chain", "over"} /\ tx'[p].cur = t.cur /\ tx'[p].rows = t.rows /\ tx'[p].since = t.since
  BY <1>0, <1>1 DEF Start, TypeOK, Transactions
<1>3. \A q \in Processes : q # p => tx'[q] = tx[q]
  BY <1>0 DEF Start, TypeOK
<1>4. row' = row /\ begun' = begun /\ begun[p] = Never
  BY <1>1 DEF Start, SinceInv
<1>5. t.since = Never
  BY <1>1 DEF Empty
<1> HIDE DEF t
<1>6. PICK n : n = tx'[p]
  OBVIOUS
<1>7. n.pc \in {"chain", "over"} /\ n.cur = p /\ n.rows = t.rows /\ n.since = Never
  BY <1>1, <1>2, <1>5, <1>6
<1>8. \A e \in Events : n.rows[e] = tx[p].rows[e]
  BY <1>7 DEF t
<1> QED
  BY <1>0, <1>3, <1>4, <1>6, <1>7, <1>8, SinceMoves DEF InChain

LEMMA SinceGone ==
  ASSUME TypeOK, WorkInv, SinceInv, begun' = begun, NEW p \in Processes, tx' = [tx EXCEPT ![p] = Gone(p)],
         \A e \in Events : row'[e] = Never \/ row'[e] = row[e] \/ row'[e] = tx[p].rows[e]
  PROVE  SinceInv'
<1>1. PICK n : n = Gone(p)
  OBVIOUS
<1>2. tx'[p] = n /\ \A q \in Processes : q # p => tx'[q] = tx[q]
  BY <1>1 DEF TypeOK
<1>3. n.pc = (IF p = Sweep THEN "idle" ELSE "over") /\ Empty(p, n.pc, n)
  BY <1>1, GoneFields
<1>4. \A e \in Events : n.rows[e] = Never
  BY <1>3 DEF Empty
<1> QED
  BY <1>2, <1>3, <1>4, SinceMoves DEF InChain

LEMMA SinceNext ==
  ASSUME TypeOK, WorkInv, SinceInv, Next
  PROVE  SinceInv'
<1>1. ASSUME Tick \/ Reply PROVE SinceInv'
  BY <1>1 DEF Tick, Reply, history, SinceInv, Dated
<1>2. ASSUME NEW r \in Rules, Delete(r) PROVE SinceInv'
  <2>1. begun' = begun /\ tx' = tx /\ \A e \in Events : row'[e] = Never \/ row'[e] = row[e]
    BY <1>2 DEF Delete, history
  <2> QED
    BY <2>1 DEF SinceInv, Dated
<1>3. ASSUME NEW p \in Processes, Fail(p) PROVE SinceInv'
  <2>1. begun' = begun /\ row' = row /\ tx' = [tx EXCEPT ![p] = Gone(p)]
    BY <1>3 DEF Fail, history
  <2> QED
    BY <2>1, SinceGone
<1>4. ASSUME NEW p \in Processes, Commit(p) PROVE SinceInv'
  <2>1. begun' = begun /\ tx' = [tx EXCEPT ![p] = Gone(p)]
    BY <1>4 DEF Commit
  <2>2. \A e \in Events : row'[e] = Never \/ row'[e] = row[e] \/ row'[e] = tx[p].rows[e]
    BY <1>4 DEF Commit
  <2> QED
    BY <2>1, <2>2, SinceGone
<1>5. ASSUME SweepBegin PROVE SinceInv'
  <2>1. PICK n \in Transactions : tx' = [tx EXCEPT ![Sweep] = n] /\ n.pc = "batch" /\ n.rows = row
    BY <1>5, BeginFields
  <2>2. tx'[Sweep] = n /\ \A q \in Processes : q # Sweep => tx'[q] = tx[q]
    BY <2>1, ConstantTypes DEF TypeOK
  <2>3. begun' = begun /\ row' = row
    BY <1>5 DEF SweepBegin, history
  <2> QED
    BY <2>1, <2>2, <2>3, SinceMoves, ConstantTypes DEF InChain
<1> QED
  BY <1>1, <1>2, <1>3, <1>4, <1>5, SinceStartStep, SinceChainStep, SinceTakeStep, SincePassStep, ConstantTypes
     DEF Next, EventStep, SweepStep

LEMMA InitSince ==
  ASSUME Init
  PROVE  SinceInv
<1>1. ASSUME NEW p \in Processes PROVE Empty(p, "idle", tx[p])
  BY <1>1, CleanFields DEF Init
<1> QED
  BY <1>1 DEF Init, SinceInv, Dated, Empty, InChain

\* Step x of a chain that has begun is not to stop, or t is at its gate.
Heeds(x, t) ==
  Chain(x[1])[x[2]].stop /\ begun[x[1]] # Never => AtItsGate(t) /\ x[1] = t.cur /\ x[2] = t.at

\* What a round does is done at its gate.
LEMMA RunHeeds ==
  ASSUME TypeOK, NEW p, NEW t, NEW n, Runs(p, t, n), t.since = begun[t.cur], NEW x \in n.acts \ t.acts
  PROVE  Heeds(x, t)
<1>1. TxTypes(t) /\ (Done(t, n) \/ Pausing(p, t, n) \/ Passed(t, n))
  BY TransactionTypes DEF Runs, Ready, Round
<1>2. PICK d \in Nat : x = <<t.cur, t.at, d>> /\ (~Asks(t, Chain(t.cur)[t.at]) \/ AtItsGate(t))
  BY <1>1 DEF Done, Pausing, Passed
<1>3. x[1] = t.cur /\ x[2] = t.at
  BY <1>2
<1> QED
  BY <1>2, <1>3 DEF Heeds, Asks

\* A round that comes to a gate comes there before the customer wrote.
LEMMA RunPasses ==
  ASSUME NEW p, NEW t, NEW n, Runs(p, t, n), t.since = begun[t.cur], AtItsGate(n)
  PROVE  lastReply = Never \/ ~(lastReply > begun[n.cur])
<1>1. Keeps(t, n) /\ (Moved(p, t, n) \/ Pausing(p, t, n) \/ Passed(t, n))
  BY DEF Runs, Ready, Round
<1>2. Passed(t, n)
  BY <1>1 DEF Moved, Pausing, Kind, AtItsGate
<1> QED
  BY <1>1, <1>2 DEF Passed, Stopped, Keeps

\* What a step may do: the two halves of StopsWhenReplied.
Performs == \A p \in Processes : \A x \in tx'[p].acts \ tx[p].acts :
              Chain(x[1])[x[2]].stop /\ begun[x[1]] # Never
                => p = Sweep /\ AtGate /\ x[1] = tx[p].cur /\ x[2] = tx[p].at
Comes == ~AtGate /\ AtGate' /\ begun[tx'[Sweep].cur] # Never
           => lastReply = Never \/ lastReply <= begun[tx'[Sweep].cur]

\* The sweep runs a step, from its own transaction or from a row.
LEMMA SweepHeeds ==
  ASSUME TypeOK, NEW t, NEW n, Runs(Sweep, t, n), t.since = begun[t.cur], t.acts = tx[Sweep].acts,
         AtItsGate(t) => t = tx[Sweep]
  PROVE  Performs /\ Comes
<1>1. tx'[Sweep] = n /\ \A q \in Processes : q # Sweep => tx'[q] = tx[q]
  BY ConstantTypes DEF Runs, TypeOK
<1>2. Performs
  <2> SUFFICES ASSUME NEW p \in Processes, NEW x \in tx'[p].acts \ tx[p].acts,
                      Chain(x[1])[x[2]].stop, begun[x[1]] # Never
               PROVE  p = Sweep /\ AtGate /\ x[1] = tx[p].cur /\ x[2] = tx[p].at
    BY DEF Performs
  <2>1. p = Sweep /\ x \in n.acts \ t.acts
    BY <1>1
  <2>2. Heeds(x, t)
    BY <2>1, RunHeeds
  <2> QED
    BY <2>1, <2>2 DEF Heeds, AtGate, AtItsGate
<1>3. Comes
  <2> SUFFICES ASSUME AtItsGate(n), begun[n.cur] # Never
               PROVE  lastReply = Never \/ lastReply <= begun[n.cur]
    BY <1>1 DEF Comes, AtGate, AtItsGate
  <2>1. lastReply = Never \/ ~(lastReply > begun[n.cur])
    BY RunPasses
  <2>2. n \in Transactions
    BY DEF Runs, Round
  <2>3. n.cur \in Events
    BY <2>2, TransactionTypes DEF TxTypes
  <2>4. lastReply \in Nat \cup {Never} /\ begun[n.cur] \in Nat
    BY <2>3, ConstantTypes DEF TypeOK
  <2> QED
    BY <2>1, <2>4
<1> QED
  BY <1>2, <1>3

\* A process gets a transaction that has done nothing new, and is at no gate.
LEMMA OtherHeeds ==
  ASSUME NEW p \in Processes, NEW n, tx'[p] = n, \A q \in Processes : q # p => tx'[q] = tx[q],
         n.acts \subseteq tx[p].acts, ~AtItsGate(n)
  PROVE  Performs /\ Comes
<1>1. Performs
  BY DEF Performs
<1>2. AtGate' => AtGate
  BY ConstantTypes DEF AtGate, AtItsGate
<1> QED
  BY <1>1, <1>2 DEF Comes

LEMMA StepHeeds ==
  ASSUME TypeOK, WorkInv, SinceInv, [Next]_vars
  PROVE  Performs /\ Comes
<1>0. Sweep \in Processes
  BY ConstantTypes
<1>1. ASSUME tx' = tx PROVE Performs /\ Comes
  BY <1>1 DEF Performs, Comes, AtGate
<1>2. ASSUME NEW q \in Processes, ChainStep(q) PROVE Performs /\ Comes
  <2>1. PICK n : Runs(q, tx[q], n)
    BY <1>2, ChainStepRuns
  <2>2. tx'[q] = n /\ \A p \in Processes : p # q => tx'[p] = tx[p]
    BY <2>1 DEF Runs, TypeOK
  <2>3. tx[q].since = begun[tx[q].cur] /\ (q # Sweep => begun[tx[q].cur] = Never)
    BY <1>2 DEF ChainStep, SinceInv, InChain
  <2>4. PICK t : t = tx[q]
    OBVIOUS
  <2>5. CASE q = Sweep
    BY <2>1, <2>3, <2>4, <2>5, SweepHeeds
  <2>6. CASE q # Sweep
    <3>1. ASSUME NEW x \in n.acts \ t.acts PROVE Chain(x[1])[x[2]].stop => begun[x[1]] = Never
      <4>1. Heeds(x, t)
        BY <2>1, <2>3, <2>4, <3>1, RunHeeds
      <4>2. ~AtItsGate(t)
        BY <1>2, <2>4 DEF ChainStep, AtItsGate
      <4> QED
        BY <4>1, <4>2 DEF Heeds
    <3>2. tx'[Sweep] = tx[Sweep]
      BY <1>0, <2>2, <2>6
    <3> QED
      BY <2>2, <2>4, <3>1, <3>2 DEF Performs, Comes, AtGate
  <2> QED
    BY <2>5, <2>6
<1>3. ASSUME NEW e \in Events, SweepTake(e) PROVE Performs /\ Comes
  <2> DEFINE m == TakenOf(e)
  <2>1. PICK n : Runs(Sweep, m, n)
    BY <1>3, SweepTakeRuns
  <2>2. tx[Sweep].pc = "batch" /\ e \in tx[Sweep].todo
    BY <1>3 DEF SweepTake
  <2>3. m.cur = e /\ m.since = begun[e]
    BY <2>2, TakenSince
  <2>4. m.acts = tx[Sweep].acts /\ m.pc = "batch"
    BY <2>2, TakenFields
  <2> HIDE DEF m
  <2> QED
    BY <2>1, <2>3, <2>4, SweepHeeds DEF AtItsGate
<1>4. ASSUME SweepPasses PROVE Performs /\ Comes
  <2>1. PICK n : Runs(Sweep, tx[Sweep], n)
    BY <1>4, SweepPassesRuns
  <2>2. PICK t : t = tx[Sweep]
    OBVIOUS
  <2>3. t.since = begun[t.cur]
    BY <1>4, <2>2, GateSince
  <2> QED
    BY <2>1, <2>2, <2>3, SweepHeeds
<1>5. ASSUME NEW e \in Events, Start(e) PROVE Performs /\ Comes
  <2>1. tx[e] \in Transactions /\ e \in Processes
    BY TxTypesOf, ConstantTypes
  <2>2. tx'[e].acts = tx[e].acts /\ tx'[e].pc \in {"chain", "over"} /\ \A q \in Processes : q # e => tx'[q] = tx[q]
    BY <1>5, <2>1 DEF Start, TypeOK, Transactions
  <2> QED
    BY <2>1, <2>2, OtherHeeds DEF AtItsGate
<1>6. ASSUME NEW q \in Processes, tx' = [tx EXCEPT ![q] = Gone(q)] PROVE Performs /\ Comes
  <2>1. PICK n : n = Gone(q)
    OBVIOUS
  <2>2. n.acts = {} /\ n.pc \in {"idle", "over"}
    BY <2>1, GoneFields DEF Empty
  <2>3. tx'[q] = n /\ \A p \in Processes : p # q => tx'[p] = tx[p]
    BY <1>6, <2>1 DEF TypeOK
  <2> QED
    BY <2>2, <2>3, OtherHeeds DEF AtItsGate
<1>7. ASSUME SweepBegin PROVE Performs /\ Comes
  <2>1. PICK n \in Transactions : tx' = [tx EXCEPT ![Sweep] = n] /\ n.acts = {} /\ n.pc = "batch"
    BY <1>7, BeginFields
  <2>2. tx'[Sweep] = n /\ \A p \in Processes : p # Sweep => tx'[p] = tx[p]
    BY <1>0, <2>1 DEF TypeOK
  <2> QED
    BY <1>0, <2>1, <2>2, OtherHeeds DEF AtItsGate
<1>8. ASSUME Tick \/ Reply \/ UNCHANGED vars \/ \E r \in Rules : Delete(r) PROVE tx' = tx
  BY <1>8 DEF Tick, Reply, Delete, vars
<1>9. \A q \in Processes : Commit(q) \/ Fail(q) => tx' = [tx EXCEPT ![q] = Gone(q)]
  BY DEF Commit, Fail
<1> QED
  BY <1>1, <1>2, <1>3, <1>4, <1>5, <1>6, <1>7, <1>8, <1>9, ConstantTypes DEF Next, EventStep, SweepStep

\* Of a chain that has waited, no step marked stop_if comes to its gate once the customer wrote
\* since the first wait, and none is performed anywhere else.
THEOREM ChainsStopForReplies == Spec => StopsWhenReplied
<1>1. Init => TypeOK /\ WorkInv /\ SinceInv
  BY InitTypes, InitSince
<1>2. TypeOK /\ WorkInv /\ SinceInv /\ [Next]_vars => TypeOK' /\ WorkInv' /\ SinceInv'
  <2>1. ASSUME SinceInv, UNCHANGED vars PROVE SinceInv'
    BY <2>1 DEF vars, history, SinceInv, Dated
  <2> QED
    BY <2>1, StepTypes, SinceNext
<1>3. TypeOK /\ WorkInv /\ SinceInv /\ [Next]_vars =>
        [/\ ~AtGate /\ AtGate' /\ begun[tx'[Sweep].cur] # Never
              => lastReply = Never \/ lastReply <= begun[tx'[Sweep].cur]
         /\ \A p \in Processes : \A x \in tx'[p].acts \ tx[p].acts :
              Chain(x[1])[x[2]].stop /\ begun[x[1]] # Never
                => p = Sweep /\ AtGate /\ x[1] = tx[p].cur /\ x[2] = tx[p].at]_vars
  BY StepHeeds DEF Performs, Comes
<1> QED
  BY <1>1, <1>2, <1>3, PTL DEF Spec, StopsWhenReplied

-----------------------------------------------------------------------------
(* The interval between starts.                                            *)

LEMMA ReentryTypes ==
  ASSUME TypeOK
  PROVE  /\ \A e \in Events : RuleOf(e) \in Rules /\ started[e] \in Nat \cup {Never} /\ tx[e].clock \in Nat
         /\ \A r \in Rules : setup.reentry[r] \in Nat \cup {Always} /\ (Bounded(r) => setup.reentry[r] \in Nat)
         /\ now \in Nat /\ \A e \in Events : saw[e] \subseteq Events
<1>1. setup \in Setups /\ now \in Nat /\ \A e \in Events : saw[e] \subseteq Events
  BY ConstantTypes DEF TypeOK
<1>2. \A e \in Events : RuleOf(e) \in Rules
  BY <1>1, ChainTypes
<1>3. \A r \in Rules : setup.reentry[r] \in Nat \cup {Always}
  BY <1>1, ChainTypes, SetupAssumption
<1>4. ASSUME NEW e \in Events PROVE started[e] \in Nat \cup {Never} /\ tx[e].clock \in Nat
  <2>1. TxTypes(tx[e])
    BY TxTypesOf, ConstantTypes
  <2> QED
    BY <2>1, ConstantTypes DEF TypeOK, TxTypes
<1> QED
  BY <1>1, <1>2, <1>3, <1>4 DEF Bounded

\* Two starts of one rule: one by one, as long as nothing between them overlapped the first.
LEMMA ReentryHolds ==
  ASSUME TypeOK, ReentryInv
  PROVE  ReentryKept
<1> SUFFICES ASSUME NEW e \in Events, NEW f \in Events, e # f, RuleOf(e) = RuleOf(f), RuleOf(f) \in alive,
                    started[e] # Never, started[f] # Never, setup.reentry[RuleOf(f)] # Always
             PROVE  LET r == RuleOf(f) IN
                    /\ setup.reentry[r] # 0
                    /\ e \in saw[f] /\ (\A g \in saw[f] \ {e} : RuleOf(g) = r => ~Overlap(e, g))
                         => started[f] - started[e] >= setup.reentry[r]
  BY DEF ReentryKept
<1> DEFINE r == RuleOf(f)
<1>1. Bounded(r) /\ setup.reentry[r] \in Nat /\ r \in Rules
  BY ReentryTypes DEF Bounded
<1>2. LateEnough(f, started[f]) /\ setup.reentry[r] # 0
  BY <1>1 DEF ReentryInv, StartInv
<1>3. ASSUME e \in saw[f], \A g \in saw[f] \ {e} : RuleOf(g) = r => ~Overlap(e, g)
      PROVE  started[f] - started[e] >= setup.reentry[r]
  <2>1. OfRule(saw[f], r) # {}
    BY <1>3 DEF OfRule
  <2>2. PICK w \in Events : LastOf(saw[f], r, w) /\ started[f] - started[w] >= setup.reentry[r]
    BY <1>2, <2>1 DEF LateEnough
  <2>3. CASE w = e
    BY <2>2, <2>3
  <2>4. CASE w # e
    <3>1. w \in saw[f] /\ RuleOf(w) = r /\ w \notin saw[e]
      BY <1>3, <2>2, <2>4 DEF LastOf
    <3>2. e \in saw[w]
      BY <1>3, <2>4, <3>1 DEF Overlap
    <3>3. started[w] # Never
      BY <3>1 DEF ReentryInv, SawInv, Started
    <3>4. LateEnough(w, started[w])
      BY <1>1, <3>1, <3>3 DEF ReentryInv, StartInv
    <3>5. started[e] <= started[w]
      BY <3>2, <3>4 DEF LateEnough
    <3> QED
      BY <1>1, <2>2, <3>3, <3>5, ReentryTypes
  <2> QED
    BY <2>3, <2>4
<1> QED
  BY <1>2, <1>3

\* Starts and what they saw are left alone, and no event gets further than the end of its transaction.
LEMMA ReentryStays ==
  ASSUME TypeOK, ReentryInv, setup' = setup, saw' = saw, started' = started, alive' \subseteq alive,
         \A r \in alive' : marker'[r] = marker[r], now' \in Nat, now <= now',
         \A e \in Events :
           /\ tx'[e].clock = tx[e].clock \/ tx'[e].clock = 0
           /\ tx[e].pc = "over" => tx'[e].pc = "over"
           /\ tx'[e].pc \in {"chain", "commit"} =>
                tx[e].pc \in {"chain", "commit"} /\ tx'[e].seen = tx[e].seen /\ tx'[e].clock = tx[e].clock
  PROVE  ReentryInv'
<1>1. SawInv'
  <2> SUFFICES ASSUME NEW e \in Events
               PROVE (/\ tx[e].clock <= now /\ (started[e] # Never => started[e] <= now /\ tx[e].pc = "over")
                      /\ saw[e] \subseteq Started \ {e})'
    BY DEF SawInv
  <2>1. /\ tx[e].clock <= now /\ (started[e] # Never => started[e] <= now /\ tx[e].pc = "over")
        /\ saw[e] \subseteq Started \ {e}
    BY DEF ReentryInv, SawInv
  <2>2. Started' = Started
    BY DEF Started
  <2> QED
    BY <2>1, <2>2, ReentryTypes
<1>2. MarkerInv'
  BY DEF ReentryInv, MarkerInv, Bounded, OfRule, LastOf, Started, RuleOf
<1>3. ASSUME NEW f \in Events PROVE StartInv(f)'
  <2>1. StartInv(f)
    BY DEF ReentryInv
  <2>2. PICK c : c = tx'[f].clock
    OBVIOUS
  <2>3. ASSUME LateEnough(f, started[f]) PROVE LateEnough(f, started[f])'
    BY <2>3 DEF LateEnough, LastOf, OfRule, RuleOf
  <2>4. ASSUME LateEnough(f, tx[f].clock), tx'[f].clock = tx[f].clock PROVE LateEnough(f, tx[f].clock)'
    BY <2>4 DEF LateEnough, LastOf, OfRule, RuleOf
  <2> QED
    BY <2>1, <2>3, <2>4 DEF StartInv, Bounded, RuleOf
<1> QED
  BY <1>1, <1>2, <1>3 DEF ReentryInv

\* An event looks at the marker, and sees everything that is committed.
LEMMA ReentryStart ==
  ASSUME TypeOK, WorkInv, ReentryInv, NEW p \in Events, Start(p), Chain(p) # <<>>, MayStart(RuleOf(p), marker[RuleOf(p)])
  PROVE  ReentryInv'
<1> DEFINE r == RuleOf(p)
           t == tx[p]
<1>0. p \in Processes /\ t \in Transactions /\ t.pc = "idle"
  BY ConstantTypes, TxTypesOf DEF Start
<1>1. /\ tx' = [tx EXCEPT ![p].pc = "chain", ![p].seen = marker[r], ![p].clock = now]
      /\ saw' = [saw EXCEPT ![p] = Started]
      /\ r \in alive /\ setup' = setup /\ now' = now /\ started' = started /\ alive' = alive /\ marker' = marker
  BY DEF Start, Started
<1>2. /\ tx'[p].pc = "chain" /\ tx'[p].seen = marker[r] /\ tx'[p].clock = now
      /\ \A q \in Processes : q # p => tx'[q] = tx[q]
  BY <1>0, <1>1 DEF TypeOK, Transactions
<1>3. saw'[p] = Started /\ \A e \in Events : e # p => saw'[e] = saw[e]
  BY <1>1 DEF TypeOK
<1>4. started[p] = Never /\ p \notin Started /\ Started' = Started
  BY <1>0, <1>1 DEF ReentryInv, SawInv, Started
<1>5. \A e \in Started : e \in Events /\ e # p /\ saw'[e] = saw[e]
  BY <1>3, <1>4 DEF Started
<1>6. now \in Nat /\ r \in Rules
  BY ReentryTypes
<1>7. ASSUME NEW S, S \subseteq Started, NEW q, NEW w, LastOf(S, q, w) PROVE LastOf(S, q, w)'
  BY <1>1, <1>5, <1>7 DEF LastOf, RuleOf
<1>8. SawInv'
  <2> SUFFICES ASSUME NEW e \in Events
               PROVE (/\ tx[e].clock <= now /\ (started[e] # Never => started[e] <= now /\ tx[e].pc = "over")
                      /\ saw[e] \subseteq Started \ {e})'
    BY DEF SawInv
  <2>1. /\ tx[e].clock <= now /\ (started[e] # Never => started[e] <= now /\ tx[e].pc = "over")
        /\ saw[e] \subseteq Started \ {e}
    BY DEF ReentryInv, SawInv
  <2>2. CASE e = p
    BY <1>1, <1>2, <1>3, <1>4, <1>6, <2>2
  <2>3. CASE e # p
    <3>1. tx'[e] = tx[e] /\ saw'[e] = saw[e]
      BY <1>2, <1>3, <2>3, ConstantTypes
    <3> QED
      BY <1>1, <1>4, <2>1, <3>1
  <2> QED
    BY <2>2, <2>3
<1>9. MarkerInv'
  <2> SUFFICES ASSUME NEW q \in Rules, Bounded(q)', OfRule(Started, q)' # {}
               PROVE (marker[q] # Never /\ \E w \in Events : LastOf(Started, q, w) /\ started[w] = marker[q])'
    BY DEF MarkerInv
  <2>1. Bounded(q) /\ OfRule(Started, q) # {}
    BY <1>1, <1>4 DEF Bounded, OfRule, RuleOf
  <2>2. marker[q] # Never /\ \E w \in Events : LastOf(Started, q, w) /\ started[w] = marker[q]
    BY <2>1 DEF ReentryInv, MarkerInv
  <2>3. PICK w \in Events : LastOf(Started, q, w) /\ started[w] = marker[q]
    BY <2>2
  <2>4. PICK S : S = Started
    OBVIOUS
  <2>5. LastOf(S, q, w)'
    BY <1>7, <2>3, <2>4
  <2>6. LastOf(Started, q, w)'
    BY <1>4, <2>4, <2>5 DEF LastOf
  <2> QED
    BY <1>1, <2>2, <2>3, <2>6
<1>10. ASSUME NEW f \in Events, f # p PROVE StartInv(f)'
  <2>1. StartInv(f) /\ saw[f] \subseteq Started
    BY DEF ReentryInv, SawInv
  <2>2. tx'[f] = tx[f] /\ saw'[f] = saw[f]
    BY <1>2, <1>3, <1>10, ConstantTypes
  <2>3. PICK S : S = saw[f]
    OBVIOUS
  <2>4. ASSUME NEW x, LateEnough(f, x) PROVE LateEnough(f, x)'
    <3>1. OfRule(saw[f], RuleOf(f))' = OfRule(saw[f], RuleOf(f))
      BY <1>1, <2>2 DEF OfRule, RuleOf
    <3>2. \A w \in Events : LastOf(saw[f], RuleOf(f), w) => LastOf(saw[f], RuleOf(f), w)'
      BY <1>1, <1>5, <2>1, <2>2 DEF LastOf, RuleOf
    <3> QED
      BY <1>1, <2>2, <2>4, <3>1, <3>2 DEF LateEnough, RuleOf
  <2>5. PICK x : x = started[f]
    OBVIOUS
  <2>6. PICK y : y = tx[f].clock
    OBVIOUS
  <2>7. LateEnough(f, started[f]) => LateEnough(f, started[f])'
    BY <1>1, <2>4, <2>5 DEF LateEnough
  <2>8. LateEnough(f, tx[f].clock) => LateEnough(f, tx[f].clock)'
    BY <2>2, <2>4, <2>6 DEF LateEnough
  <2> QED
    BY <1>1, <2>1, <2>2, <2>7, <2>8 DEF StartInv, Bounded, RuleOf
<1>11. StartInv(p)'
  <2> SUFFICES ASSUME Bounded(r)'
               PROVE ((setup.reentry[r] = 0 => tx[p].seen = Never) /\ LateEnough(p, tx[p].clock))'
    BY <1>1, <1>4 DEF StartInv, RuleOf
  <2>1. Bounded(r) /\ setup.reentry[r] \in Nat /\ setup.reentry[r] # Always
    BY <1>1, <1>6, ReentryTypes DEF Bounded, RuleOf
  <2>2. marker[r] = Never \/ (setup.reentry[r] > 0 /\ now - marker[r] >= setup.reentry[r])
    BY <2>1 DEF MayStart
  <2>3. (setup.reentry[r] = 0 => tx[p].seen = Never)'
    BY <1>1, <1>2, <2>1, <2>2 DEF RuleOf
  <2>4. \A e \in saw'[p] : started'[e] <= now
    BY <1>1, <1>3 DEF ReentryInv, SawInv, Started
  <2>5. ASSUME OfRule(saw[p], r)' # {}
        PROVE \E w \in Events : LastOf(saw[p], r, w)' /\ now - started'[w] >= setup.reentry[r]
    <3>1. OfRule(Started, r) # {}
      BY <1>1, <1>3, <2>5 DEF OfRule, RuleOf
    <3>2. marker[r] # Never /\ \E w \in Events : LastOf(Started, r, w) /\ started[w] = marker[r]
      BY <1>6, <2>1, <3>1 DEF ReentryInv, MarkerInv
    <3>3. PICK w \in Events : LastOf(Started, r, w) /\ started[w] = marker[r]
      BY <3>2
    <3>4. LastOf(saw[p], r, w)'
      BY <1>1, <1>3, <1>5, <3>3 DEF LastOf, RuleOf
    <3>5. now - started'[w] >= setup.reentry[r]
      BY <1>1, <2>2, <3>2, <3>3
    <3> QED
      BY <3>4, <3>5
  <2>6. LateEnough(p, tx[p].clock)'
    BY <1>1, <1>2, <2>4, <2>5 DEF LateEnough, RuleOf
  <2> QED
    BY <2>3, <2>6
<1> QED
  BY <1>8, <1>9, <1>10, <1>11 DEF ReentryInv

\* An event that did something is committed: it is the last of its rule, and its marker says so.
LEMMA ReentryCommit ==
  ASSUME TypeOK, WorkInv, ReentryInv, NEW p \in Events, Commit(p), ~Broken(p), tx[p].acted
  PROVE  ReentryInv'
<1> DEFINE r == RuleOf(p)
           t == tx[p]
<1>0. p \in Processes /\ p # Sweep /\ t.pc = "commit"
  BY ConstantTypes DEF Commit
<1>1. /\ started' = [started EXCEPT ![p] = t.clock]
      /\ marker' = (IF setup.reentry[r] # Always THEN [marker EXCEPT ![r] = t.clock] ELSE marker)
      /\ saw' = saw /\ setup' = setup /\ now' = now /\ alive' = alive
  BY <1>0 DEF Commit
<1>2. tx' = [tx EXCEPT ![p] = Gone(p)]
  BY DEF Commit
<1>3. PICK n : n = Gone(p)
  OBVIOUS
<1>4. n.pc = "over" /\ n.clock = 0
  <2>1. Empty(p, n.pc, n) /\ n.pc = "over"
    BY <1>0, <1>3, GoneFields, Zenon
  <2> QED
    BY <2>1, Zenon DEF Empty
<1>5. tx'[p].pc = "over" /\ tx'[p].clock = 0 /\ \A e \in Events : e # p => tx'[e] = tx[e]
  BY <1>0, <1>2, <1>3, <1>4, ConstantTypes DEF TypeOK
<1>6. started[p] = Never /\ p \notin Started /\ t.clock <= now /\ t.clock \in Nat /\ t.clock # Never
  BY <1>0, ReentryTypes, ConstantTypes DEF ReentryInv, SawInv, Started
<1>7. started'[p] = t.clock /\ \A e \in Events : e # p => started'[e] = started[e]
  BY <1>1 DEF TypeOK
<1>8. Started' = Started \cup {p}
  BY <1>6, <1>7 DEF Started
<1>9. \A e \in Events : saw[e] \subseteq Started /\ e \notin saw[e] /\ p \notin saw[e]
  BY <1>6 DEF ReentryInv, SawInv
<1>10. \A e \in Events : \A g \in saw[e] : g \in Events /\ started'[g] = started[g]
  BY <1>7, <1>9 DEF Started
<1>11. SawInv'
  <2> SUFFICES ASSUME NEW e \in Events
               PROVE (/\ tx[e].clock <= now /\ (started[e] # Never => started[e] <= now /\ tx[e].pc = "over")
                      /\ saw[e] \subseteq Started \ {e})'
    BY DEF SawInv
  <2>1. /\ tx[e].clock <= now /\ (started[e] # Never => started[e] <= now /\ tx[e].pc = "over")
        /\ saw[e] \subseteq Started \ {e}
    BY DEF ReentryInv, SawInv
  <2>2. CASE e = p
    BY <1>1, <1>5, <1>6, <1>7, <1>8, <2>1, <2>2, ReentryTypes
  <2>3. CASE e # p
    BY <1>1, <1>5, <1>7, <1>8, <2>1, <2>3
  <2> QED
    BY <2>2, <2>3
<1>12. MarkerInv'
  <2> SUFFICES ASSUME NEW q \in Rules, Bounded(q)', OfRule(Started, q)' # {}
               PROVE (marker[q] # Never /\ \E w \in Events : LastOf(Started, q, w) /\ started[w] = marker[q])'
    BY DEF MarkerInv
  <2>1. CASE q = r
    <3>1. marker'[q] = t.clock
      BY <1>1, <2>1 DEF TypeOK, Bounded
    <3>2. LastOf(Started, q, p)'
      BY <1>1, <1>8, <1>9, <2>1 DEF LastOf, RuleOf, Started
    <3> QED
      BY <1>6, <1>7, <3>1, <3>2
  <2>2. CASE q # r
    <3>1. Bounded(q) /\ OfRule(Started, q) # {} /\ marker'[q] = marker[q]
      BY <1>1, <1>8, <2>2 DEF Bounded, OfRule, RuleOf, TypeOK
    <3>2. marker[q] # Never /\ \E w \in Events : LastOf(Started, q, w) /\ started[w] = marker[q]
      BY <3>1 DEF ReentryInv, MarkerInv
    <3>3. PICK w \in Events : LastOf(Started, q, w) /\ started[w] = marker[q]
      BY <3>2
    <3>4. w # p /\ LastOf(Started, q, w)'
      BY <1>1, <1>8, <2>2, <3>3 DEF LastOf, RuleOf
    <3> QED
      BY <1>7, <3>1, <3>2, <3>3, <3>4
  <2> QED
    BY <2>1, <2>2
<1>13. ASSUME NEW f \in Events, NEW x, LateEnough(f, x) PROVE LateEnough(f, x)'
  <2>1. \A e \in saw'[f] : started'[e] <= x
    BY <1>1, <1>10, <1>13 DEF LateEnough
  <2>2. ASSUME OfRule(saw[f], RuleOf(f))' # {}
        PROVE (\E w \in Events : LastOf(saw[f], RuleOf(f), w) /\ x - started[w] >= setup.reentry[RuleOf(f)])'
    <3>1. OfRule(saw[f], RuleOf(f)) # {}
      BY <1>1, <2>2 DEF OfRule, RuleOf
    <3>2. PICK w \in Events : LastOf(saw[f], RuleOf(f), w) /\ x - started[w] >= setup.reentry[RuleOf(f)]
      BY <1>13, <3>1 DEF LateEnough
    <3>3. LastOf(saw[f], RuleOf(f), w)' /\ w \in saw[f]
      BY <1>1, <3>2 DEF LastOf, RuleOf
    <3> QED
      BY <1>1, <1>10, <3>2, <3>3 DEF RuleOf
  <2> QED
    BY <2>1, <2>2 DEF LateEnough
\* No other start of a rule that fires once can have been: this one found no marker.
<1>14. ASSUME Bounded(r), NEW e \in Events, e # p, RuleOf(e) = r, started[e] # Never PROVE setup.reentry[r] # 0
  <2>1. e \in OfRule(Started, r) /\ r \in Rules
    BY <1>14, ReentryTypes DEF OfRule, Started
  <2>2. marker[r] # Never
    BY <1>14, <2>1 DEF ReentryInv, MarkerInv
  <2>3. t.seen # Never
    BY <1>0, <1>14, <2>2 DEF Broken, Bounded
  <2> QED
    BY <1>0, <1>14, <2>3 DEF ReentryInv, StartInv
<1>15. ASSUME NEW f \in Events PROVE StartInv(f)'
  <2> SUFFICES ASSUME Bounded(RuleOf(f))'
               PROVE /\ (tx[f].pc \in {"chain", "commit"} =>
                           (setup.reentry[RuleOf(f)] = 0 => tx[f].seen = Never) /\ LateEnough(f, tx[f].clock))'
                     /\ (started[f] # Never =>
                           /\ LateEnough(f, started[f])
                           /\ \A e \in Events : e # f /\ RuleOf(e) = RuleOf(f) /\ started[e] # Never =>
                                setup.reentry[RuleOf(f)] # 0)'
    BY DEF StartInv
  <2>1. Bounded(RuleOf(f)) /\ StartInv(f)
    BY <1>1 DEF Bounded, RuleOf, ReentryInv
  <2>2. CASE f = p
    <3>1. LateEnough(p, t.clock)
      BY <1>0, <2>1, <2>2 DEF StartInv
    <3>2. PICK x : x = t.clock
      OBVIOUS
    <3>3. LateEnough(p, x)'
      BY <1>13, <3>1, <3>2
    <3>4. LateEnough(p, started[p])'
      BY <1>7, <3>2, <3>3 DEF LateEnough
    <3>5. (\A e \in Events : e # p /\ RuleOf(e) = RuleOf(p) /\ started[e] # Never => setup.reentry[RuleOf(p)] # 0)'
      BY <1>1, <1>7, <1>14, <2>1, <2>2 DEF RuleOf
    <3> QED
      BY <1>5, <2>2, <3>4, <3>5
  <2>3. CASE f # p
    <3>1. PICK x : x = started[f]
      OBVIOUS
    <3>2. PICK y : y = tx[f].clock
      OBVIOUS
    <3>3. LateEnough(f, started[f]) => LateEnough(f, started[f])'
      BY <1>7, <1>13, <2>3, <3>1 DEF LateEnough
    <3>4. LateEnough(f, tx[f].clock) => LateEnough(f, tx[f].clock)'
      BY <1>5, <1>13, <2>3, <3>2 DEF LateEnough
    <3>5. ASSUME started'[f] # Never, NEW e \in Events, e # f, (RuleOf(e) = RuleOf(f))', started'[e] # Never
          PROVE (setup.reentry[RuleOf(f)] # 0)'
      <4>1. CASE e = p
        BY <1>1, <1>7, <1>14, <2>1, <2>3, <3>5, <4>1 DEF RuleOf
      <4>2. CASE e # p
        BY <1>1, <1>7, <2>1, <2>3, <3>5, <4>2 DEF StartInv, RuleOf
      <4> QED
        BY <4>1, <4>2
    <3>6. (tx[f].pc \in {"chain", "commit"} =>
             (setup.reentry[RuleOf(f)] = 0 => tx[f].seen = Never) /\ LateEnough(f, tx[f].clock))'
      BY <1>1, <1>5, <2>1, <2>3, <3>4 DEF StartInv, RuleOf
    <3>7. started'[f] # Never => LateEnough(f, started[f])'
      BY <1>7, <2>1, <2>3, <3>3 DEF StartInv
    <3> QED
      BY <3>5, <3>6, <3>7
  <2> QED
    BY <2>2, <2>3
<1> QED
  BY <1>11, <1>12, <1>15 DEF ReentryInv

LEMMA ReentryGone ==
  ASSUME TypeOK, WorkInv, ReentryInv, NEW p \in Processes, tx' = [tx EXCEPT ![p] = Gone(p)],
         setup' = setup, saw' = saw, started' = started, alive' = alive, marker' = marker, now' = now
  PROVE  ReentryInv'
<1>1. PICK n : n = Gone(p)
  OBVIOUS
<1>2. n.pc = (IF p = Sweep THEN "idle" ELSE "over") /\ n.clock = 0
  BY <1>1, GoneFields DEF Empty
<1>3. \A e \in Events : IF e = p THEN tx'[e] = n ELSE tx'[e] = tx[e]
  BY <1>1, ConstantTypes DEF TypeOK
<1>4. ASSUME NEW e \in Events
      PROVE /\ tx'[e].clock = tx[e].clock \/ tx'[e].clock = 0
            /\ tx[e].pc = "over" => tx'[e].pc = "over"
            /\ tx'[e].pc \in {"chain", "commit"} =>
                 tx[e].pc \in {"chain", "commit"} /\ tx'[e].seen = tx[e].seen /\ tx'[e].clock = tx[e].clock
  BY <1>2, <1>3, <1>4, ConstantTypes
<1> QED
  BY <1>4, ReentryTypes, ReentryStays

LEMMA ReentryNext ==
  ASSUME TypeOK, WorkInv, ReentryInv, Next
  PROVE  ReentryInv'
<1>1. ASSUME Tick \/ Reply PROVE ReentryInv'
  <2>1. now' \in Nat /\ now <= now'
    BY <1>1, ReentryTypes DEF Tick, Reply
  <2>2. tx' = tx /\ setup' = setup /\ saw' = saw /\ started' = started /\ alive' = alive /\ marker' = marker
    BY <1>1 DEF Tick, Reply, history
  <2> QED
    BY <2>1, <2>2, ReentryStays
<1>2. ASSUME NEW r \in Rules, Delete(r) PROVE ReentryInv'
  <2>1. \A q \in alive' : marker'[q] = marker[q]
    BY <1>2 DEF Delete, TypeOK
  <2>2. tx' = tx /\ setup' = setup /\ saw' = saw /\ started' = started /\ alive' \subseteq alive /\ now' = now
    BY <1>2 DEF Delete, history
  <2> QED
    BY <2>1, <2>2, ReentryTypes, ReentryStays
<1>3. ASSUME NEW p \in Processes, ChainStep(p) PROVE ReentryInv'
  <2>1. PICK n : Runs(p, tx[p], n)
    BY <1>3, ChainStepRuns
  <2>2. tx'[p] = n /\ \A q \in Processes : q # p => tx'[q] = tx[q]
    BY <2>1 DEF Runs, TypeOK
  <2>3. n.clock = tx[p].clock /\ n.seen = tx[p].seen /\ tx[p].pc = "chain"
    BY <1>3, <2>1 DEF Runs, Round, Keeps, ChainStep
  <2>4. ASSUME NEW e \in Events
        PROVE /\ tx'[e].clock = tx[e].clock \/ tx'[e].clock = 0
              /\ tx[e].pc = "over" => tx'[e].pc = "over"
              /\ tx'[e].pc \in {"chain", "commit"} =>
                   tx[e].pc \in {"chain", "commit"} /\ tx'[e].seen = tx[e].seen /\ tx'[e].clock = tx[e].clock
    BY <2>2, <2>3, ConstantTypes
  <2>5. setup' = setup /\ saw' = saw /\ started' = started /\ alive' = alive /\ marker' = marker /\ now' = now
    BY <1>3 DEF ChainStep
  <2> QED
    BY <2>4, <2>5, ReentryTypes, ReentryStays
<1>4. ASSUME SweepBegin \/ SweepPasses \/ \E e \in Events : SweepTake(e) PROVE ReentryInv'
  <2>1. \A e \in Events : tx'[e] = tx[e]
    BY <1>4, ConstantTypes DEF SweepBegin, SweepPasses, SweepTake, TypeOK
  <2>2. setup' = setup /\ saw' = saw /\ started' = started /\ alive' = alive /\ marker' = marker /\ now' = now
    BY <1>4 DEF SweepBegin, SweepPasses, SweepTake, history
  <2> QED
    BY <2>1, <2>2, ReentryTypes, ReentryStays
<1>5. ASSUME NEW p \in Processes, Fail(p) PROVE ReentryInv'
  BY <1>5, ReentryGone DEF Fail, history
<1>6. ASSUME NEW p \in Processes, Commit(p) PROVE ReentryInv'
  <2>1. CASE p # Sweep /\ tx[p].acted /\ ~Broken(p)
    BY <1>6, <2>1, ReentryCommit DEF Processes
  <2>2. CASE ~(p # Sweep /\ tx[p].acted /\ ~Broken(p))
    <3>1. setup' = setup /\ saw' = saw /\ started' = started /\ alive' = alive /\ marker' = marker /\ now' = now
      BY <1>6, <2>2 DEF Commit
    <3>2. tx' = [tx EXCEPT ![p] = Gone(p)]
      BY <1>6 DEF Commit
    <3> QED
      BY <3>1, <3>2, ReentryGone
  <2> QED
    BY <2>1, <2>2
<1>7. ASSUME NEW e \in Events, Start(e) PROVE ReentryInv'
  <2>1. CASE Chain(e) # <<>> /\ MayStart(RuleOf(e), marker[RuleOf(e)])
    BY <1>7, <2>1, ReentryStart
  <2>2. CASE ~(Chain(e) # <<>> /\ MayStart(RuleOf(e), marker[RuleOf(e)]))
    <3>1. /\ tx' = [tx EXCEPT ![e].pc = "over"] /\ tx[e].pc = "idle"
          /\ setup' = setup /\ saw' = saw /\ started' = started /\ alive' = alive /\ marker' = marker /\ now' = now
      BY <1>7, <2>2 DEF Start
    <3>2. tx[e] \in Transactions /\ e \in Processes
      BY TxTypesOf, ConstantTypes
    <3>3. tx'[e].pc = "over" /\ tx'[e].clock = tx[e].clock
      BY <3>1, <3>2 DEF TypeOK, Transactions
    <3>4. \A f \in Events : f # e => tx'[f] = tx[f]
      BY <3>1, ConstantTypes DEF TypeOK
    <3>5. ASSUME NEW f \in Events
          PROVE /\ tx'[f].clock = tx[f].clock \/ tx'[f].clock = 0
                /\ tx[f].pc = "over" => tx'[f].pc = "over"
                /\ tx'[f].pc \in {"chain", "commit"} =>
                     tx[f].pc \in {"chain", "commit"} /\ tx'[f].seen = tx[f].seen /\ tx'[f].clock = tx[f].clock
      BY <3>3, <3>4
    <3> QED
      BY <3>1, <3>5, ReentryTypes, ReentryStays
  <2> QED
    BY <2>1, <2>2
<1> QED
  BY <1>1, <1>2, <1>3, <1>4, <1>5, <1>6, <1>7, ConstantTypes DEF Next, EventStep, SweepStep

LEMMA InitReentry ==
  ASSUME Init
  PROVE  ReentryInv
<1>1. ASSUME NEW p \in Processes PROVE Empty(p, "idle", tx[p])
  BY <1>1, CleanFields DEF Init
<1>2. Started = {} /\ now = 0 /\ \A e \in Events : saw[e] = {} /\ started[e] = Never
  BY DEF Init, Started
<1>3. \A e \in Events : tx[e].clock = 0
  BY <1>1, ConstantTypes DEF Empty
<1>6. SawInv
  BY <1>2, <1>3 DEF SawInv
<1>4. MarkerInv
  BY <1>2 DEF MarkerInv, OfRule
<1>5. \A f \in Events : StartInv(f)
  BY <1>1, <1>2, ConstantTypes DEF StartInv, Empty
<1> QED
  BY <1>4, <1>5, <1>6 DEF ReentryInv

\* A rule that fires once never fires twice, and one with an interval keeps it after every start
\* that nothing overlapped.
THEOREM ReentryIsKept == Spec => []ReentryKept
<1>1. Init => TypeOK /\ WorkInv /\ ReentryInv
  BY InitTypes, InitReentry
<1>2. TypeOK /\ WorkInv /\ ReentryInv /\ [Next]_vars => TypeOK' /\ WorkInv' /\ ReentryInv'
  <2>1. ASSUME TypeOK, ReentryInv, UNCHANGED vars PROVE ReentryInv'
    <3>1. tx' = tx /\ setup' = setup /\ saw' = saw /\ started' = started /\ alive' = alive /\ marker' = marker /\ now' = now
      BY <2>1 DEF vars, history
    <3> QED
      BY <2>1, <3>1, ReentryTypes, ReentryStays
  <2> QED
    BY <2>1, StepTypes, ReentryNext
<1>3. TypeOK /\ WorkInv /\ ReentryInv => ReentryKept
  BY ReentryHolds
<1> QED
  BY <1>1, <1>2, <1>3, PTL DEF Spec
=============================================================================
