---------------------------- MODULE WalletProofs ----------------------------
(***************************************************************************)
(* Proofs about Wallet.  First its types, that the entries lead to the     *)
(* balance, that nothing is posted twice and that rent never overdraws:    *)
(* each holds of the committed wallet because it holds of every copy of    *)
(* it, for work is made from such a copy by post() alone, and book is only *)
(* ever replaced by work or by what post() makes of book.  Then that       *)
(* top-ups match the payments, which is about the wallet and the settlers  *)
(* together; that usage is charged once, which is about the wallet and the *)
(* clock; and last, from most of these, that the committed wallet is a     *)
(* ledger.                                                                 *)
(***************************************************************************)
EXTENDS Wallet, FiniteSetTheorems, TLAPS

Sound(b) == AddsUp(b) /\ OncePerRef(b) /\ RentCovered(b)

\* The inductive invariant: both copies of the wallet are sound.
WalletInv == TypeOK /\ Sound(book) /\ Sound(work)

Refs == (Payments \union Numbers \union {None}) \X Nat

\* The empty wallet is sound.
LEMMA NoBookSound == NoBook \in Book /\ Sound(NoBook)
BY DEF NoBook, Book, Sound, AddsUp, OncePerRef, RentCovered

\* One more entry: it is the last, and the others stay where they are.
LEMMA OneMore ==
    ASSUME NEW S, NEW entries \in Seq(S), NEW x \in S
    PROVE  /\ Len(Append(entries, x)) = Len(entries) + 1
           /\ DOMAIN Append(entries, x) = 1 .. Len(entries) + 1
           /\ Append(entries, x)[Len(entries) + 1] = x
           /\ \A i \in 1 .. Len(entries) : Append(entries, x)[i] = entries[i]
  BY SMTT(30)

\* An entry that was not posted yet keeps a wallet sound, whatever its amount, if rent is
\* covered: the one operation that changes the entries.
LEMMA PostedSound ==
    ASSUME NEW b \in Book, Sound(b), NEW kind \in Kinds, NEW ref \in Refs, NEW amount \in Int,
           ~Seen(b, kind, ref), kind = "number_rent" => b.balance + amount >= 0
    PROVE  Posted(b, kind, ref, amount) \in Book /\ Sound(Posted(b, kind, ref, amount))
<1> DEFINE e == [kind |-> kind, ref |-> ref, amount |-> amount, after |-> b.balance + amount]
           c == Posted(b, kind, ref, amount)
           n == Len(b.entries)
<1>1. /\ b.balance \in Int /\ b.entries \in Seq(Entry) /\ n \in Nat
      /\ DOMAIN b.entries = 1 .. n
  BY DEF Book
<1>2. e \in Entry
  BY <1>1 DEF Entry, Refs
<1>3. c = [b EXCEPT !.balance = b.balance + amount, !.entries = Append(b.entries, e)]
  BY DEF Posted
<1>4. Append(b.entries, e) \in Seq(Entry)
  BY <1>1, <1>2
<1>e. e.kind = kind /\ e.ref = ref /\ e.amount = amount /\ e.after = b.balance + amount
  OBVIOUS
<1> HIDE DEF e, c
<1>5. c \in Book /\ c.balance = b.balance + amount /\ c.entries = Append(b.entries, e)
  <2> DEFINE money == b.balance + amount
             posts == Append(b.entries, e)
  <2>1. money \in Int
    BY <1>1
  <2>2. c = [b EXCEPT !.balance = money, !.entries = posts] /\ posts \in Seq(Entry)
    BY <1>3, <1>4
  <2> HIDE DEF money, posts
  <2>3. c \in Book /\ c.balance = money /\ c.entries = posts
    BY <2>1, <2>2 DEF Book
  <2> QED
    BY <2>3 DEF money, posts
<1>6. /\ Len(c.entries) = n + 1 /\ DOMAIN c.entries = 1 .. n + 1
      /\ c.entries[n + 1] = e
      /\ \A i \in 1 .. n : c.entries[i] = b.entries[i]
  BY <1>1, <1>2, <1>5, OneMore
<1>7. AddsUp(c)
  <2>1. c.entries # <<>> /\ c.balance = c.entries[Len(c.entries)].after
    <3>1. Len(c.entries) # 0
      BY <1>1, <1>6
    <3>2. c.entries[Len(c.entries)] = e
      BY <1>6
    <3>3. c.balance = e.after
      BY <1>5, <1>e
    <3> QED
      BY <3>1, <3>2, <3>3
  <2>2. ASSUME NEW i \in 1 .. n
        PROVE  c.entries[i].after = c.entries[i].amount + (IF i = 1 THEN 0 ELSE c.entries[i - 1].after)
    <3>1. b.entries[i].after = b.entries[i].amount + (IF i = 1 THEN 0 ELSE b.entries[i - 1].after)
      BY <1>1 DEF Sound, AddsUp
    <3>2. i = 1 \/ i - 1 \in 1 .. n
      BY <1>1
    <3> QED
      BY <3>1, <3>2, <1>6
  <2>3. b.balance = IF n = 0 THEN 0 ELSE b.entries[n].after
    BY <1>1 DEF Sound, AddsUp
  <2>4. e.after = e.amount + (IF n + 1 = 1 THEN 0 ELSE c.entries[n + 1 - 1].after)
    BY <1>1, <1>6, <1>e, <2>3
  <2>5. ASSUME NEW i \in DOMAIN c.entries
        PROVE  c.entries[i].after = c.entries[i].amount + (IF i = 1 THEN 0 ELSE c.entries[i - 1].after)
    <3>1. i \in 1 .. n \/ i = n + 1
      BY <1>1, <1>6
    <3>2. CASE i \in 1 .. n
      BY <3>2, <2>2
    <3>3. CASE i = n + 1
      BY <3>3, <2>4, <1>6
    <3> QED
      BY <3>1, <3>2, <3>3
  <2> QED
    BY <2>1, <2>5 DEF AddsUp
<1>8. OncePerRef(c)
  <2>1. \A i \in 1 .. n : ~(c.entries[i].kind = e.kind /\ c.entries[i].ref = e.ref)
    BY <1>1, <1>6, <1>e DEF Seen
  <2>2. ASSUME NEW i \in DOMAIN c.entries, NEW j \in DOMAIN c.entries,
               c.entries[i].kind = c.entries[j].kind, c.entries[i].ref = c.entries[j].ref
        PROVE  i = j
    <3>1. (i \in 1 .. n \/ i = n + 1) /\ (j \in 1 .. n \/ j = n + 1)
      BY <1>1, <1>6
    <3>2. CASE i \in 1 .. n /\ j \in 1 .. n
      BY <1>1, <1>6, <2>2, <3>2 DEF OncePerRef, Sound
    <3>3. CASE i = n + 1 /\ j \in 1 .. n
      BY <1>6, <2>1, <2>2, <3>3
    <3>4. CASE i \in 1 .. n /\ j = n + 1
      BY <1>6, <2>1, <2>2, <3>4
    <3> QED
      BY <3>1, <3>2, <3>3, <3>4
  <2> QED
    BY <2>2 DEF OncePerRef
<1>9. RentCovered(c)
  BY <1>1, <1>6, <1>e DEF RentCovered, Sound
<1> QED
  BY <1>5, <1>7, <1>8, <1>9 DEF Sound, c

\* So does post(), which posts only what it has not.
LEMMA PostSound ==
    ASSUME NEW b \in Book, Sound(b), NEW kind \in Kinds, NEW ref \in Refs, NEW amount \in Int,
           kind = "number_rent" => Seen(b, kind, ref) \/ b.balance + amount >= 0
    PROVE  Post(b, kind, ref, amount) \in Book /\ Sound(Post(b, kind, ref, amount))
BY PostedSound DEF Post

\* What is not the balance or the entries may change freely.
LEMMA OthersSound ==
    ASSUME NEW b \in Book, Sound(b), NEW c \in Book,
           c.balance = b.balance, c.entries = b.entries
    PROVE  Sound(c)
BY DEF Sound, AddsUp, OncePerRef, RentCovered

\* The row as it is locked is sound, whoever locks it.
LEMMA LockedSound ==
    ASSUME WalletInv, NEW q
    PROVE  LockedBook(q) \in Book /\ Sound(LockedBook(q))
<1> DEFINE b == IF Mine(q) THEN work ELSE book
           c == [b EXCEPT !.exists = TRUE, !.since = now, !.through = now]
<1>1. b \in Book /\ Sound(b)
  BY DEF WalletInv, TypeOK
<1>2. now \in Nat
  BY DEF WalletInv, TypeOK
<1>3. c \in Book /\ c.balance = b.balance /\ c.entries = b.entries
  BY <1>1, <1>2 DEF Book
<1>4. Sound(c)
  BY <1>1, <1>3, OthersSound
<1>5. LockedBook(q) = IF b.exists THEN b ELSE c
  BY DEF LockedBook
<1> QED
  BY <1>1, <1>3, <1>4, <1>5

\* Taking a number's rent keeps a wallet sound: it is taken only when covered.
LEMMA RentSound ==
    ASSUME WalletInv, NEW b \in Book, Sound(b), NEW n \in Numbers
    PROVE  RentTaken(b, n) \in Book /\ Sound(RentTaken(b, n))
<1>1. -Rent \in Int /\ "number_rent" \in Kinds /\ b.balance \in Int
  BY WalletAssumption DEF Kinds, Book
<1>2. <<n, month>> \in Refs
  <2>1. now \in Nat
    BY DEF WalletInv, TypeOK
  <2>2. month \in Nat
    BY <2>1, WalletAssumption DEF month
  <2> QED
    BY <2>2 DEF Refs
<1>3. CASE Affordable(b, n)
  <2>1. Seen(b, "number_rent", <<n, month>>) \/ b.balance + (-Rent) >= 0
    BY <1>1, <1>3, WalletAssumption DEF Affordable
  <2>2. Post(b, "number_rent", <<n, month>>, -Rent) \in Book
        /\ Sound(Post(b, "number_rent", <<n, month>>, -Rent))
    BY <1>1, <1>2, <2>1, PostSound
  <2> QED
    BY <1>3, <2>2 DEF RentTaken
<1>4. CASE ~Affordable(b, n)
  BY <1>4 DEF RentTaken
<1> QED
  BY <1>3, <1>4

\* So does settling its calls.
LEMMA CallsSound ==
    ASSUME WalletInv, NEW b \in Book, Sound(b), NEW cutoff \in Nat
    PROVE  CallsSettled(b, cutoff) \in Book /\ Sound(CallsSettled(b, cutoff))
<1> DEFINE cost == Cost * Cardinality(Unsettled(b.through, cutoff))
           moved == [b EXCEPT !.through = cutoff]
<1>1. cost \in Nat
  <2>1. Unsettled(b.through, cutoff) \subseteq Calls
    BY DEF Unsettled
  <2>2. IsFiniteSet(Unsettled(b.through, cutoff))
    BY <2>1, WalletAssumption, FS_Subset
  <2>3. Cardinality(Unsettled(b.through, cutoff)) \in Nat
    BY <2>2, FS_CardinalityType
  <2> QED
    BY <2>3, WalletAssumption
<1> HIDE DEF cost
<1>2. moved \in Book /\ moved.balance = b.balance /\ moved.entries = b.entries
  BY DEF Book
<1>3. Sound(moved)
  BY <1>2, OthersSound
<1>4. <<None, cutoff>> \in Refs /\ "calls" \in Kinds /\ -cost \in Int
  BY <1>1 DEF Refs, Kinds
<1>5. Post(moved, "calls", <<None, cutoff>>, -cost) \in Book
      /\ Sound(Post(moved, "calls", <<None, cutoff>>, -cost))
  BY <1>2, <1>3, <1>4, PostSound
<1>6. CallsSettled(b, cutoff) \in {b, moved, Post(moved, "calls", <<None, cutoff>>, -cost)}
  BY DEF CallsSettled, cost
<1> QED
  BY <1>2, <1>3, <1>5, <1>6

\* A top-up is credited to a sound wallet.
LEMMA TopUpSound ==
    ASSUME NEW b \in Book, Sound(b), NEW p \in Payments
    PROVE  Post(b, "topup", <<p, 0>>, Credit) \in Book /\ Sound(Post(b, "topup", <<p, 0>>, Credit))
<1>1. <<p, 0>> \in Refs /\ "topup" \in Kinds /\ Credit \in Int /\ "topup" # "number_rent"
  BY WalletAssumption DEF Refs, Kinds
<1> QED
  BY <1>1, PostSound

\* The end of a transaction leaves both copies sound, and the lock typed.
LEMMA EndSound ==
    ASSUME WalletInv, NEW q, WalletKept(q) \/ WalletDropped(q)
    PROVE  /\ book' \in Book /\ Sound(book') /\ work' \in Book /\ Sound(work')
           /\ holder' \in Processes \union {None}
BY NoBookSound DEF WalletInv, TypeOK, WalletKept, WalletDropped

-----------------------------------------------------------------------------
\* The invariant holds at first.
LEMMA InitInv == Init => WalletInv
<1> SUFFICES ASSUME Init PROVE WalletInv
  OBVIOUS
<1>1. NoTx \in Tx /\ NoRun \in Run
  BY DEF NoTx, Tx, NoRun, Run
<1>2. TypeOK
  BY <1>1, NoBookSound, WalletAssumption DEF Init, TypeOK
<1> QED
  BY <1>2, NoBookSound DEF Init, WalletInv

\* What a step leaves alone keeps its part of the invariant.
LEMMA SameCopies ==
    ASSUME WalletInv, UNCHANGED <<book, work, holder>>
    PROVE  /\ book' \in Book /\ Sound(book') /\ work' \in Book /\ Sound(work')
           /\ holder' \in Processes \union {None}
BY DEF WalletInv, TypeOK

\* Every step keeps the invariant.
LEMMA NextInv == WalletInv /\ [Next]_vars => WalletInv'
<1> SUFFICES ASSUME WalletInv, [Next]_vars PROVE WalletInv'
  OBVIOUS
<1> USE DEF world
<1>0. TypeOK /\ NoTx \in Tx /\ NoRun \in Run
  BY DEF WalletInv, NoTx, Tx, NoRun, Run
<1>1. CASE Tick
  BY <1>0, <1>1, SameCopies, WalletAssumption DEF Tick, TypeOK, WalletInv
<1>3. ASSUME NEW c \in Calls, CallBegins(c) PROVE WalletInv'
  BY <1>0, <1>3, SameCopies DEF CallBegins, TypeOK, WalletInv
<1>4. ASSUME NEW c \in Calls, CallSaved(c) PROVE WalletInv'
  BY <1>0, <1>4, SameCopies DEF CallSaved, TypeOK, WalletInv
<1>5. ASSUME NEW p \in Payments, CustomerPays(p) PROVE WalletInv'
  BY <1>0, <1>5, SameCopies DEF CustomerPays, TypeOK, WalletInv
<1>6. ASSUME NEW q \in Settlers, NEW todo \in SUBSET Payments, Begin(q, todo) PROVE WalletInv'
  <2>1. [tx[q] EXCEPT !.todo = todo] \in Tx
    BY <1>0 DEF TypeOK, Tx
  <2>2. tx' \in [Settlers -> Tx]
    BY <1>0, <1>6, <2>1 DEF Begin, TypeOK
  <2> QED
    BY <1>0, <1>6, <2>2, SameCopies DEF Begin, TypeOK, WalletInv
<1>7. ASSUME NEW q \in Settlers, NEW p \in Payments, LockPayment(q, p) PROVE WalletInv'
  <2> DEFINE t == [tx[q] EXCEPT !.todo = @ \ {p}, !.held = @ \union {p}]
  <2>1. tx[q] \in Tx
    BY <1>0 DEF TypeOK
  <2>2. t \in Tx /\ [t EXCEPT !.at = p] \in Tx /\ [t EXCEPT !.failed = @ \union {p}] \in Tx
    BY <2>1 DEF Tx
  <2>3. PICK u \in {t, [t EXCEPT !.at = p], [t EXCEPT !.failed = @ \union {p}]} :
            tx' = [tx EXCEPT ![q] = u]
    BY <1>7 DEF LockPayment
  <2>4. tx' \in [Settlers -> Tx]
    BY <1>0, <2>2, <2>3 DEF TypeOK
  <2> QED
    BY <1>0, <1>7, <2>4, SameCopies DEF LockPayment, TypeOK, WalletInv
<1>8. ASSUME NEW q \in Settlers, PostTopUp(q) PROVE WalletInv'
  <2>1. tx[q] \in Tx /\ tx[q].at \in Payments
    BY <1>0, <1>8 DEF PostTopUp, TypeOK, Tx
  <2>2. work' \in Book /\ Sound(work')
    BY <1>8, <2>1, LockedSound, TopUpSound DEF PostTopUp
  <2>3. tx' \in [Settlers -> Tx]
    <3>1. [tx[q] EXCEPT !.credited = @ \union {tx[q].at}, !.at = None] \in Tx
      BY <2>1 DEF Tx
    <3> QED
      BY <1>0, <1>8, <3>1 DEF PostTopUp, TypeOK
  <2>4. holder' \in Processes
    BY <1>8 DEF PostTopUp, Processes
  <2> QED
    BY <1>0, <1>8, <2>2, <2>3, <2>4 DEF PostTopUp, TypeOK, WalletInv
<1>9. ASSUME NEW q \in Settlers, CommitTx(q) PROVE WalletInv'
  <2>1. payment' \in [Payments -> {"pending", "success", "failed"}]
    BY <1>0, <1>9 DEF CommitTx, TypeOK
  <2>2. tx' \in [Settlers -> Tx]
    BY <1>0, <1>9 DEF CommitTx, TypeOK
  <2>3. WalletKept(q)
    BY <1>9 DEF CommitTx
  <2> QED
    BY <1>0, <1>9, <2>1, <2>2, <2>3, EndSound DEF CommitTx, TypeOK, WalletInv
<1>10. ASSUME NEW q \in Settlers, AbortTx(q), faults' \in Nat PROVE WalletInv'
  <2>1. tx' \in [Settlers -> Tx]
    BY <1>0, <1>10 DEF AbortTx, TypeOK
  <2>2. WalletDropped(q)
    BY <1>10 DEF AbortTx
  <2> QED
    BY <1>0, <1>10, <2>1, <2>2, EndSound DEF AbortTx, TypeOK, WalletInv
<1>11. CASE SweepBegins
  <2>1. run' \in Run
    <3>1. now - Lag \in Nat
      BY <1>0, WalletAssumption DEF TypeOK
    <3>2. run' = [NoRun EXCEPT !.phase = "calls", !.cutoff = now - Lag]
      BY <1>11 DEF SweepBegins
    <3> QED
      BY <1>0, <3>1, <3>2 DEF Run
  <2> QED
    BY <1>0, <1>11, <2>1, SameCopies DEF SweepBegins, TypeOK, WalletInv
<1>12. CASE SettleCalls
  <2>1. run' \in Run /\ run.cutoff \in Nat
    BY <1>0, <1>12 DEF SettleCalls, TypeOK, Run
  <2>2. work' \in Book /\ Sound(work') /\ holder' \in Processes \union {None}
    <3>1. CASE book.exists
      <4>1. work' = CallsSettled(LockedBook(Sweep), run.cutoff) /\ holder' = Sweep
        BY <1>12, <3>1 DEF SettleCalls
      <4> QED
        BY <2>1, <4>1, LockedSound, CallsSound DEF Processes
    <3>2. CASE ~book.exists
      BY <1>12, <3>2 DEF SettleCalls, WalletInv, TypeOK
    <3> QED
      BY <3>1, <3>2
  <2> QED
    BY <1>0, <1>12, <2>1, <2>2 DEF SettleCalls, TypeOK, WalletInv
<1>13. ASSUME NEW n \in Numbers, CollectRent(n) PROVE WalletInv'
  <2>1. run \in Run
    BY <1>0 DEF TypeOK
  <2>2. /\ run' \in Run
        /\ work' \in Book /\ Sound(work') /\ holder' \in Processes \union {None}
    <3>1. CASE Mine(Sweep) \/ book.exists
      <4> DEFINE b == LockedBook(Sweep)
                 r == RentTaken(b, n)
                 c == [r EXCEPT !.short = ShortAfter(b, n)]
      <4>1. b \in Book /\ Sound(b)
        BY LockedSound
      <4>2. r \in Book /\ Sound(r)
        BY <4>1, RentSound
      <4>3. ShortAfter(b, n) \in BOOLEAN
        BY DEF ShortAfter, Affordable, Seen
      <4> HIDE DEF b
      <4>4. work' = c /\ holder' = Sweep
        BY <1>13, <3>1 DEF CollectRent, b
      <4> HIDE DEF r
      <4>5. c \in Book /\ c.balance = r.balance /\ c.entries = r.entries
        BY <4>2, <4>3 DEF Book
      <4>6. Sound(c)
        BY <4>2, <4>5, OthersSound
      <4>7. run' \in Run
        BY <1>13, <2>1 DEF CollectRent, Run
      <4> QED
        BY <4>4, <4>5, <4>6, <4>7 DEF Processes
    <3>2. CASE ~(Mine(Sweep) \/ book.exists)
      BY <1>13, <2>1, <3>2 DEF CollectRent, WalletInv, TypeOK, Run
    <3> QED
      BY <3>1, <3>2
  <2> QED
    BY <1>0, <1>13, <2>2 DEF CollectRent, TypeOK, WalletInv
<1>14. CASE SweepCommits
  <2>1. WalletKept(Sweep)
    BY <1>14 DEF SweepCommits
  <2> QED
    BY <1>0, <1>14, <2>1, EndSound DEF SweepCommits, TypeOK, WalletInv
<1>15. CASE SweepFails
  <2>1. WalletDropped(Sweep)
    BY <1>15 DEF SweepFails
  <2> QED
    BY <1>0, <1>15, <2>1, EndSound DEF SweepFails, TypeOK, WalletInv
<1>16. ASSUME NEW n \in Numbers, BuyBegins(n) \/ Release(n) PROVE WalletInv'
  BY <1>0, <1>16, SameCopies DEF BuyBegins, Release, TypeOK, WalletInv
<1>17. CASE BuyEnds
  <2>1. buying \in Numbers
    BY <1>0, <1>17 DEF BuyEnds, TypeOK
  <2>2. book' \in Book /\ Sound(book')
    BY <1>17, <2>1, LockedSound, RentSound DEF BuyEnds
  <2>3. work' \in Book /\ Sound(work')
    BY <1>17 DEF BuyEnds, WalletInv, TypeOK
  <2> QED
    BY <1>0, <1>17, <2>1, <2>2, <2>3 DEF BuyEnds, TypeOK, WalletInv
<1>18. CASE BuyFails
  BY <1>0, <1>18, SameCopies DEF BuyFails, TypeOK, WalletInv
<1>19. CASE UNCHANGED vars
  BY <1>0, <1>19, SameCopies DEF vars, TypeOK, WalletInv
<1>20. ASSUME NEW q \in Requests, NEW p \in Payments, Request(q, p) PROVE WalletInv'
  BY <1>6, <1>20 DEF Request, Settlers
<1>21. CASE RenewalSweep
  BY <1>6, <1>21 DEF RenewalSweep, Swept, Pending, Settlers
<1>22. ASSUME NEW q \in Settlers, Advance(q) \/ FailTx(q) \/ BreakDeadlock(q) PROVE WalletInv'
  <2>1. CASE FailTx(q)
    BY <1>0, <1>10, <2>1 DEF FailTx, TypeOK
  <2>2. CASE BreakDeadlock(q)
    BY <1>0, <1>10, <2>2 DEF BreakDeadlock, TypeOK
  <2> QED
    BY <1>7, <1>8, <1>9, <1>22, <2>1, <2>2 DEF Advance, LockSome
<1>23. CASE SweepStep
  BY <1>11, <1>12, <1>13, <1>14, <1>23 DEF SweepStep
<1> QED
  BY <1>1, <1>3, <1>4, <1>5, <1>15, <1>16, <1>17, <1>18, <1>19, <1>20, <1>21, <1>22, <1>23
  DEF Next

-----------------------------------------------------------------------------
(***************************************************************************)
(* Top-ups.  What a transaction has credited is in the working copy and    *)
(* nowhere else until it commits, together with the payments it settled.   *)
(***************************************************************************)

TopUp(b, p) == Seen(b, "topup", <<p, 0>>)

SameTopUps(b, c) == \A p \in Payments : TopUp(c, p) <=> TopUp(b, p)

\* What post() looks for is there afterwards, and nothing else is new.
LEMMA SeenPosted ==
    ASSUME NEW b \in Book, NEW kind \in Kinds, NEW ref \in Refs, NEW amount \in Int, NEW k, NEW r
    PROVE  Seen(Post(b, kind, ref, amount), k, r) <=> Seen(b, k, r) \/ (k = kind /\ r = ref)
<1> DEFINE e == [kind |-> kind, ref |-> ref, amount |-> amount, after |-> b.balance + amount]
           c == Posted(b, kind, ref, amount)
           n == Len(b.entries)
<1>1. /\ b.balance \in Int /\ b.entries \in Seq(Entry) /\ n \in Nat
      /\ DOMAIN b.entries = 1 .. n
  BY DEF Book
<1>2. e \in Entry /\ e.kind = kind /\ e.ref = ref
  BY <1>1 DEF Entry, Refs
<1>3. c.entries = Append(b.entries, e)
  BY DEF Posted, Book
<1> HIDE DEF e, c
<1>4. /\ DOMAIN c.entries = 1 .. n + 1
      /\ c.entries[n + 1] = e
      /\ \A i \in 1 .. n : c.entries[i] = b.entries[i]
  BY <1>1, <1>2, <1>3
<1>5. Seen(c, k, r) <=> Seen(b, k, r) \/ (k = kind /\ r = ref)
  <2>1. \A i \in 1 .. n + 1 : i \in 1 .. n \/ i = n + 1
    BY <1>1
  <2>2. 1 .. n \subseteq 1 .. n + 1 /\ n + 1 \in 1 .. n + 1
    BY <1>1
  <2> QED
    BY <1>1, <1>2, <1>4, <2>1, <2>2 DEF Seen
<1> QED
  BY <1>5 DEF Post, c

\* Charging rent or calls, and making the row, leave the top-ups as they are.
LEMMA RentKeepsTopUps ==
    ASSUME NEW b \in Book, NEW n \in Numbers, now \in Nat
    PROVE  SameTopUps(b, RentTaken(b, n))
<1>1. <<n, month>> \in Refs /\ -Rent \in Int /\ "number_rent" \in Kinds
  BY WalletAssumption DEF month, Refs, Kinds
<1>2. SameTopUps(b, Post(b, "number_rent", <<n, month>>, -Rent))
  BY <1>1, SeenPosted DEF SameTopUps, TopUp
<1> QED
  BY <1>2 DEF RentTaken, SameTopUps

LEMMA CallsKeepTopUps ==
    ASSUME NEW b \in Book, NEW cutoff \in Nat
    PROVE  SameTopUps(b, CallsSettled(b, cutoff))
<1> DEFINE cost == Cost * Cardinality(Unsettled(b.through, cutoff))
           moved == [b EXCEPT !.through = cutoff]
<1>1. cost \in Nat
  <2>1. IsFiniteSet(Unsettled(b.through, cutoff))
    BY WalletAssumption, FS_Subset DEF Unsettled
  <2>2. Cardinality(Unsettled(b.through, cutoff)) \in Nat
    BY <2>1, FS_CardinalityType
  <2> QED
    BY <2>2, WalletAssumption
<1> HIDE DEF cost
<1>2. moved \in Book /\ moved.entries = b.entries
  BY DEF Book
<1>3. SameTopUps(b, moved)
  BY <1>2 DEF SameTopUps, TopUp, Seen
<1>4. <<None, cutoff>> \in Refs /\ "calls" \in Kinds /\ -cost \in Int
  BY <1>1 DEF Refs, Kinds
<1>5. SameTopUps(moved, Post(moved, "calls", <<None, cutoff>>, -cost))
  BY <1>2, <1>4, SeenPosted DEF SameTopUps, TopUp
<1>6. CallsSettled(b, cutoff) \in {b, moved, Post(moved, "calls", <<None, cutoff>>, -cost)}
  BY DEF CallsSettled, cost
<1> QED
  BY <1>3, <1>5, <1>6 DEF SameTopUps

LEMMA LockKeepsTopUps ==
    ASSUME TypeOK, NEW q
    PROVE  SameTopUps(IF Mine(q) THEN work ELSE book, LockedBook(q))
<1> DEFINE b == IF Mine(q) THEN work ELSE book
<1>1. b \in Book
  BY DEF TypeOK
<1>2. [b EXCEPT !.exists = TRUE, !.since = now, !.through = now].entries = b.entries
  BY <1>1 DEF Book
<1> QED
  BY <1>2 DEF LockedBook, SameTopUps, TopUp, Seen

\* A settler credits what PayU captured and gives up what it did not, and holds the wallet
\* from its first credit on.
SettlerInv(q) ==
    /\ tx[q].credited \subseteq captured
    /\ tx[q].failed \intersect captured = {}
    /\ tx[q].at \in captured \union {None}
    /\ tx[q].credited # {} => holder = q

CreditedBy(q) == IF q \in Settlers THEN tx[q].credited ELSE {}

\* The inductive invariant: the committed wallet matches the committed payments, and the
\* working copy has in addition what its holder has credited.
TopUpInv ==
    /\ TopUpsMatchPayments
    /\ \A q \in Settlers : SettlerInv(q)
    /\ holder # None =>
        \A p \in Payments : TopUp(work, p) <=> payment[p] = "success" \/ p \in CreditedBy(holder)

LEMMA TopUpInit == Init => TopUpInv
BY WalletAssumption DEF Init, TopUpInv, TopUpsMatchPayments, SettlerInv, NoTx, NoBook, Seen

\* What a step that touches neither wallet nor payments, nor what settlers have done, keeps.
LEMMA TopUpSame ==
    ASSUME TopUpInv, UNCHANGED <<book, work, holder, payment, tx>>,
           captured \subseteq captured',
           \A q \in Settlers : tx[q].failed \intersect captured' = {}
    PROVE  TopUpInv'
<1>1. TopUpsMatchPayments'
  BY DEF TopUpInv, TopUpsMatchPayments, Seen
<1>2. ASSUME NEW q \in Settlers PROVE SettlerInv(q)'
  BY DEF TopUpInv, SettlerInv
<1> QED
  BY <1>1, <1>2 DEF TopUpInv, TopUp, Seen, CreditedBy

\* What the end of a transaction that credits nothing keeps, the wallet kept or dropped.
LEMMA TopUpEnd ==
    ASSUME WalletInv, TopUpInv, NEW q \in Processes, CreditedBy(q) = {},
           WalletKept(q) \/ WalletDropped(q), UNCHANGED <<payment, captured, tx>>
    PROVE  TopUpInv'
<1>1. q # None
  BY WalletAssumption
<1>2. ASSUME NEW p \in Payments PROVE TopUp(book', p) <=> TopUp(book, p)
  <2>1. CASE book' = book
    BY <2>1
  <2>2. CASE book' = work /\ holder = q
    BY <1>1, <2>2 DEF TopUpInv, TopUpsMatchPayments, TopUp
  <2> QED
    BY <2>1, <2>2 DEF WalletKept, WalletDropped, Mine
<1>3. TopUpsMatchPayments'
  BY <1>2 DEF TopUpInv, TopUpsMatchPayments, TopUp, Seen
<1>4. holder' \in {None, holder} /\ (holder' # None => holder # q /\ work' = work)
  BY DEF WalletKept, WalletDropped, Mine
<1>5. ASSUME NEW r \in Settlers PROVE SettlerInv(r)'
  <2>1. tx[r].credited # {} => r # q
    BY DEF CreditedBy
  <2> QED
    BY <2>1, <1>4 DEF TopUpInv, SettlerInv, WalletKept, WalletDropped, Mine
<1> QED
  BY <1>3, <1>4, <1>5 DEF TopUpInv, TopUp, Seen, CreditedBy

\* Every step keeps it: only a credit makes wallet and payments differ, in the working copy,
\* and the commit that settles the payments makes that copy the wallet.
LEMMA TopUpNext == WalletInv /\ TopUpInv /\ [Next]_vars => TopUpInv'
<1> SUFFICES ASSUME WalletInv, TopUpInv, [Next]_vars PROVE TopUpInv'
  OBVIOUS
<1> USE DEF world
<1>0. TypeOK /\ Sweep \in Processes /\ None \notin Processes /\ None \notin Payments
      /\ Sweep \notin Settlers /\ Buyer \notin Settlers /\ Buyer # None /\ Sweep # None
  BY WalletAssumption DEF WalletInv, Processes
<1>1. ASSUME UNCHANGED <<book, work, holder, payment, tx, captured>> PROVE TopUpInv'
  BY <1>1, TopUpSame DEF TopUpInv, SettlerInv
<1>2. CASE Tick
  BY <1>1, <1>2 DEF Tick
<1>3. ASSUME NEW c \in Calls, CallBegins(c) \/ CallSaved(c) PROVE TopUpInv'
  BY <1>1, <1>3 DEF CallBegins, CallSaved
<1>4. ASSUME NEW p \in Payments, CustomerPays(p) PROVE TopUpInv'
  <2>1. \A q \in Settlers : tx[q].failed \intersect captured' = {}
    BY <1>4 DEF CustomerPays, TopUpInv, SettlerInv
  <2> QED
    BY <1>4, <2>1, TopUpSame DEF CustomerPays
<1>5. ASSUME NEW q \in Settlers, NEW todo \in SUBSET Payments, Begin(q, todo) PROVE TopUpInv'
  <2>1. tx' = [tx EXCEPT ![q].todo = todo] /\ tx \in [Settlers -> Tx]
    BY <1>0, <1>5 DEF Begin, TypeOK
  <2>2. \A r \in Settlers : /\ tx'[r].credited = tx[r].credited /\ tx'[r].failed = tx[r].failed
                            /\ tx'[r].at = tx[r].at
    BY <2>1 DEF Tx
  <2>3. UNCHANGED <<book, work, holder, payment, captured>>
    BY <1>5 DEF Begin
  <2>4. ASSUME NEW r \in Settlers PROVE SettlerInv(r)'
    BY <2>2, <2>3 DEF TopUpInv, SettlerInv
  <2> QED
    BY <2>2, <2>3, <2>4 DEF TopUpInv, TopUpsMatchPayments, TopUp, Seen, CreditedBy
<1>6. ASSUME NEW q \in Settlers, NEW p \in Payments, LockPayment(q, p) PROVE TopUpInv'
  <2> DEFINE t == [tx[q] EXCEPT !.todo = @ \ {p}, !.held = @ \union {p}]
  <2>1. tx \in [Settlers -> Tx] /\ tx[q] \in Tx
    BY <1>0 DEF TypeOK
  <2>2. PICK giveUp \in BOOLEAN :
            tx' = [tx EXCEPT ![q] = IF payment[p] = "pending" /\ Captured(p)
                                    THEN [t EXCEPT !.at = p]
                                    ELSE IF payment[p] = "pending" /\ giveUp
                                    THEN [t EXCEPT !.failed = @ \union {p}]
                                    ELSE t]
    BY <1>6 DEF LockPayment
  <2>3. /\ tx'[q].credited = tx[q].credited
        /\ tx'[q].failed = tx[q].failed \/ (tx'[q].failed = tx[q].failed \union {p} /\ p \notin captured)
        /\ tx'[q].at = tx[q].at \/ (tx'[q].at = p /\ p \in captured)
    BY <2>1, <2>2 DEF Tx, Captured
  <2>4. \A r \in Settlers \ {q} : tx'[r] = tx[r]
    BY <2>1, <2>2
  <2>5. UNCHANGED <<book, work, holder, payment, captured>>
    BY <1>6 DEF LockPayment
  <2>6. ASSUME NEW r \in Settlers PROVE SettlerInv(r)' /\ tx'[r].credited = tx[r].credited
    BY <2>3, <2>4, <2>5 DEF TopUpInv, SettlerInv
  <2> QED
    BY <2>5, <2>6 DEF TopUpInv, TopUpsMatchPayments, TopUp, Seen, CreditedBy
<1>7. ASSUME NEW q \in Settlers, PostTopUp(q) PROVE TopUpInv'
  <2> DEFINE b == LockedBook(q)
             p == tx[q].at
             was == IF Mine(q) THEN work ELSE book
  <2>1. tx \in [Settlers -> Tx] /\ tx[q] \in Tx /\ p \in Payments /\ p \in captured
    <3>1. tx \in [Settlers -> Tx] /\ tx[q] \in Tx
      BY <1>0 DEF TypeOK
    <3> QED
      BY <3>1, <1>7 DEF PostTopUp, Tx, TopUpInv, SettlerInv
  <2>2. b \in Book /\ SameTopUps(was, b)
    BY <1>0, LockedSound, LockKeepsTopUps
  <2>3. <<p, 0>> \in Refs /\ "topup" \in Kinds /\ Credit \in Int
    BY <2>1, WalletAssumption DEF Refs, Kinds
  <2>4. work' = Post(b, "topup", <<p, 0>>, Credit) /\ holder' = q
        /\ holder \in {None, q} /\ UNCHANGED <<book, payment, captured>>
    BY <1>7 DEF PostTopUp, MayLock
  <2>5. /\ tx'[q].credited = tx[q].credited \union {p} /\ tx'[q].failed = tx[q].failed
        /\ tx'[q].at = None /\ \A r \in Settlers \ {q} : tx'[r] = tx[r]
    BY <1>7, <2>1 DEF PostTopUp, Tx
  <2>6. q # None
    BY <1>0 DEF Processes
  <2>7. ASSUME NEW r \in Payments
        PROVE  TopUp(was, r) <=> payment[r] = "success" \/ r \in tx[q].credited
    <3>1. CASE holder = q
      BY <2>6, <3>1 DEF Mine, TopUpInv, CreditedBy
    <3>2. CASE holder = None
      <4>1. tx[q].credited = {}
        BY <2>6, <3>2 DEF TopUpInv, SettlerInv
      <4> QED
        BY <2>6, <3>2, <4>1 DEF Mine, TopUpInv, TopUpsMatchPayments, TopUp
    <3> QED
      BY <2>4, <3>1, <3>2
  <2> HIDE DEF b, was
  <2>8. ASSUME NEW r \in Payments
        PROVE  TopUp(work', r) <=> payment[r] = "success" \/ r \in tx'[q].credited
    <3>1. TopUp(work', r) <=> TopUp(b, r) \/ r = p
      BY <2>2, <2>3, <2>4, SeenPosted DEF TopUp
    <3> QED
      BY <2>2, <2>5, <2>7, <3>1 DEF SameTopUps
  <2>9. ASSUME NEW r \in Settlers PROVE SettlerInv(r)'
    <3>1. CASE r = q
      <4>1. SettlerInv(q) /\ p \in captured
        BY <2>1 DEF TopUpInv
      <4> HIDE DEF p
      <4> QED
        BY <2>4, <2>5, <3>1, <4>1 DEF SettlerInv
    <3>2. CASE r # q
      BY <1>0, <2>4, <2>5, <3>2 DEF TopUpInv, SettlerInv, Processes
    <3> QED
      BY <3>1, <3>2
  <2>10. TopUpsMatchPayments'
    BY <2>4 DEF TopUpInv, TopUpsMatchPayments, Seen
  <2>11. \A r \in Payments : TopUp(work, r)' <=> payment'[r] = "success" \/ r \in CreditedBy(holder)'
    BY <2>4, <2>8 DEF CreditedBy, TopUp, Seen
  <2> QED
    BY <2>9, <2>10, <2>11 DEF TopUpInv
<1>8. ASSUME NEW q \in Settlers, CommitTx(q) PROVE TopUpInv'
  <2>1. tx \in [Settlers -> Tx] /\ q # None /\ q \in Processes
    BY <1>0 DEF TypeOK, Processes
  <2>2. /\ WalletKept(q) /\ UNCHANGED captured
        /\ tx'[q] = NoTx /\ \A r \in Settlers \ {q} : tx'[r] = tx[r]
    BY <1>8, <2>1 DEF CommitTx
  <2>3. ASSUME NEW p \in Payments
        PROVE  payment'[p] = "success" <=> payment[p] = "success" \/ p \in tx[q].credited
    <3>1. payment[p] = "success" \/ p \in tx[q].credited => p \in captured
      BY DEF TopUpInv, TopUpsMatchPayments, SettlerInv
    <3>2. p \in captured => p \notin tx[q].failed
      BY DEF TopUpInv, SettlerInv
    <3> QED
      BY <1>8, <3>1, <3>2 DEF CommitTx
  <2>4. ASSUME NEW p \in Payments
        PROVE  /\ TopUp(book', p) <=> payment'[p] = "success"
               /\ payment'[p] = "success" => p \in captured
    <3>1. CASE holder = q
      <4>1. book' = work
        BY <2>2, <3>1 DEF WalletKept, Mine
      <4>2. TopUp(work, p) <=> payment[p] = "success" \/ p \in tx[q].credited
        BY <2>1, <3>1 DEF TopUpInv, CreditedBy
      <4> QED
        BY <2>3, <4>1, <4>2 DEF TopUpInv, TopUpsMatchPayments, SettlerInv
    <3>2. CASE holder # q
      <4>1. book' = book /\ tx[q].credited = {}
        BY <2>2, <3>2 DEF WalletKept, Mine, TopUpInv, SettlerInv
      <4> QED
        BY <2>3, <4>1 DEF TopUpInv, TopUpsMatchPayments, TopUp
    <3> QED
      BY <3>1, <3>2
  <2>5. TopUpsMatchPayments'
    BY <2>2, <2>4 DEF TopUpsMatchPayments, TopUp, Seen
  <2>6. holder' \in {None, holder} /\ (holder' # None => holder # q /\ work' = work)
    BY <2>2 DEF WalletKept, Mine
  <2>7. ASSUME NEW r \in Settlers PROVE SettlerInv(r)'
    <3>1. CASE r = q
      BY <2>2, <3>1 DEF SettlerInv, NoTx
    <3>2. CASE r # q
      BY <2>2, <3>2 DEF TopUpInv, SettlerInv, WalletKept, Mine
    <3> QED
      BY <3>1, <3>2
  <2>8. ASSUME holder' # None, NEW p \in Payments
        PROVE  TopUp(work', p) <=> payment'[p] = "success" \/ p \in CreditedBy(holder)'
    <3>1. holder' = holder /\ holder # q /\ work' = work
      BY <2>6, <2>8
    <3>2. tx[q].credited = {}
      BY <3>1 DEF TopUpInv, SettlerInv
    <3>3. CreditedBy(holder)' = CreditedBy(holder)
      BY <2>2, <3>1 DEF CreditedBy
    <3> QED
      BY <2>3, <2>8, <3>1, <3>2, <3>3 DEF TopUpInv
  <2> QED
    BY <2>5, <2>7, <2>8 DEF TopUpInv, TopUp, Seen
<1>9. ASSUME NEW q \in Settlers, AbortTx(q) PROVE TopUpInv'
  <2>1. tx \in [Settlers -> Tx] /\ q # None
    BY <1>0 DEF TypeOK, Processes
  <2>2. /\ WalletDropped(q) /\ UNCHANGED <<captured, payment, book>>
        /\ tx'[q] = NoTx /\ \A r \in Settlers \ {q} : tx'[r] = tx[r]
    BY <1>9, <2>1 DEF AbortTx, WalletDropped
  <2>3. TopUpsMatchPayments'
    BY <2>2 DEF TopUpInv, TopUpsMatchPayments, Seen
  <2>4. holder' \in {None, holder} /\ (holder' # None => holder # q /\ work' = work)
    BY <2>2 DEF WalletDropped, Mine
  <2>5. ASSUME NEW r \in Settlers PROVE SettlerInv(r)'
    <3>1. CASE r = q
      BY <2>2, <3>1 DEF SettlerInv, NoTx
    <3>2. CASE r # q
      BY <2>2, <3>2 DEF TopUpInv, SettlerInv, WalletDropped, Mine
    <3> QED
      BY <3>1, <3>2
  <2>6. ASSUME holder' # None, NEW p \in Payments
        PROVE  TopUp(work', p) <=> payment'[p] = "success" \/ p \in CreditedBy(holder)'
    <3>1. holder' = holder /\ holder # q /\ work' = work
      BY <2>4, <2>6
    <3>2. CreditedBy(holder)' = CreditedBy(holder)
      BY <2>2, <3>1 DEF CreditedBy
    <3> QED
      BY <2>2, <2>6, <3>1, <3>2 DEF TopUpInv
  <2> QED
    BY <2>3, <2>5, <2>6 DEF TopUpInv, TopUp, Seen
\* The sweep works on a copy whose top-ups stay those of the payments.
<1>10. ASSUME NEW b, SameTopUps(LockedBook(Sweep), b), work' = b, holder' = Sweep,
              holder \in {None, Sweep}, UNCHANGED <<book, payment, captured, tx>>
       PROVE  TopUpInv'
  <2>1. SameTopUps(IF Mine(Sweep) THEN work ELSE book, LockedBook(Sweep))
    BY <1>0, LockKeepsTopUps
  <2>2. CreditedBy(Sweep) = {} /\ CreditedBy(Sweep)' = {}
    BY <1>0 DEF CreditedBy
  <2>3. ASSUME NEW p \in Payments
        PROVE  TopUp(IF Mine(Sweep) THEN work ELSE book, p) <=> payment[p] = "success"
    BY <1>0, <1>10, <2>2 DEF Mine, TopUpInv, TopUpsMatchPayments, TopUp
  <2>4. \A p \in Payments : TopUp(b, p) <=> payment[p] = "success"
    BY <1>10, <2>1, <2>3 DEF SameTopUps
  <2>5. TopUpsMatchPayments'
    BY <1>10 DEF TopUpInv, TopUpsMatchPayments, Seen
  <2>6. ASSUME NEW r \in Settlers PROVE SettlerInv(r)'
    BY <1>0, <1>10 DEF TopUpInv, SettlerInv, Processes
  <2>7. \A p \in Payments : TopUp(work', p) <=> payment'[p] = "success" \/ p \in CreditedBy(holder)'
    BY <1>10, <2>2, <2>4
  <2> QED
    BY <2>5, <2>6, <2>7 DEF TopUpInv, TopUp, Seen
<1>11. CASE SettleCalls
  <2>1. CASE book.exists
    <3>1. LockedBook(Sweep) \in Book /\ run.cutoff \in Nat
      BY <1>0, <1>11, LockedSound DEF TypeOK, Run
    <3>2. SameTopUps(LockedBook(Sweep), CallsSettled(LockedBook(Sweep), run.cutoff))
      BY <3>1, CallsKeepTopUps
    <3> QED
      BY <1>10, <1>11, <2>1, <3>2 DEF SettleCalls, MayLock
  <2>2. CASE ~book.exists
    BY <1>1, <1>11, <2>2 DEF SettleCalls
  <2> QED
    BY <2>1, <2>2
<1>12. ASSUME NEW n \in Numbers, CollectRent(n) PROVE TopUpInv'
  <2>1. CASE Mine(Sweep) \/ book.exists
    <3> DEFINE b == LockedBook(Sweep)
               r == RentTaken(b, n)
               c == [r EXCEPT !.short = ShortAfter(b, n)]
    <3>1. b \in Book /\ Sound(b) /\ now \in Nat
      BY <1>0, LockedSound DEF TypeOK
    <3> HIDE DEF b
    <3>2. SameTopUps(b, r) /\ r \in Book
      BY <3>1, RentKeepsTopUps, RentSound
    <3> HIDE DEF r
    <3>3. c.entries = r.entries
      BY <3>2 DEF Book
    <3>4. SameTopUps(b, c)
      BY <3>2, <3>3 DEF SameTopUps, TopUp, Seen
    <3>5. work' = c /\ holder' = Sweep /\ holder \in {None, Sweep}
          /\ UNCHANGED <<book, payment, captured, tx>>
      BY <1>12, <2>1 DEF CollectRent, MayLock, b, r
    <3> HIDE DEF c
    <3> QED
      BY <1>10, <3>4, <3>5 DEF b
  <2>2. CASE ~(Mine(Sweep) \/ book.exists)
    BY <1>1, <1>12, <2>2 DEF CollectRent
  <2> QED
    BY <2>1, <2>2
<1>13. CASE SweepBegins
  BY <1>1, <1>13 DEF SweepBegins
<1>14. CASE SweepCommits
  BY <1>0, <1>14, TopUpEnd DEF SweepCommits, CreditedBy
<1>15. CASE SweepFails
  BY <1>0, <1>15, TopUpEnd DEF SweepFails, CreditedBy
<1>16. ASSUME NEW n \in Numbers, BuyBegins(n) \/ Release(n) PROVE TopUpInv'
  BY <1>1, <1>16 DEF BuyBegins, Release
<1>17. CASE BuyEnds
  <2>1. buying \in Numbers /\ now \in Nat /\ holder = None
    BY <1>0, <1>17 DEF BuyEnds, TypeOK
  <2>2. LockedBook(Buyer) \in Book /\ SameTopUps(book, LockedBook(Buyer))
    BY <1>0, <2>1, LockedSound, LockKeepsTopUps DEF Mine
  <2>3. SameTopUps(LockedBook(Buyer), book')
    BY <1>17, <2>1, <2>2, RentKeepsTopUps DEF BuyEnds
  <2>4. \A p \in Payments : TopUp(book', p) <=> TopUp(book, p)
    BY <2>2, <2>3 DEF SameTopUps
  <2>5. UNCHANGED <<payment, captured, tx, holder, work>>
    BY <1>17 DEF BuyEnds
  <2>6. TopUpsMatchPayments'
    BY <2>4, <2>5 DEF TopUpInv, TopUpsMatchPayments, TopUp, Seen
  <2>7. \A r \in Settlers : SettlerInv(r)'
    BY <2>5 DEF TopUpInv, SettlerInv
  <2> QED
    BY <2>1, <2>5, <2>6, <2>7 DEF TopUpInv
<1>18. CASE BuyFails
  BY <1>1, <1>18 DEF BuyFails
<1>19. CASE UNCHANGED vars
  BY <1>1, <1>19 DEF vars
<1>20. ASSUME NEW q \in Requests, NEW p \in Payments, Request(q, p) PROVE TopUpInv'
  BY <1>5, <1>20 DEF Request, Settlers
<1>21. CASE RenewalSweep
  BY <1>5, <1>21 DEF RenewalSweep, Swept, Pending, Settlers
<1>22. ASSUME NEW q \in Settlers, Advance(q) \/ FailTx(q) \/ BreakDeadlock(q) PROVE TopUpInv'
  BY <1>6, <1>7, <1>8, <1>9, <1>22 DEF Advance, LockSome, FailTx, BreakDeadlock
<1>23. CASE SweepStep
  BY <1>11, <1>12, <1>13, <1>14, <1>23 DEF SweepStep
<1> QED
  BY <1>2, <1>3, <1>4, <1>15, <1>16, <1>17, <1>18, <1>19, <1>20, <1>21, <1>22, <1>23 DEF Next

-----------------------------------------------------------------------------
(***************************************************************************)
(* Usage.  The watermark stays SETTLE_LAG behind the clock, so a row that  *)
(* becomes visible is always past it; and what lies between two watermarks *)
(* is what the next charge counts.                                         *)
(***************************************************************************)

Settled(b) ==
    /\ b.exists \/ b.entries = <<>>
    /\ b.since <= b.through
    /\ b.through = b.since \/ b.through + Lag <= now
    /\ ChargedOnce(b)

\* The inductive invariant.
UsageInv ==
    /\ Settled(book) /\ Settled(work)
    /\ run.phase = "calls" => run.cutoff + Lag <= now

\* What the entries of a wallet are, as far as charges go.
LEMMA EntryTypes ==
    ASSUME NEW b \in Book
    PROVE  /\ b.since \in Nat /\ b.through \in Nat /\ b.exists \in BOOLEAN
           /\ Len(b.entries) \in Nat /\ DOMAIN b.entries = 1 .. Len(b.entries)
           /\ \A i \in DOMAIN b.entries : b.entries[i] \in Entry /\ b.entries[i].ref[2] \in Nat
<1>1. b.entries \in Seq(Entry) /\ b.since \in Nat /\ b.through \in Nat /\ b.exists \in BOOLEAN
  BY DEF Book
<1>2. \A i \in DOMAIN b.entries : b.entries[i] \in Entry
  BY <1>1
<1>3. \A e \in Entry : e.ref[2] \in Nat
  BY DEF Entry
<1> QED
  BY <1>1, <1>2, <1>3

\* The empty wallet is settled.
LEMMA NoBookSettled == ASSUME TypeOK PROVE Settled(NoBook)
<1>1. NoBook.exists = FALSE /\ NoBook.entries = <<>> /\ NoBook.since = 0 /\ NoBook.through = 0
  BY DEF NoBook
<1>2. \A c \in Calls : usage[c].stamp \in Nat
  BY DEF TypeOK
<1>3. ChargedOnce(NoBook)
  BY <1>1, <1>2 DEF ChargedOnce
<1> QED
  BY <1>1, <1>3 DEF Settled

\* The row as it is locked exists and is settled: a new one begins with nothing to charge.
LEMMA LockedSettled ==
    ASSUME TypeOK, UsageInv, NEW q
    PROVE  Settled(LockedBook(q)) /\ LockedBook(q).exists
<1> DEFINE b == IF Mine(q) THEN work ELSE book
           c == [b EXCEPT !.exists = TRUE, !.since = now, !.through = now]
<1>1. b \in Book /\ Settled(b) /\ now \in Nat
  BY DEF TypeOK, UsageInv
<1> HIDE DEF b
<1>2. CASE b.exists
  BY <1>1, <1>2 DEF LockedBook, b
<1>3. CASE ~b.exists
  <2>1. c.exists = TRUE /\ c.since = now /\ c.through = now /\ c.entries = <<>>
    BY <1>1, <1>3 DEF Book, Settled
  <2>2. LockedBook(q) = c
    BY <1>3 DEF LockedBook, b
  <2>3. \A d \in Calls : usage[d].stamp \in Nat
    BY DEF TypeOK
  <2> HIDE DEF c
  <2>4. ChargedOnce(c)
    BY <1>1, <2>1, <2>3 DEF ChargedOnce
  <2> QED
    BY <1>1, <2>1, <2>2, <2>4 DEF Settled
<1> QED
  BY <1>2, <1>3

\* A wallet with the same charges, charged up to the same time, is settled too.
LEMMA SameSettled ==
    ASSUME NEW b \in Book, Settled(b), NEW c \in Book, c.exists = b.exists,
           c.since = b.since, c.through = b.through, c.entries = b.entries
    PROVE  Settled(c)
<1>1. \A i : ChargedBy(c, i) = ChargedBy(b, i)
  BY DEF ChargedBy
<1> QED
  BY <1>1 DEF Settled, ChargedOnce

\* An entry that is no charge keeps it settled.
LEMMA OtherPostSettled ==
    ASSUME NEW b \in Book, Settled(b), b.exists, NEW kind \in Kinds, kind # "calls",
           NEW ref \in Refs, NEW amount \in Int
    PROVE  Settled(Post(b, kind, ref, amount))
<1> DEFINE e == [kind |-> kind, ref |-> ref, amount |-> amount, after |-> b.balance + amount]
           c == Posted(b, kind, ref, amount)
           n == Len(b.entries)
<1>1. /\ b.balance \in Int /\ b.entries \in Seq(Entry) /\ n \in Nat
      /\ DOMAIN b.entries = 1 .. n
  BY DEF Book
<1>2. e \in Entry /\ e.kind = kind
  BY <1>1 DEF Entry, Refs
<1>3. /\ c.entries = Append(b.entries, e) /\ c.exists = b.exists
      /\ c.since = b.since /\ c.through = b.through
  BY DEF Posted, Book
<1> HIDE DEF e, c
<1>4. /\ DOMAIN c.entries = 1 .. n + 1
      /\ c.entries[n + 1] = e
      /\ \A i \in 1 .. n : c.entries[i] = b.entries[i]
  BY <1>1, <1>2, <1>3
<1>5. ASSUME NEW i \in 1 .. n PROVE ChargedBy(c, i) = ChargedBy(b, i)
  <2>1. \A j \in 1 .. i - 1 : c.entries[j] = b.entries[j]
    BY <1>1, <1>4
  <2> QED
    BY <1>3, <1>4, <2>1 DEF ChargedBy
<1>6. ~IsCharge(c.entries[n + 1])
  BY <1>2, <1>4 DEF IsCharge
<1>7. \A i \in DOMAIN c.entries : IsCharge(c.entries[i]) => i \in 1 .. n
  BY <1>1, <1>4, <1>6
<1>8. 1 .. n \subseteq DOMAIN c.entries
  BY <1>1, <1>4
<1>9. ChargedOnce(b)
  BY DEF Settled
<1>10. ASSUME NEW i \in DOMAIN c.entries, IsCharge(c.entries[i])
       PROVE  /\ c.entries[i].amount = -(Cost * Cardinality(ChargedBy(c, i)))
              /\ c.entries[i].ref[2] <= c.through
  BY <1>1, <1>3, <1>4, <1>5, <1>7, <1>9, <1>10 DEF ChargedOnce
<1>11. ASSUME NEW d \in Calls, usage[d].state = "saved",
              c.since < usage[d].stamp, usage[d].stamp <= c.through
       PROVE  \E i \in DOMAIN c.entries : IsCharge(c.entries[i]) /\ d \in ChargedBy(c, i)
  <2>1. PICK i \in 1 .. n : IsCharge(b.entries[i]) /\ d \in ChargedBy(b, i)
    BY <1>1, <1>3, <1>9, <1>11 DEF ChargedOnce
  <2> QED
    BY <1>4, <1>5, <1>8, <2>1
<1>12. ChargedOnce(c)
  BY <1>10, <1>11 DEF ChargedOnce
<1>13. Settled(c)
  BY <1>3, <1>12 DEF Settled
<1> QED
  BY <1>13 DEF Post, c

\* A settlement charges all that lies between the old watermark and the new, and only that.
LEMMA CallsSettledSettled ==
    ASSUME TypeOK, NEW b \in Book, Settled(b), b.exists,
           NEW cutoff \in Nat, cutoff + Lag <= now
    PROVE  Settled(CallsSettled(b, cutoff))
<1> DEFINE from == b.through
           usages == Unsettled(from, cutoff)
           cost == Cost * Cardinality(usages)
           moved == [b EXCEPT !.through = cutoff]
           ref == <<None, cutoff>>
           e == [kind |-> "calls", ref |-> ref, amount |-> -cost, after |-> b.balance + (-cost)]
           c == Posted(moved, "calls", ref, -cost)
           n == Len(b.entries)
<1>1. CASE from >= cutoff
  BY <1>1 DEF CallsSettled
<1>2. CASE ~(from >= cutoff)
  <2>1. /\ b.balance \in Int /\ b.entries \in Seq(Entry) /\ n \in Nat
        /\ DOMAIN b.entries = 1 .. n
        /\ from \in Nat /\ b.since \in Nat /\ from < cutoff /\ b.since <= from
        /\ \A i \in 1 .. n : b.entries[i].ref[2] \in Nat
    BY <1>2, EntryTypes DEF Book, Settled
  <2>2. ChargedOnce(b) /\ Lag \in Nat /\ now \in Nat
    BY WalletAssumption DEF Settled, TypeOK
  <2>3. \A d \in Calls : usage[d].stamp \in Nat
    BY DEF TypeOK
  <2>4. /\ moved \in Book /\ moved.entries = b.entries /\ moved.exists = b.exists
        /\ moved.since = b.since /\ moved.through = cutoff /\ moved.balance = b.balance
    BY DEF Book
  <2>5. IsFiniteSet(usages) /\ Cardinality(usages) \in Nat /\ cost \in Nat
        /\ (cost = 0 => usages = {})
    <3>1. IsFiniteSet(usages)
      BY WalletAssumption, FS_Subset DEF Unsettled
    <3>2. Cardinality(usages) \in Nat
      BY <3>1, FS_CardinalityType
    <3>3. Cardinality(usages) = 0 => usages = {}
      BY <3>1, FS_EmptySet
    <3> HIDE DEF usages
    <3> QED
      BY <3>1, <3>2, <3>3, WalletAssumption
  <2>6. ASSUME NEW d \in Calls, usage[d].state = "saved",
               b.since < usage[d].stamp, usage[d].stamp <= cutoff
        PROVE  \/ d \in usages
               \/ \E i \in 1 .. n : IsCharge(b.entries[i]) /\ d \in ChargedBy(b, i)
    <3>1. CASE usage[d].stamp <= from
      BY <2>1, <2>2, <2>6, <3>1 DEF ChargedOnce
    <3>2. CASE ~(usage[d].stamp <= from)
      BY <2>1, <2>3, <2>6, <3>2 DEF Unsettled
    <3> QED
      BY <3>1, <3>2
  <2>7. CASE cost = 0
    <3>1. CallsSettled(b, cutoff) = moved
      BY <1>2, <2>7 DEF CallsSettled
    <3>2. usages = {}
      BY <2>5, <2>7
    <3>3. \A i : ChargedBy(moved, i) = ChargedBy(b, i)
      BY <2>4 DEF ChargedBy
    <3> HIDE DEF moved, usages, cost
    <3>4. ASSUME NEW i \in DOMAIN moved.entries, IsCharge(moved.entries[i])
          PROVE  /\ moved.entries[i].amount = -(Cost * Cardinality(ChargedBy(moved, i)))
                 /\ moved.entries[i].ref[2] <= moved.through
      <4>1. /\ b.entries[i].amount = -(Cost * Cardinality(ChargedBy(b, i)))
            /\ b.entries[i].ref[2] <= from /\ i \in 1 .. n
        BY <2>1, <2>2, <2>4, <3>4 DEF ChargedOnce
      <4>2. b.entries[i].ref[2] <= cutoff
        BY <2>1, <4>1
      <4> QED
        BY <2>4, <3>3, <4>1, <4>2
    <3>5. ASSUME NEW d \in Calls, usage[d].state = "saved",
                 moved.since < usage[d].stamp, usage[d].stamp <= moved.through
          PROVE  \E i \in DOMAIN moved.entries : IsCharge(moved.entries[i]) /\ d \in ChargedBy(moved, i)
      BY <2>1, <2>4, <2>6, <3>2, <3>3, <3>5
    <3>6. ChargedOnce(moved)
      BY <3>4, <3>5 DEF ChargedOnce
    <3>7. moved.since <= moved.through /\ moved.through + Lag <= now
      BY <2>1, <2>2, <2>4
    <3>8. moved.exists
      BY <2>4
    <3> QED
      BY <3>1, <3>6, <3>7, <3>8 DEF Settled
  <2>8. CASE cost > 0
    <3>1. CallsSettled(b, cutoff) = Post(moved, "calls", ref, -cost)
      BY <1>2, <2>8 DEF CallsSettled
    <3>2. ~Seen(moved, "calls", ref)
      <4>1. SUFFICES ASSUME NEW i \in 1 .. n, b.entries[i].kind = "calls", b.entries[i].ref = ref
                     PROVE  FALSE
        BY <2>1, <2>4 DEF Seen
      <4>2. b.entries[i].ref[2] <= from
        BY <2>1, <2>2, <4>1 DEF ChargedOnce, IsCharge
      <4> QED
        BY <2>1, <4>1, <4>2
    <3>3. CallsSettled(b, cutoff) = c
      BY <3>1, <3>2 DEF Post
    <3>4. e \in Entry /\ e.kind = "calls" /\ e.ref[2] = cutoff /\ e.amount = -cost
      <4>1. ref \in (Payments \union Numbers \union {None}) \X Nat
        OBVIOUS
      <4>2. -cost \in Int /\ b.balance + (-cost) \in Int
        BY <2>1, <2>5
      <4> HIDE DEF cost
      <4> QED
        BY <4>1, <4>2 DEF Entry, Kinds
    <3>5. /\ c.entries = Append(b.entries, e) /\ c.exists = b.exists
          /\ c.since = b.since /\ c.through = cutoff
      <4> HIDE DEF cost
      <4> QED
        BY <2>4 DEF Posted, Book
    <3> HIDE DEF moved, cost, usages, ref, e, c
    <3>6. /\ DOMAIN c.entries = 1 .. n + 1
          /\ c.entries[n + 1] = e
          /\ \A i \in 1 .. n : c.entries[i] = b.entries[i]
      BY <2>1, <3>4, <3>5
    <3>7. ASSUME NEW i \in 1 .. n PROVE ChargedBy(c, i) = ChargedBy(b, i)
      <4>1. \A j \in 1 .. i - 1 : c.entries[j] = b.entries[j]
        BY <2>1, <3>6
      <4> QED
        BY <3>5, <3>6, <4>1 DEF ChargedBy
    <3>8. ChargedBy(c, n + 1) = usages
      <4>1. ASSUME NEW d \in usages PROVE d \in ChargedBy(c, n + 1)
        <5>1. /\ d \in Calls /\ usage[d].state = "saved"
              /\ from < usage[d].stamp /\ usage[d].stamp <= cutoff
          BY <2>1, <2>3 DEF usages, Unsettled
        <5>2. ASSUME NEW j \in 1 .. n, IsCharge(c.entries[j])
              PROVE  c.entries[j].ref[2] < usage[d].stamp
          <6>1. b.entries[j].ref[2] <= from
            BY <2>1, <2>2, <3>6, <5>2 DEF ChargedOnce
          <6> QED
            <7>1. c.entries[j] = b.entries[j] /\ b.entries[j].ref[2] \in Nat
              BY <2>1, <3>6, <5>2
            <7>2. usage[d].stamp \in Nat
              BY <2>3, <5>1
            <7> QED
              BY <2>1, <5>1, <6>1, <7>1, <7>2
        <5>3. b.since < usage[d].stamp
          BY <2>1, <2>3, <5>1
        <5>4. 1 .. n + 1 - 1 = 1 .. n
          BY <2>1
        <5> QED
          BY <3>4, <3>5, <3>6, <5>1, <5>2, <5>3, <5>4 DEF ChargedBy
      <4>2. ASSUME NEW d \in ChargedBy(c, n + 1) PROVE d \in usages
        <5>1. /\ d \in Calls /\ usage[d].state = "saved"
              /\ b.since < usage[d].stamp /\ usage[d].stamp <= cutoff
              /\ \A j \in 1 .. n + 1 - 1 : IsCharge(c.entries[j]) => c.entries[j].ref[2] < usage[d].stamp
          BY <3>4, <3>5, <3>6 DEF ChargedBy
        <5>2. ASSUME NEW i \in 1 .. n, IsCharge(b.entries[i]), d \in ChargedBy(b, i) PROVE FALSE
          <6>1. usage[d].stamp <= b.entries[i].ref[2]
            BY <5>2 DEF ChargedBy
          <6>2. i \in 1 .. n + 1 - 1
            BY <2>1
          <6>3. b.entries[i].ref[2] < usage[d].stamp
            BY <3>6, <5>1, <5>2, <6>2
          <6> QED
            BY <2>1, <2>3, <5>1, <6>1, <6>3
        <5> QED
          BY <2>6, <5>1, <5>2
      <4> QED
        BY <4>1, <4>2
    <3>9. ASSUME NEW i \in DOMAIN c.entries, IsCharge(c.entries[i])
          PROVE  /\ c.entries[i].amount = -(Cost * Cardinality(ChargedBy(c, i)))
                 /\ c.entries[i].ref[2] <= c.through
      <4>1. CASE i = n + 1
        BY <2>1, <3>4, <3>5, <3>6, <3>8, <4>1 DEF cost
      <4>2. CASE i \in 1 .. n
        <5>1. /\ b.entries[i].amount = -(Cost * Cardinality(ChargedBy(b, i)))
              /\ b.entries[i].ref[2] <= from
          BY <2>1, <2>2, <3>6, <3>9, <4>2 DEF ChargedOnce
        <5>2. b.entries[i].ref[2] <= cutoff
          BY <2>1, <4>2, <5>1
        <5> QED
          BY <3>5, <3>6, <3>7, <4>2, <5>1, <5>2
      <4> QED
        BY <2>1, <3>6, <4>1, <4>2
    <3>10. ASSUME NEW d \in Calls, usage[d].state = "saved",
                  c.since < usage[d].stamp, usage[d].stamp <= c.through
           PROVE  \E i \in DOMAIN c.entries : IsCharge(c.entries[i]) /\ d \in ChargedBy(c, i)
      <4>1. CASE d \in usages
        <5>1. n + 1 \in DOMAIN c.entries /\ IsCharge(c.entries[n + 1])
          BY <2>1, <3>4, <3>6 DEF IsCharge
        <5> QED
          BY <3>8, <4>1, <5>1
      <4>2. CASE d \notin usages
        <5>1. PICK i \in 1 .. n : IsCharge(b.entries[i]) /\ d \in ChargedBy(b, i)
          BY <2>6, <3>5, <3>10, <4>2
        <5>2. i \in DOMAIN c.entries
          BY <2>1, <3>6
        <5> QED
          BY <3>6, <3>7, <5>1, <5>2
      <4> QED
        BY <4>1, <4>2
    <3>11. ChargedOnce(c)
      BY <3>9, <3>10 DEF ChargedOnce
    <3> QED
      BY <2>1, <3>3, <3>5, <3>11 DEF Settled
  <2> QED
    BY <2>5, <2>7, <2>8
<1> QED
  BY <1>1, <1>2

\* Time that passes and usage that becomes visible past the watermark leave it settled.
LEMMA WorldSettled ==
    ASSUME NEW b \in Book, Settled(b), TypeOK, TypeOK', now <= now',
           \A c \in Calls : \/ usage'[c] = usage[c]
                            \/ /\ usage[c].state # "saved"
                               /\ usage'[c].state = "saved" => now < usage'[c].stamp + Lag
    PROVE  Settled(b)'
<1>1. /\ b.since \in Nat /\ b.through \in Nat /\ DOMAIN b.entries = 1 .. Len(b.entries)
      /\ \A i \in DOMAIN b.entries : b.entries[i].ref[2] \in Nat
  BY EntryTypes
<1>2. now \in Nat /\ now' \in Nat /\ Lag \in Nat
      /\ \A c \in Calls : usage[c].stamp \in Nat /\ usage'[c].stamp \in Nat
  BY WalletAssumption DEF TypeOK
<1>3. ChargedOnce(b) /\ (b.through = b.since \/ b.through + Lag <= now)
      /\ b.since <= b.through /\ (b.exists \/ b.entries = <<>>)
  BY DEF Settled
<1>4. ASSUME NEW c \in Calls, b.since < usage'[c].stamp, usage'[c].stamp <= b.through,
             usage'[c].state = "saved"
      PROVE  usage'[c] = usage[c]
  BY <1>1, <1>2, <1>3, <1>4
<1>5. ASSUME NEW c \in Calls, usage[c].state = "saved" PROVE usage'[c] = usage[c]
  BY <1>5
<1>6. ASSUME NEW i \in DOMAIN b.entries, IsCharge(b.entries[i])
      PROVE  ChargedBy(b, i)' = ChargedBy(b, i)
  <2>1. b.entries[i].ref[2] <= b.through
    BY <1>3, <1>6 DEF ChargedOnce
  <2>2. ASSUME NEW c \in Calls, usage'[c].state = "saved",
               b.since < usage'[c].stamp, usage'[c].stamp <= b.entries[i].ref[2]
        PROVE  usage'[c] = usage[c]
    <3>1. usage'[c].stamp <= b.through
      BY <1>1, <1>2, <2>1, <2>2
    <3> QED
      BY <1>4, <2>2, <3>1
  <2> QED
    BY <1>5, <2>2 DEF ChargedBy, IsCharge
<1>7. ChargedOnce(b)'
  <2>1. \A i \in DOMAIN b.entries : IsCharge(b.entries[i]) =>
           /\ b.entries[i].amount = -(Cost * Cardinality(ChargedBy(b, i)'))
           /\ b.entries[i].ref[2] <= b.through
    BY <1>3, <1>6 DEF ChargedOnce
  <2>2. ASSUME NEW c \in Calls, usage'[c].state = "saved",
               b.since < usage'[c].stamp, usage'[c].stamp <= b.through
        PROVE  \E i \in DOMAIN b.entries : IsCharge(b.entries[i]) /\ c \in ChargedBy(b, i)'
    <3>1. usage'[c] = usage[c]
      BY <1>4, <2>2
    <3> QED
      BY <1>3, <1>6, <2>2, <3>1 DEF ChargedOnce
  <2> QED
    BY <2>1, <2>2 DEF ChargedOnce, IsCharge
<1>8. b.through + Lag <= now => b.through + Lag <= now'
  BY <1>1, <1>2
<1> QED
  BY <1>3, <1>7, <1>8 DEF Settled

\* While usage and the clock stand still, a copy that is settled stays so wherever it is put.
LEMMA PutSettled ==
    ASSUME Settled(book'), Settled(work'), UNCHANGED <<usage, now>>
    PROVE  Settled(book)' /\ Settled(work)'
<1>1. Settled(book)'
  BY DEF Settled, ChargedOnce, ChargedBy, IsCharge
<1>2. Settled(work)'
  BY DEF Settled, ChargedOnce, ChargedBy, IsCharge
<1> QED
  BY <1>1, <1>2

\* The end of a transaction leaves both copies settled.
LEMMA EndSettled ==
    ASSUME TypeOK, UsageInv, NEW q, WalletKept(q) \/ WalletDropped(q)
    PROVE  Settled(book') /\ Settled(work')
BY NoBookSettled DEF UsageInv, WalletKept, WalletDropped

LEMMA UsageInit == Init => UsageInv
<1> SUFFICES ASSUME Init PROVE UsageInv
  OBVIOUS
<1>1. TypeOK
  BY InitInv DEF WalletInv
<1> QED
  BY <1>1, NoBookSettled DEF Init, UsageInv, NoRun

\* Every step keeps it: the watermark moves only as far as a settlement charges.
LEMMA UsageNext == WalletInv /\ UsageInv /\ [Next]_vars => UsageInv'
<1> SUFFICES ASSUME WalletInv, UsageInv, [Next]_vars PROVE UsageInv'
  OBVIOUS
<1> USE DEF world
<1>0. TypeOK /\ TypeOK' /\ now \in Nat /\ now' \in Nat /\ Lag \in Nat /\ run.cutoff \in Nat
  <2>1. WalletInv'
    BY NextInv
  <2> QED
    BY <2>1, WalletAssumption DEF WalletInv, TypeOK, Run
<1>1. ASSUME Settled(book'), Settled(work'), UNCHANGED <<usage, now>>,
             run' = run \/ run'.phase # "calls"
      PROVE  UsageInv'
  BY <1>1, PutSettled DEF UsageInv
<1>2. ASSUME UNCHANGED <<book, work, usage, now>>, run' = run \/ run'.phase # "calls"
      PROVE  UsageInv'
  BY <1>1, <1>2 DEF UsageInv
<1>3. ASSUME UNCHANGED <<book, work, run>>, now <= now',
             \A c \in Calls : \/ usage'[c] = usage[c]
                              \/ /\ usage[c].state # "saved"
                                 /\ usage'[c].state = "saved" => now < usage'[c].stamp + Lag
      PROVE  UsageInv'
  <2>1. book \in Book /\ work \in Book
    BY <1>0 DEF TypeOK
  <2>2. Settled(book)' /\ Settled(work)'
    BY <1>0, <1>3, <2>1, WorldSettled DEF UsageInv
  <2>3. run.cutoff + Lag <= now => run'.cutoff + Lag <= now'
    BY <1>0, <1>3
  <2> QED
    BY <1>3, <2>2, <2>3 DEF UsageInv
<1>4. CASE Tick
  BY <1>0, <1>3, <1>4 DEF Tick
<1>5. ASSUME NEW c \in Calls, CallBegins(c) PROVE UsageInv'
  <2>1. usage' = [usage EXCEPT ![c] = [state |-> "open", stamp |-> now]] /\ usage[c].state = "none"
    BY <1>5 DEF CallBegins
  <2>2. \A d \in Calls : usage'[d] = usage[d] \/ (usage[d].state # "saved" /\ usage'[d].state # "saved")
    BY <1>0, <2>1 DEF TypeOK
  <2> QED
    BY <1>0, <1>3, <1>5, <2>2 DEF CallBegins
<1>6. ASSUME NEW c \in Calls, CallSaved(c) PROVE UsageInv'
  <2>1. usage' = [usage EXCEPT ![c].state = "saved"] /\ usage[c].state = "open"
        /\ now < usage[c].stamp + Lag
    BY <1>6 DEF CallSaved
  <2>2. \A d \in Calls : usage'[d] = usage[d]
                         \/ (usage[d].state # "saved" /\ now < usage'[d].stamp + Lag)
    BY <1>0, <2>1 DEF TypeOK
  <2> QED
    BY <1>0, <1>3, <1>6, <2>2 DEF CallSaved
<1>7. ASSUME NEW p \in Payments, CustomerPays(p) PROVE UsageInv'
  BY <1>2, <1>7 DEF CustomerPays
<1>8. ASSUME NEW q \in Settlers, NEW todo \in SUBSET Payments, Begin(q, todo) PROVE UsageInv'
  BY <1>2, <1>8 DEF Begin
<1>9. ASSUME NEW q \in Settlers, NEW p \in Payments, LockPayment(q, p) PROVE UsageInv'
  BY <1>2, <1>9 DEF LockPayment
<1>10. ASSUME NEW q \in Settlers, PostTopUp(q) PROVE UsageInv'
  <2>1. tx[q].at \in Payments
    BY <1>0, <1>10 DEF PostTopUp, TypeOK, Tx
  <2>2. <<tx[q].at, 0>> \in Refs /\ "topup" \in Kinds /\ Credit \in Int
    BY <2>1, WalletAssumption DEF Refs, Kinds
  <2>3. LockedBook(q) \in Book /\ Settled(LockedBook(q)) /\ LockedBook(q).exists
    BY <1>0, LockedSound, LockedSettled
  <2>4. Settled(work')
    BY <1>10, <2>2, <2>3, OtherPostSettled DEF PostTopUp
  <2> QED
    BY <1>1, <1>10, <2>4 DEF PostTopUp, UsageInv
<1>11. ASSUME NEW q \in Settlers, CommitTx(q) \/ AbortTx(q) PROVE UsageInv'
  <2>1. WalletKept(q) \/ WalletDropped(q)
    BY <1>11 DEF CommitTx, AbortTx
  <2>2. Settled(book') /\ Settled(work')
    BY <1>0, <2>1, EndSettled
  <2> QED
    BY <1>1, <1>11, <2>2 DEF CommitTx, AbortTx
<1>12. CASE SweepBegins
  <2>1. run'.cutoff + Lag <= now' /\ UNCHANGED <<book, work, usage, now>>
    BY <1>0, <1>12 DEF SweepBegins, NoRun
  <2>2. Settled(book)' /\ Settled(work)'
    BY <2>1, PutSettled DEF UsageInv
  <2> QED
    BY <2>1, <2>2 DEF UsageInv
<1>13. CASE SettleCalls
  <2>1. run'.phase # "calls"
    BY <1>13 DEF SettleCalls, NoRun
  <2>2. CASE book.exists
    <3>1. LockedBook(Sweep) \in Book /\ Settled(LockedBook(Sweep)) /\ LockedBook(Sweep).exists
      BY <1>0, LockedSound, LockedSettled
    <3>2. run.cutoff + Lag <= now
      BY <1>13 DEF SettleCalls, UsageInv
    <3>3. Settled(work')
      BY <1>0, <1>13, <2>2, <3>1, <3>2, CallsSettledSettled DEF SettleCalls
    <3> QED
      BY <1>1, <1>13, <2>1, <3>3 DEF SettleCalls, UsageInv
  <2>3. CASE ~book.exists
    BY <1>2, <1>13, <2>1, <2>3 DEF SettleCalls
  <2> QED
    BY <2>2, <2>3
<1>14. ASSUME NEW b \in Book, Settled(b), b.exists, NEW n \in Numbers PROVE Settled(RentTaken(b, n))
  <2>1. <<n, month>> \in Refs /\ -Rent \in Int /\ "number_rent" \in Kinds
    BY <1>0, WalletAssumption DEF month, Refs, Kinds
  <2>2. Settled(Post(b, "number_rent", <<n, month>>, -Rent))
    BY <1>14, <2>1, OtherPostSettled
  <2> QED
    BY <1>14, <2>2 DEF RentTaken
<1>15. ASSUME NEW n \in Numbers, CollectRent(n) PROVE UsageInv'
  <2>0. run'.phase # "calls"
    BY <1>0, <1>15 DEF CollectRent, TypeOK, Run
  <2>1. CASE Mine(Sweep) \/ book.exists
    <3> DEFINE b == LockedBook(Sweep)
               r == RentTaken(b, n)
               c == [r EXCEPT !.short = ShortAfter(b, n)]
    <3>1. b \in Book /\ Sound(b) /\ Settled(b) /\ b.exists
      BY <1>0, LockedSound, LockedSettled
    <3>2. ShortAfter(b, n) \in BOOLEAN
      BY DEF ShortAfter, Affordable, Seen
    <3> HIDE DEF b
    <3>3. Settled(r) /\ r \in Book
      BY <1>14, <3>1, RentSound
    <3> HIDE DEF r
    <3>4. c \in Book /\ c.entries = r.entries /\ c.exists = r.exists
          /\ c.since = r.since /\ c.through = r.through
      BY <3>2, <3>3 DEF Book
    <3>5. Settled(c)
      BY <3>3, <3>4, SameSettled
    <3>6. work' = c /\ UNCHANGED <<book, usage, now>>
      BY <1>15, <2>1 DEF CollectRent, b, r
    <3> QED
      BY <1>1, <2>0, <3>5, <3>6 DEF UsageInv
  <2>2. CASE ~(Mine(Sweep) \/ book.exists)
    BY <1>2, <1>15, <2>0, <2>2 DEF CollectRent
  <2> QED
    BY <2>1, <2>2
<1>16. CASE SweepCommits \/ SweepFails
  <2>1. WalletKept(Sweep) \/ WalletDropped(Sweep)
    BY <1>16 DEF SweepCommits, SweepFails
  <2>2. Settled(book') /\ Settled(work')
    BY <1>0, <2>1, EndSettled
  <2>3. run'.phase # "calls" /\ UNCHANGED <<usage, now>>
    BY <1>16 DEF SweepCommits, SweepFails, NoRun
  <2> QED
    BY <1>1, <2>2, <2>3
<1>17. ASSUME NEW n \in Numbers, BuyBegins(n) \/ Release(n) PROVE UsageInv'
  BY <1>2, <1>17 DEF BuyBegins, Release
<1>18. CASE BuyEnds
  <2>1. LockedBook(Buyer) \in Book /\ Settled(LockedBook(Buyer)) /\ LockedBook(Buyer).exists
        /\ buying \in Numbers
    BY <1>0, <1>18, LockedSound, LockedSettled DEF BuyEnds, TypeOK
  <2>2. Settled(book')
    BY <1>14, <1>18, <2>1 DEF BuyEnds
  <2> QED
    BY <1>1, <1>18, <2>2 DEF BuyEnds, UsageInv
<1>19. CASE BuyFails
  BY <1>2, <1>19 DEF BuyFails
<1>20. CASE UNCHANGED vars
  BY <1>2, <1>20 DEF vars
<1>21. ASSUME NEW q \in Requests, NEW p \in Payments, Request(q, p) PROVE UsageInv'
  BY <1>8, <1>21 DEF Request, Settlers
<1>22. CASE RenewalSweep
  BY <1>8, <1>22 DEF RenewalSweep, Swept, Pending, Settlers
<1>23. ASSUME NEW q \in Settlers, Advance(q) \/ FailTx(q) \/ BreakDeadlock(q) PROVE UsageInv'
  BY <1>9, <1>10, <1>11, <1>23 DEF Advance, LockSome, FailTx, BreakDeadlock
<1>24. CASE SweepStep
  BY <1>12, <1>13, <1>15, <1>16, <1>24 DEF SweepStep
<1> QED
  BY <1>4, <1>5, <1>6, <1>7, <1>16, <1>17, <1>18, <1>19, <1>20, <1>21, <1>22, <1>23, <1>24
  DEF Next

-----------------------------------------------------------------------------
(***************************************************************************)
(* The ledger.  Every copy that is worked on continues the committed one,  *)
(* because it was made from it under the row lock and post() only adds at  *)
(* the end; so what is committed continues what was there, and as both are *)
(* sound, what was added stands where it is.                               *)
(***************************************************************************)

\* c is b, or b with more entries, each of the sign of its kind.
Grown(b, c) ==
    /\ Ledger!Continues(b.entries, c.entries)
    /\ \A i \in DOMAIN c.entries : i > Len(b.entries) => Ledger!Signed(c.entries[i])

\* The inductive invariant: the holder's copy continues the committed wallet.
GrownInv == holder # None => Grown(book, work)

LEMMA BookEntries ==
    ASSUME NEW b \in Book
    PROVE  b.entries \in Seq(Entry) /\ Len(b.entries) \in Nat /\ DOMAIN b.entries = 1 .. Len(b.entries)
BY DEF Book

\* Wallets with the same entries.
LEMMA SameGrown ==
    ASSUME NEW b \in Book, NEW c, c.entries = b.entries
    PROVE  Grown(b, c)
BY BookEntries DEF Grown, Ledger!Continues

LEMMA GrownOnward ==
    ASSUME NEW b \in Book, NEW c \in Book, NEW d \in Book, Grown(b, c), Grown(c, d)
    PROVE  Grown(b, d)
<1>1. /\ Len(b.entries) \in Nat /\ Len(c.entries) \in Nat /\ Len(d.entries) \in Nat
      /\ DOMAIN b.entries = 1 .. Len(b.entries) /\ DOMAIN c.entries = 1 .. Len(c.entries)
      /\ DOMAIN d.entries = 1 .. Len(d.entries)
  BY BookEntries
<1>2. Len(b.entries) <= Len(c.entries) /\ Len(c.entries) <= Len(d.entries)
  BY DEF Grown, Ledger!Continues
<1>3. \A i \in DOMAIN b.entries : d.entries[i] = b.entries[i]
  BY <1>1, <1>2 DEF Grown, Ledger!Continues
<1>4. ASSUME NEW i \in DOMAIN d.entries, i > Len(b.entries)
      PROVE  Ledger!Signed(d.entries[i])
  <2>1. CASE i \in DOMAIN c.entries
    BY <1>4, <2>1 DEF Grown, Ledger!Continues
  <2>2. CASE i \notin DOMAIN c.entries
    <3>1. i > Len(c.entries)
      BY <1>1, <2>2
    <3> QED
      BY <3>1 DEF Grown
  <2> QED
    BY <2>1, <2>2
<1>5. Len(b.entries) <= Len(d.entries)
  BY <1>1, <1>2
<1> QED
  BY <1>3, <1>4, <1>5 DEF Grown, Ledger!Continues

\* post() adds an entry at the end, or nothing.
LEMMA PostGrown ==
    ASSUME NEW b \in Book, NEW kind \in Kinds, NEW ref \in Refs, NEW amount \in Int,
           IF kind = "topup" THEN amount > 0 ELSE amount < 0
    PROVE  Grown(b, Post(b, kind, ref, amount))
<1> DEFINE e == [kind |-> kind, ref |-> ref, amount |-> amount, after |-> b.balance + amount]
           c == Posted(b, kind, ref, amount)
           n == Len(b.entries)
<1>1. b.balance \in Int /\ b.entries \in Seq(Entry) /\ n \in Nat /\ DOMAIN b.entries = 1 .. n
  BY BookEntries DEF Book
<1>2. e \in Entry /\ Ledger!Signed(e)
  BY <1>1 DEF Entry, Refs, Ledger!Signed
<1>3. c.entries = Append(b.entries, e)
  BY DEF Posted, Book
<1> HIDE DEF e, c
<1>4. /\ Len(c.entries) = n + 1 /\ DOMAIN c.entries = 1 .. n + 1 /\ c.entries[n + 1] = e
      /\ \A i \in 1 .. n : c.entries[i] = b.entries[i]
  BY <1>1, <1>2, <1>3, OneMore
<1>5. Ledger!Continues(b.entries, c.entries)
  BY <1>1, <1>4 DEF Ledger!Continues
<1>6. \A i \in DOMAIN c.entries : i > n => Ledger!Signed(c.entries[i])
  <2>1. \A i \in 1 .. n + 1 : i > n => i = n + 1
    BY <1>1
  <2> QED
    BY <1>2, <1>4, <2>1
<1>7. Grown(b, c)
  BY <1>5, <1>6 DEF Grown
<1>8. CASE Seen(b, kind, ref)
  <2>1. Post(b, kind, ref, amount) = b
    BY <1>8 DEF Post
  <2> QED
    BY <2>1, SameGrown
<1>9. CASE ~Seen(b, kind, ref)
  BY <1>7, <1>9 DEF Post, c
<1> QED
  BY <1>8, <1>9

\* The row as a transaction that may lock it sees it continues the committed wallet.
LEMMA LockedGrown ==
    ASSUME WalletInv, GrownInv, NEW q \in Processes, MayLock(q)
    PROVE  Grown(book, LockedBook(q))
<1> DEFINE b == IF Mine(q) THEN work ELSE book
<1>1. b \in Book /\ book \in Book /\ now \in Nat
  BY DEF WalletInv, TypeOK
<1>2. Grown(book, b)
  <2>1. q # None
    BY WalletAssumption
  <2> QED
    BY <1>1, <2>1, SameGrown DEF Mine, GrownInv
<1>3. LockedBook(q).entries = b.entries
  BY <1>1 DEF LockedBook, Book
<1>4. LockedBook(q) \in Book
  BY LockedSound
<1> HIDE DEF b
<1>5. Grown(b, LockedBook(q))
  BY <1>1, <1>3, SameGrown
<1> QED
  BY <1>1, <1>2, <1>4, <1>5, GrownOnward

LEMMA RentGrown ==
    ASSUME WalletInv, NEW b \in Book, NEW n \in Numbers
    PROVE  Grown(b, RentTaken(b, n))
<1>1. -Rent \in Int /\ "number_rent" \in Kinds /\ -Rent < 0
  BY WalletAssumption DEF Kinds
<1>2. <<n, month>> \in Refs
  <2>1. now \in Nat
    BY DEF WalletInv, TypeOK
  <2>2. month \in Nat
    BY <2>1, WalletAssumption DEF month
  <2> QED
    BY <2>2 DEF Refs
<1>3. Grown(b, Post(b, "number_rent", <<n, month>>, -Rent))
  BY <1>1, <1>2, PostGrown
<1> QED
  BY <1>3, SameGrown DEF RentTaken

LEMMA CallsGrown ==
    ASSUME NEW b \in Book, NEW cutoff \in Nat
    PROVE  Grown(b, CallsSettled(b, cutoff))
<1> DEFINE cost == Cost * Cardinality(Unsettled(b.through, cutoff))
           moved == [b EXCEPT !.through = cutoff]
<1>1. cost \in Nat
  <2>1. Unsettled(b.through, cutoff) \subseteq Calls
    BY DEF Unsettled
  <2>2. IsFiniteSet(Unsettled(b.through, cutoff))
    BY <2>1, WalletAssumption, FS_Subset
  <2>3. Cardinality(Unsettled(b.through, cutoff)) \in Nat
    BY <2>2, FS_CardinalityType
  <2> QED
    BY <2>3, WalletAssumption
<1>2. CallsSettled(b, cutoff) = IF b.through >= cutoff THEN b
                                ELSE IF cost > 0 THEN Post(moved, "calls", <<None, cutoff>>, -cost) ELSE moved
  BY DEF CallsSettled
<1> HIDE DEF cost
<1>3. moved \in Book /\ moved.entries = b.entries
  BY DEF Book
<1> HIDE DEF moved
<1>4. <<None, cutoff>> \in Refs /\ "calls" \in Kinds
  BY DEF Refs, Kinds
<1>5. ASSUME cost > 0
      PROVE  Grown(moved, Post(moved, "calls", <<None, cutoff>>, -cost))
  <2>1. -cost \in Int /\ -cost < 0
    BY <1>1, <1>5
  <2> QED
    BY <1>3, <1>4, <2>1, PostGrown
<1>6. ASSUME cost > 0
      PROVE  Grown(b, Post(moved, "calls", <<None, cutoff>>, -cost))
  BY <1>3, <1>5, <1>6 DEF Grown
<1> QED
  BY <1>2, <1>3, <1>6, SameGrown

LEMMA TopUpGrown ==
    ASSUME NEW b \in Book, NEW p \in Payments
    PROVE  Grown(b, Post(b, "topup", <<p, 0>>, Credit))
<1>1. <<p, 0>> \in Refs /\ "topup" \in Kinds /\ Credit \in Int /\ Credit > 0
  BY WalletAssumption DEF Refs, Kinds
<1> QED
  BY <1>1, PostGrown

\* What a step does to the two copies: work continues book while somebody holds it, and book
\* is continued.
Onward == GrownInv' /\ Grown(book, book')

LEMMA SameOnward ==
    ASSUME WalletInv, GrownInv, UNCHANGED <<book, work, holder>>
    PROVE  Onward
<1>1. Grown(book, book')
  BY SameGrown DEF WalletInv, TypeOK
<1> QED
  BY <1>1 DEF Onward, GrownInv

\* A transaction works on, from the row it locked.
LEMMA WorkOnward ==
    ASSUME WalletInv, GrownInv, NEW q \in Processes, MayLock(q), holder' = q, UNCHANGED book,
           work' \in Book, Grown(LockedBook(q), work')
    PROVE  Onward
<1>1. Grown(book, work')
  BY LockedGrown, LockedSound, GrownOnward DEF WalletInv, TypeOK
<1>2. Grown(book, book')
  BY SameGrown DEF WalletInv, TypeOK
<1> QED
  BY <1>1, <1>2 DEF Onward, GrownInv

\* A transaction ends.
LEMMA EndOnward ==
    ASSUME WalletInv, GrownInv, NEW q \in Processes, WalletKept(q) \/ WalletDropped(q)
    PROVE  Onward
<1>1. q # None /\ book \in Book
  BY WalletAssumption DEF WalletInv, TypeOK
<1>2. CASE Mine(q)
  <2>1. holder' = None /\ holder # None /\ (book' = work \/ book' = book)
    BY <1>1, <1>2 DEF WalletKept, WalletDropped, Mine
  <2>2. Grown(book, book')
    BY <1>1, <2>1, SameGrown DEF GrownInv
  <2> QED
    BY <2>1, <2>2 DEF Onward, GrownInv
<1>3. CASE ~Mine(q)
  BY <1>3, SameOnward DEF WalletKept, WalletDropped
<1> QED
  BY <1>2, <1>3

LEMMA InitGrown == Init => GrownInv
BY DEF Init, GrownInv

\* Every step takes the wallet onward.
LEMMA NextOnward == WalletInv /\ GrownInv /\ [Next]_vars => Onward
<1> SUFFICES ASSUME WalletInv, GrownInv, [Next]_vars PROVE Onward
  OBVIOUS
<1>0. WalletInv'
  BY NextInv
<1>a. /\ work' \in Book /\ book \in Book /\ run.cutoff \in Nat /\ buying \in Numbers \union {None}
      /\ \A q \in Settlers : tx[q].at \in Payments \union {None}
      /\ \A q \in Settlers : q \in Processes
      /\ Sweep \in Processes /\ Buyer \in Processes /\ None \notin Processes
  BY <1>0, WalletAssumption DEF WalletInv, TypeOK, Run, Tx, Processes
<1>1. CASE UNCHANGED <<book, work, holder>>
  BY <1>1, SameOnward
<1>2. ASSUME NEW q \in Settlers, PostTopUp(q) PROVE Onward
  <2>1. tx[q].at \in Payments /\ MayLock(q) /\ holder' = q /\ UNCHANGED book
        /\ work' = Post(LockedBook(q), "topup", <<tx[q].at, 0>>, Credit)
    BY <1>2, <1>a DEF PostTopUp
  <2>2. Grown(LockedBook(q), work')
    BY <2>1, LockedSound, TopUpGrown
  <2> QED
    BY <1>a, <2>1, <2>2, WorkOnward
<1>3. CASE SettleCalls
  <2>1. CASE book.exists
    <3>1. MayLock(Sweep) /\ holder' = Sweep /\ UNCHANGED book
          /\ work' = CallsSettled(LockedBook(Sweep), run.cutoff)
      BY <1>3, <2>1 DEF SettleCalls
    <3>2. Grown(LockedBook(Sweep), work')
      BY <1>a, <3>1, LockedSound, CallsGrown
    <3> QED
      BY <1>a, <3>1, <3>2, WorkOnward
  <2>2. CASE ~book.exists
    BY <1>3, <2>2, SameOnward DEF SettleCalls
  <2> QED
    BY <2>1, <2>2
<1>4. ASSUME NEW n \in Numbers, CollectRent(n) PROVE Onward
  <2>1. CASE Mine(Sweep) \/ book.exists
    <3> DEFINE b == LockedBook(Sweep)
               r == RentTaken(b, n)
    <3>1. MayLock(Sweep) /\ holder' = Sweep /\ UNCHANGED book
          /\ work' = [r EXCEPT !.short = ShortAfter(b, n)]
      BY <1>4, <2>1 DEF CollectRent
    <3>2. b \in Book /\ Sound(b)
      BY LockedSound
    <3> HIDE DEF b
    <3>3. r \in Book /\ Grown(b, r)
      BY <3>2, RentSound, RentGrown
    <3> HIDE DEF r
    <3>4. work'.entries = r.entries
      BY <3>1, <3>3 DEF Book
    <3>5. Grown(b, work')
      BY <3>3, <3>4 DEF Grown
    <3> QED
      BY <1>a, <3>1, <3>5, WorkOnward DEF b
  <2>2. CASE ~(Mine(Sweep) \/ book.exists)
    BY <1>4, <2>2, SameOnward DEF CollectRent
  <2> QED
    BY <2>1, <2>2
<1>5. CASE BuyEnds
  <2>1. holder = None /\ UNCHANGED <<holder, work>> /\ buying \in Numbers
        /\ book' = RentTaken(LockedBook(Buyer), buying)
    BY <1>5, <1>a DEF BuyEnds
  <2>2. Grown(book, LockedBook(Buyer))
    BY <1>a, <2>1, LockedGrown DEF MayLock
  <2>3. /\ LockedBook(Buyer) \in Book
        /\ book' \in Book
        /\ Grown(LockedBook(Buyer), book')
    BY <1>0, <2>1, LockedSound, RentGrown DEF WalletInv, TypeOK
  <2>4. Grown(book, book')
    BY <1>a, <2>2, <2>3, GrownOnward
  <2> QED
    BY <2>1, <2>4 DEF Onward, GrownInv
<1>6. ASSUME NEW q \in Settlers, CommitTx(q) \/ AbortTx(q) PROVE Onward
  BY <1>6, <1>a, EndOnward DEF CommitTx, AbortTx
<1>7. CASE SweepCommits \/ SweepFails
  BY <1>7, <1>a, EndOnward DEF SweepCommits, SweepFails
<1>8. \/ UNCHANGED <<book, work, holder>>
      \/ \E q \in Settlers : PostTopUp(q) \/ CommitTx(q) \/ AbortTx(q)
      \/ SettleCalls \/ BuyEnds \/ SweepCommits \/ SweepFails
      \/ \E n \in Numbers : CollectRent(n)
  <2>1. CASE \E q \in Settlers : Advance(q) \/ FailTx(q) \/ BreakDeadlock(q)
    BY <2>1, Zenon DEF Advance, LockSome, LockPayment, FailTx, BreakDeadlock
  <2>2. CASE SweepStep
    BY <2>2 DEF SweepStep, SweepBegins
  <2>3. CASE (\E q \in Requests, p \in Payments : Request(q, p)) \/ RenewalSweep
    BY <2>3 DEF Request, RenewalSweep, Begin
  <2>4. CASE Tick \/ (\E c \in Calls : CallBegins(c) \/ CallSaved(c)) \/ (\E p \in Payments : CustomerPays(p))
    BY <2>4 DEF Tick, CallBegins, CallSaved, CustomerPays
  <2>5. CASE (\E n \in Numbers : BuyBegins(n) \/ Release(n)) \/ BuyFails
    BY <2>5 DEF BuyBegins, Release, BuyFails
  <2>6. CASE UNCHANGED vars
    BY <2>6 DEF vars
  <2> QED
    BY <2>1, <2>2, <2>3, <2>4, <2>5, <2>6 DEF Next
<1> QED
  BY <1>1, <1>2, <1>3, <1>4, <1>5, <1>6, <1>7, <1>8

\* In the ledger's terms: what is committed at once stands where it is put.
LEMMA GrownStands ==
    ASSUME NEW b \in Book, NEW c \in Book, Sound(c), Grown(b, c)
    PROVE  \A i \in Len(b.entries) + 1 .. Len(c.entries) : Ledger!Stands(c.entries, i)
<1>1. /\ Len(b.entries) \in Nat /\ Len(c.entries) \in Nat
      /\ DOMAIN c.entries = 1 .. Len(c.entries)
  BY BookEntries
<1> SUFFICES ASSUME NEW i \in Len(b.entries) + 1 .. Len(c.entries)
             PROVE  Ledger!Stands(c.entries, i)
  OBVIOUS
<1>2. i \in DOMAIN c.entries /\ i > Len(b.entries)
  BY <1>1
<1>3. \A j \in 1 .. i - 1 : c.entries[j].kind # c.entries[i].kind \/ c.entries[j].ref # c.entries[i].ref
  <2>1. \A j \in 1 .. i - 1 : j \in DOMAIN c.entries /\ j # i
    BY <1>1, <1>2
  <2> QED
    BY <1>2, <2>1 DEF Sound, OncePerRef
<1>4. c.entries[i].after = c.entries[i].amount + (IF i = 1 THEN 0 ELSE c.entries[i - 1].after)
  BY <1>2 DEF Sound, AddsUp
<1>5. c.entries[i].kind = "number_rent" => c.entries[i].after >= 0
  BY <1>2 DEF Sound, RentCovered
<1>6. Ledger!Signed(c.entries[i])
  BY <1>2 DEF Grown
<1> QED
  BY <1>3, <1>4, <1>5, <1>6 DEF Ledger!Stands

\* Wallets with the same entries have the same balance.
LEMMA SameBalance ==
    ASSUME NEW b \in Book, NEW c \in Book, Sound(b), Sound(c), c.entries = b.entries
    PROVE  c.balance = b.balance
BY DEF Sound, AddsUp

\* The successful payments are the ones whose top-up is in the wallet.
LEMMA PaidIsToppedUp ==
    ASSUME TopUpInv
    PROVE  Paid = Ledger!ToppedUp(book.entries) /\ Paid \subseteq captured
BY DEF TopUpInv, TopUpsMatchPayments, Seen, Paid, Ledger!ToppedUp

\* Every step is a commit to the ledger, a capture, or nothing to it.
LEMMA NextLedger ==
    ASSUME WalletInv, WalletInv', TopUpInv, TopUpInv', Grown(book, book'), [Next]_vars
    PROVE  [Ledger!LedgerNext]_(Ledger!ledgerVars)
<1>1. book \in Book /\ book' \in Book /\ Sound(book) /\ Sound(book')
  BY DEF WalletInv, TypeOK
<1>2. /\ Len(book.entries) \in Nat /\ Len(book'.entries) \in Nat
      /\ book.entries \in Seq(Entry) /\ book'.entries \in Seq(Entry)
      /\ DOMAIN book.entries = 1 .. Len(book.entries)
      /\ DOMAIN book'.entries = 1 .. Len(book'.entries)
  BY <1>1 DEF Book
<1>3. Ledger!Continues(book.entries, book'.entries)
  BY DEF Grown
<1>4. ASSUME NEW p \in Payments, CustomerPays(p)
      PROVE  Ledger!Capture(p)
  BY <1>4 DEF CustomerPays, Ledger!Capture, Paid
<1>5. CASE UNCHANGED captured
  <2>1. Paid' = Ledger!ToppedUp(book'.entries) /\ Paid' \subseteq captured
    <3>1. Paid' = Ledger!ToppedUp(book.entries)' /\ (Paid \subseteq captured)'
      BY DEF TopUpInv, TopUpsMatchPayments, Seen, Paid, Ledger!ToppedUp
    <3>2. Ledger!ToppedUp(book.entries)' = Ledger!ToppedUp(book'.entries)
      BY DEF Ledger!ToppedUp
    <3> QED
      BY <1>5, <3>1, <3>2
  <2>2. CASE Len(book'.entries) = Len(book.entries)
    <3>1. book'.entries = book.entries
      BY <1>2, <1>3, <2>2 DEF Ledger!Continues
    <3>2. book'.balance = book.balance
      BY <1>1, <3>1 DEF Sound, AddsUp
    <3>3. Paid' = Paid
      BY <2>1, <3>1, PaidIsToppedUp
    <3> QED
      BY <1>5, <3>1, <3>2, <3>3 DEF Ledger!ledgerVars
  <2>3. CASE Len(book'.entries) # Len(book.entries)
    <3>1. Len(book.entries) < Len(book'.entries)
      BY <1>2, <1>3, <2>3 DEF Ledger!Continues
    <3>2. book'.balance = book'.entries[Len(book'.entries)].after
      <4>1. book'.entries # <<>>
        BY <1>2, <3>1
      <4> QED
        BY <1>1, <4>1 DEF Sound, AddsUp
    <3>3. \A i \in Len(book.entries) + 1 .. Len(book'.entries) : Ledger!Stands(book'.entries, i)
      <4>1. PICK b \in Book : b = book
        BY <1>1
      <4>2. PICK c \in Book : c = book'
        BY <1>1
      <4>3. Sound(c) /\ Grown(b, c)
        BY <1>1, <4>1, <4>2
      <4> QED
        BY <4>1, <4>2, <4>3, GrownStands
    <3>4. Ledger!Commit
      BY <1>2, <1>3, <1>5, <2>1, <3>1, <3>2, <3>3 DEF Ledger!Commit
    <3> QED
      BY <3>4 DEF Ledger!LedgerNext
  <2> QED
    BY <2>2, <2>3
<1>6. UNCHANGED captured \/ \E p \in Payments : CustomerPays(p)
  <2>1. CASE \E q \in Settlers : Advance(q) \/ FailTx(q) \/ BreakDeadlock(q)
    BY <2>1, Zenon DEF Advance, LockSome, LockPayment, PostTopUp, CommitTx, FailTx, BreakDeadlock, AbortTx, world
  <2>2. CASE SweepStep \/ SweepFails
    BY <2>2 DEF SweepStep, SweepBegins, SettleCalls, SweepCommits, CollectRent, SweepFails, world
  <2>3. CASE (\E q \in Requests, p \in Payments : Request(q, p)) \/ RenewalSweep
    BY <2>3 DEF Request, RenewalSweep, Begin, world
  <2>4. CASE Tick \/ \E c \in Calls : CallBegins(c) \/ CallSaved(c)
    BY <2>4 DEF Tick, CallBegins, CallSaved
  <2>5. CASE (\E n \in Numbers : BuyBegins(n) \/ Release(n)) \/ BuyEnds \/ BuyFails
    BY <2>5 DEF BuyBegins, Release, BuyEnds, BuyFails, world
  <2>6. CASE UNCHANGED vars
    BY <2>6 DEF vars
  <2> QED
    BY <2>1, <2>2, <2>3, <2>4, <2>5, <2>6 DEF Next
<1> QED
  BY <1>4, <1>5, <1>6 DEF Ledger!LedgerNext

LEMMA InitLedger == Init => Ledger!LedgerInit
BY DEF Init, NoBook, Paid, Ledger!LedgerInit

-----------------------------------------------------------------------------
\* Every variable keeps its type, for any number of payments, numbers, calls and requests.
THEOREM TypeCorrect == Spec => []TypeOK
BY InitInv, NextInv, PTL DEF Spec, WalletInv

\* The entries lead from nothing to the balance (post).
THEOREM LedgerAlwaysAddsUp == Spec => []LedgerAddsUp
<1>1. WalletInv => LedgerAddsUp
  BY DEF WalletInv, Sound, LedgerAddsUp
<1> QED
  BY <1>1, InitInv, NextInv, PTL DEF Spec

\* No charge or top-up is posted twice (post's check of (kind, ref) under the row lock).
THEOREM AlwaysPostedOnce == Spec => []PostedOnce
<1>1. WalletInv => PostedOnce
  BY DEF WalletInv, Sound, PostedOnce
<1> QED
  BY <1>1, InitInv, NextInv, PTL DEF Spec

\* Rent never takes the wallet below zero (post with allow_negative=False).
THEOREM RentNeverEverOverdraws == Spec => []RentNeverOverdraws
<1>1. WalletInv => RentNeverOverdraws
  BY DEF WalletInv, Sound, RentNeverOverdraws
<1> QED
  BY <1>1, InitInv, NextInv, PTL DEF Spec

\* A top-up is in the wallet exactly when its payment is a success that PayU captured
\* (settle_payment, _apply_success): browser, webhook and sweep at once, each rolled back at
\* any point.
THEOREM TopUpsAlwaysMatch == Spec => []TopUpsMatchPayments
<1>1. TopUpInv => TopUpsMatchPayments
  BY DEF TopUpInv
<1>2. Init => WalletInv /\ TopUpInv
  BY InitInv, TopUpInit
<1>3. (WalletInv /\ TopUpInv) /\ [Next]_vars => (WalletInv /\ TopUpInv)'
  BY NextInv, TopUpNext
<1> QED
  BY <1>1, <1>2, <1>3, PTL DEF Spec

\* Every usage row up to the watermark is charged exactly once and none beyond it, and each
\* charge costs what it is for (settle_voice_usage, SETTLE_LAG).
THEOREM UsageIsChargedOnce == Spec => []UsageChargedOnce
<1>1. UsageInv => UsageChargedOnce
  BY DEF UsageInv, Settled, UsageChargedOnce
<1>2. Init => WalletInv /\ UsageInv
  BY InitInv, UsageInit
<1>3. (WalletInv /\ UsageInv) /\ [Next]_vars => (WalletInv /\ UsageInv)'
  BY NextInv, UsageNext
<1> QED
  BY <1>1, <1>2, <1>3, PTL DEF Spec

\* The committed wallet is a ledger (WalletLedger): entries are only added, each once and where
\* it belongs, and a payment becomes a success together with its top-up, whoever locks, fails or
\* is rolled back (post, settle_payment, the wallet sweep, buy_number).
THEOREM WalletIsALedger == Spec => ImplementsLedger
<1> DEFINE IInv == WalletInv /\ TopUpInv /\ GrownInv
<1>1. Init => IInv
  BY InitInv, TopUpInit, InitGrown
<1>2. IInv /\ [Next]_vars => IInv'
  BY NextInv, TopUpNext, NextOnward DEF Onward
<1>3. IInv /\ IInv' /\ [Next]_vars => [Ledger!LedgerNext]_(Ledger!ledgerVars)
  BY NextOnward, NextLedger DEF Onward
<1> HIDE DEF IInv
<1> QED
  BY <1>1, <1>2, <1>3, InitLedger, PTL DEF Spec, ImplementsLedger, Ledger!LedgerSpec

=============================================================================
