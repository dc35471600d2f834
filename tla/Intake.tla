------------------------------- MODULE Intake -------------------------------
(***************************************************************************)
(* How an inbound message becomes a row, two jobs and somebody's chat.     *)
(* A webhook is answered 200 at once; a background task then stores the    *)
(* whole delivery in one transaction (_process_whatsapp,                   *)
(* _process_instagram), calling ingest() for each message: duplicate check, *)
(* identity, insert, routing, jobs.  Deliveries run concurrently in READ   *)
(* COMMITTED transactions.  Three facts of that session decide the         *)
(* outcome and are kept here:                                              *)
(*   - an insert that meets an uncommitted row with the same unique key    *)
(*     waits for its owner; when the owner commits, ingest() and resolve() *)
(*     roll the WHOLE session back and carry on with the row that won;     *)
(*   - a customer is loaded once per session and not read again, so what   *)
(*     routing looks at is the copy of that moment;                        *)
(*   - the ORM writes only the columns that differ from its copy.          *)
(* People claim, take over and release chats meanwhile, and the drafting   *)
(* worker hands a chat to a person after a slow model call.                *)
(***************************************************************************)
EXTENDS Integers, Sequences, FiniteSets

CONSTANTS
  Deliveries,  \* webhook deliveries
  Messages,    \* inbound messages, each with its own external id
  Customers,
  Rota,        \* the team members who can be given a chat, longest-waiting first
  Batches,     \* what the deliveries may hold, each a sequence of messages
  From,        \* From[m]: the customer who wrote m
  NoOne,       \* the owner of a chat nobody has
  MaxFailures, \* bound: exceptions and process crashes
  MaxTouches   \* bound: what people do to chats by hand

ASSUME BatchAssumption == Batches \subseteq [Deliveries -> Seq(Messages)]
ASSUME FromAssumption == From \in [Messages -> Customers]
ASSUME RotaAssumption == Rota \in Seq({Rota[i] : i \in DOMAIN Rota}) /\ NoOne \notin {Rota[i] : i \in DOMAIN Rota}
ASSUME BoundAssumption == MaxFailures \in Nat /\ MaxTouches \in Nat

VARIABLES
  setup,    \* the business's settings and the deliveries; constant after Init
  known,    \* customers with an identity row
  stored,   \* committed message rows
  queued,   \* messages whose analysis and reply jobs are committed
  chat,     \* chat[c]: team and owner, as committed
  turn,     \* the order of the people, the one given a chat longest ago (last_routed_at) first
  tx,       \* tx[d]: the delivery's background task and its transaction
  worker,   \* worker[m]: the drafting job of message m
  failures, touches

intakeVars == <<setup, known, stored, queued, chat, turn, tx, worker, failures, touches>>

People == {Rota[i] : i \in DOMAIN Rota}

Setups == [sharing: {"round_robin", "queue", "no_team"}, \* the matching rule's team; no_team: no rules
           batch: Batches, aiFirst: BOOLEAN, private: SUBSET Customers,
           free: {{}, People}]                       \* nobody, or everybody, available
Chats == [team: BOOLEAN, owner: People \cup {NoOne}]
Copies == [read: BOOLEAN, team: BOOLEAN, owner: People \cup {NoOne}]
Unread == [read |-> FALSE, team |-> FALSE, owner |-> NoOne]
Copy(r) == [read |-> TRUE, team |-> r.team, owner |-> r.owner]

PCs == {"unsent", "accepted", "lookup", "create", "store", "route", "commit", "done", "lost"}

\* A session: rows it inserted, customers whose row it locked, agents it locked,
\* who it gave chats to, the copies it loaded and the columns it wrote.
Fresh == [ids |-> {}, rows |-> {}, jobs |-> {}, held |-> {}, picked |-> {}, given |-> {},
          copy |-> [c \in Customers |-> Unread],
          new |-> [c \in Customers |-> [team |-> FALSE, owner |-> NoOne]]]
Sessions == [ids: SUBSET Customers, rows: SUBSET Messages, jobs: SUBSET Messages,
             held: SUBSET Customers, picked: SUBSET People, given: SUBSET (People \X People),
             copy: [Customers -> Copies], new: [Customers -> Chats]]

IntakeTypeOK ==
  /\ setup \in Setups
  /\ known \subseteq Customers /\ stored \subseteq Messages /\ queued \subseteq Messages
  /\ chat \in [Customers -> Chats]
  /\ turn \subseteq People \X People
  /\ tx \in [Deliveries -> [pc: PCs, at: Nat \ {0}, cut: Nat, s: Sessions]]
  /\ worker \in [Messages -> [pc: {"idle", "loaded", "done"}, copy: Copies]]
  /\ failures \in 0..MaxFailures /\ touches \in 0..MaxTouches

Batch == setup.batch \* Batch[d]: the messages of delivery d, in order
Running(d) == tx[d].pc \notin {"unsent", "accepted", "done", "lost"}
Cur(d) == Batch[d][tx[d].at]
Sender(d) == From[Cur(d)]

-----------------------------------------------------------------------------
(* Row locks: what one open transaction makes another wait for.            *)

IdentityTaken(d, c) == \E e \in Deliveries \ {d} : c \in tx[e].s.ids
MessageTaken(d, m) == \E e \in Deliveries \ {d} : m \in tx[e].s.rows
ChatTaken(d, c) == \E e \in Deliveries \ {d} : c \in tx[e].s.held
ChatLocked(c) == \E e \in Deliveries : c \in tx[e].s.held

WaitsFor(d, e) ==
  /\ d # e
  /\ \/ tx[d].pc = "create" /\ Sender(d) \in tx[e].s.ids
     \/ tx[d].pc = "store" /\ (Sender(d) \in tx[e].s.held \/ Cur(d) \in tx[e].s.rows)

Deadlocked(d) ==
  \E S \in SUBSET Deliveries :
    /\ d \in S
    /\ \A e \in S : (\E f \in S : WaitsFor(e, f)) /\ (\E f \in S : WaitsFor(f, e))

\* What the session reads of a chat: its own columns over the committed ones.
Seen(d, c) ==
  LET new == tx[d].s.new[c] IN
    [team |-> chat[c].team \/ new.team,
     owner |-> IF new.owner # NoOne THEN new.owner ELSE chat[c].owner]

\* An order is the set of its pairs: <<u, v>> when u comes before v, or is v.
\* last_routed_at: whoever is given a chat goes to the end of the line.
Behind(order, given) ==
  LET moved == {u \in People : <<u, u>> \in given} IN
    {x \in order : x[1] \notin moved /\ x[2] \notin moved} \cup ((People \ moved) \X moved) \cup given
Give(given, u) ==
  LET others == {v \in People \ {u} : <<v, v>> \in given} IN
    {x \in given : u \notin {x[1], x[2]}} \cup ((others \cup {u}) \X {u})
FirstOf(order, S) ==
  LET first == {u \in S : \A v \in S : <<u, v>> \in order} IN
    IF first = {} THEN NoOne ELSE CHOOSE u \in first : TRUE

\* Mutant: the loop over a delivery never sees its end.
Mutant_NextOf(d) == IF tx[d].at > Len(Batch[d]) THEN "commit" ELSE "lookup"

NextOf(d) == IF tx[d].at = Len(Batch[d]) THEN "commit" ELSE "lookup"

\* The loop goes on with the next message of the delivery.
Advance(d, t) == [t EXCEPT !.pc = NextOf(d), !.at = IF @ = Len(Batch[d]) THEN @ ELSE @ + 1]

-----------------------------------------------------------------------------
IntakeInit ==
  /\ setup \in Setups
  /\ known \in SUBSET Customers
  /\ stored = {} /\ queued = {}
  /\ chat = [c \in Customers |-> [team |-> FALSE, owner |-> NoOne]]
  /\ turn = {x \in People \X People : \E i, j \in DOMAIN Rota : i <= j /\ x = <<Rota[i], Rota[j]>>}
  /\ tx = [d \in Deliveries |-> [pc |-> "unsent", at |-> 1, cut |-> 0, s |-> Fresh]]
  /\ worker = [m \in Messages |-> [pc |-> "idle", copy |-> Unread]]
  /\ failures = 0 /\ touches = 0

\* The endpoint checks the signature, schedules the task and answers 200.
Accept(d) ==
  /\ tx[d].pc = "unsent"
  /\ tx' = [tx EXCEPT ![d].pc = "accepted"]
  /\ UNCHANGED <<setup, known, stored, queued, chat, turn, worker, failures, touches>>

\* The task starts: a new session, the first message of the delivery.
Begin(d) ==
  /\ tx[d].pc = "accepted"
  /\ tx' = [tx EXCEPT ![d].pc = IF Batch[d] = <<>> THEN "commit" ELSE "lookup"]
  /\ UNCHANGED <<setup, known, stored, queued, chat, turn, worker, failures, touches>>

\* Mutant: a message that is stored already ends the loop over its delivery.
Mutant_Lookup(d) ==
  LET c == Sender(d) IN
  /\ tx[d].pc = "lookup"
  /\ \/ /\ Cur(d) \in stored \cup tx[d].s.rows
        /\ tx' = [tx EXCEPT ![d].pc = "commit"]
     \/ /\ Cur(d) \notin stored \cup tx[d].s.rows
        /\ c \in known \cup tx[d].s.ids
        /\ tx' = [tx EXCEPT ![d].pc = "store",
                            ![d].s.copy[c] = IF @.read THEN @ ELSE Copy(chat[c])]
     \/ /\ Cur(d) \notin stored \cup tx[d].s.rows
        /\ c \notin known \cup tx[d].s.ids
        /\ tx' = [tx EXCEPT ![d].pc = "create"]
  /\ UNCHANGED <<setup, known, stored, queued, chat, turn, worker, failures, touches>>

\* ingest() looks for the message, and resolve() for the sender's identity:
\* a stored message is skipped; a known sender is loaded, once per session.
Lookup(d) ==
  LET c == Sender(d) IN
  /\ tx[d].pc = "lookup"
  /\ \/ /\ Cur(d) \in stored \cup tx[d].s.rows
        /\ tx' = [tx EXCEPT ![d] = Advance(d, @)]
     \/ /\ Cur(d) \notin stored \cup tx[d].s.rows
        /\ c \in known \cup tx[d].s.ids
        /\ tx' = [tx EXCEPT ![d].pc = "store",
                            ![d].s.copy[c] = IF @.read THEN @ ELSE Copy(chat[c])]
     \/ /\ Cur(d) \notin stored \cup tx[d].s.rows
        /\ c \notin known \cup tx[d].s.ids
        /\ tx' = [tx EXCEPT ![d].pc = "create"]
  /\ UNCHANGED <<setup, known, stored, queued, chat, turn, worker, failures, touches>>

\* resolve() creates the customer and inserts the identity.  When another
\* delivery's identity got there first the session is rolled back, with all
\* it had stored for the messages before, and the winner is loaded (and see Trips).
Create(d) ==
  LET c == Sender(d) IN
  /\ tx[d].pc = "create"
  /\ ~IdentityTaken(d, c)
  /\ IF c \in known
     THEN tx' = [tx EXCEPT ![d].pc = "store", ![d].cut = tx[d].at,
                           ![d].s = [Fresh EXCEPT !.copy[c] = Copy(chat[c])]]
     ELSE tx' = [tx EXCEPT ![d].pc = "store", ![d].s.ids = @ \cup {c},
                           ![d].s.held = @ \cup {c}, ![d].s.copy[c] = Copy(chat[c])]
  /\ UNCHANGED <<setup, known, stored, queued, chat, turn, worker, failures, touches>>

\* The flush writes last_contact_at, which locks the customer's row, and
\* inserts the message.  A message stored meanwhile rolls the session back.
Store(d) ==
  LET m == Cur(d) IN
  /\ tx[d].pc = "store"
  /\ ~ChatTaken(d, Sender(d)) /\ ~MessageTaken(d, m)
  /\ IF m \in stored
     THEN tx' = [tx EXCEPT ![d] = Advance(d, [@ EXCEPT !.cut = tx[d].at, !.s = Fresh])]
     ELSE tx' = [tx EXCEPT ![d].pc = "route", ![d].s.rows = @ \cup {m},
                           ![d].s.held = @ \cup {Sender(d)}]
  /\ UNCHANGED <<setup, known, stored, queued, chat, turn, worker, failures, touches>>

-----------------------------------------------------------------------------
(* Routing, inside the delivery's transaction (team/rules.py, routing.py). *)

AssignNow == ~setup.aiFirst
FreeFor(d) == FirstOf(Behind(turn, tx[d].s.given), setup.free)

\* pick_agent: agents another transaction has locked are skipped.
Unlocked(d) == {u \in setup.free : \A e \in Deliveries \ {d} : u \notin tx[e].s.picked}
PickFor(d) == FirstOf(Behind(turn, tx[d].s.given), Unlocked(d))

\* Mutants: a chat is given out by the session's copy alone; and the round
\* robin's answer is written though nobody is free.
Mutant_RoutedUnasked(d, c) ==
  LET s == tx[d].s
      mine == s.copy[c]
      give(u) == [s EXCEPT !.new[c].owner = u, !.given = Give(@, u)]
      joined(t) == [t EXCEPT !.new[c].team = TRUE]
  IN IF mine.owner # NoOne \/ mine.team THEN s ELSE
     CASE setup.sharing = "queue" \/ (setup.sharing = "round_robin" /\ ~AssignNow) -> joined(s)
       [] setup.sharing = "round_robin" /\ AssignNow ->
            joined(IF FreeFor(d) = NoOne THEN s ELSE give(FreeFor(d)))
       [] setup.sharing = "no_team" /\ (~AssignNow \/ PickFor(d) = NoOne) -> s
       [] OTHER -> [give(PickFor(d)) EXCEPT !.picked = @ \cup {PickFor(d)}]
Mutant_RoutedToNoOne(d, c) ==
  LET s == tx[d].s
      mine == s.copy[c]
      give(u) == [s EXCEPT !.new[c].owner = u, !.given = Give(@, u)]
      joined(t) == [t EXCEPT !.new[c].team = TRUE]
  IN IF mine.owner # NoOne \/ mine.team THEN s ELSE
     CASE setup.sharing = "queue" \/ (setup.sharing = "round_robin" /\ ~AssignNow) -> joined(s)
       [] setup.sharing = "round_robin" /\ AssignNow -> joined(give(FreeFor(d)))
       [] setup.sharing = "no_team" /\ (~AssignNow \/ PickFor(d) = NoOne) -> s
       [] OTHER -> [(IF Seen(d, c).owner = NoOne THEN give(PickFor(d)) ELSE s)
                    EXCEPT !.picked = @ \cup {PickFor(d)}]

\* What routing makes of the session: the rule's team takes an unowned chat
\* that is not its own yet; without rules route_new_chat claims it with one
\* conditional UPDATE; an owned chat, or one in its team, is left alone.
RoutedSession(d, c) ==
  LET s == tx[d].s
      mine == s.copy[c]
      give(u) == [s EXCEPT !.new[c].owner = u, !.given = Give(@, u)]
      joined(t) == [t EXCEPT !.new[c].team = TRUE]
  IN IF mine.owner # NoOne \/ mine.team THEN s ELSE
     CASE setup.sharing = "queue" \/ (setup.sharing = "round_robin" /\ ~AssignNow) -> joined(s)
       [] setup.sharing = "round_robin" /\ AssignNow ->
            joined(IF FreeFor(d) = NoOne THEN s ELSE give(FreeFor(d)))
       [] setup.sharing = "no_team" /\ (~AssignNow \/ PickFor(d) = NoOne) -> s
       [] OTHER -> [(IF Seen(d, c).owner = NoOne THEN give(PickFor(d)) ELSE s)
                    EXCEPT !.picked = @ \cup {PickFor(d)}]

\* Routing, then the jobs; then the loop goes on.  A routing that raises is
\* undone to its savepoint and the message stays.
Route(d) ==
  LET c == Sender(d)
      jobs == IF c \in setup.private THEN {} ELSE {Cur(d)}
      queue(s) == [s EXCEPT !.jobs = @ \cup jobs]
      r == RoutedSession(d, c)
      reread == [team |-> chat[c].team \/ r.new[c].team,
                 owner |-> IF r.new[c].owner # NoOne THEN r.new[c].owner ELSE chat[c].owner]
  IN
  /\ tx[d].pc = "route"
  /\ \/ /\ tx' = [tx EXCEPT ![d] = Advance(d, [tx[d] EXCEPT !.s = queue([r EXCEPT !.copy[c] = Copy(reread)])])]
        /\ UNCHANGED failures
     \/ /\ failures < MaxFailures
        /\ failures' = failures + 1
        /\ tx' = [tx EXCEPT ![d] = Advance(d, [tx[d] EXCEPT !.s = queue(@)])]
  /\ UNCHANGED <<setup, known, stored, queued, chat, turn, worker, touches>>

\* One commit for the whole delivery.
Commit(d) ==
  LET s == tx[d].s IN
  /\ tx[d].pc = "commit"
  /\ known' = known \cup s.ids
  /\ stored' = stored \cup s.rows
  /\ queued' = queued \cup s.jobs
  /\ chat' = [c \in Customers |-> Seen(d, c)]
  /\ turn' = Behind(turn, s.given)
  /\ tx' = [tx EXCEPT ![d].pc = "done", ![d].s = Fresh]
  /\ UNCHANGED <<setup, worker, failures, touches>>

Lost(d) == [tx EXCEPT ![d].pc = "lost", ![d].s = Fresh]

\* Anything else raises: the session is rolled back and nobody tries again.
TaskFails(d) ==
  /\ Running(d) /\ failures < MaxFailures
  /\ tx' = Lost(d)
  /\ failures' = failures + 1
  /\ UNCHANGED <<setup, known, stored, queued, chat, turn, worker, touches>>

\* The rollback in resolve() also expires the connection's row, and WhatsApp's task reads it
\* once the message is stored: that raises, and the delivery is lost with what routing did.
\* Instagram's task reads nothing of it and goes on.
Trips(d) ==
  /\ tx[d].pc = "route" /\ tx[d].cut = tx[d].at
  /\ tx' = Lost(d)
  /\ UNCHANGED <<setup, known, stored, queued, chat, turn, worker, failures, touches>>

\* Postgres ends one transaction of a cycle of lock waits with an error.
Victim(d) ==
  /\ Deadlocked(d)
  /\ tx' = Lost(d)
  /\ UNCHANGED <<setup, known, stored, queued, chat, turn, worker, failures, touches>>

\* The API process dies: the tasks it had, begun or not, are gone.
ApiStops ==
  /\ failures < MaxFailures
  /\ \E d \in Deliveries : Running(d) \/ tx[d].pc = "accepted"
  /\ tx' = [d \in Deliveries |->
             IF Running(d) \/ tx[d].pc = "accepted" THEN Lost(d)[d] ELSE tx[d]]
  /\ failures' = failures + 1
  /\ UNCHANGED <<setup, known, stored, queued, chat, turn, worker, touches>>

-----------------------------------------------------------------------------
(* The drafting worker and the team.                                       *)

\* The job loads the customer, then waits for the model.
LoadJob(m) ==
  /\ m \in queued /\ worker[m].pc = "idle"
  /\ worker' = [worker EXCEPT ![m] = [pc |-> "loaded", copy |-> Copy(chat[From[m]])]]
  /\ UNCHANGED <<setup, known, stored, queued, chat, turn, tx, failures, touches>>

\* Who hand_to_person gives the chat to, judged by the job's copy: the
\* chat's team overwrites the owner, the round robin claims conditionally.
HandedTo(m) ==
  LET c == From[m]
      mine == worker[m].copy
      locked == UNION {tx[e].s.picked : e \in Deliveries}
  IN IF mine.owner # NoOne THEN NoOne
     ELSE IF mine.team
          THEN IF setup.sharing = "round_robin" THEN FirstOf(turn, setup.free) ELSE NoOne
          ELSE IF chat[c].owner = NoOne THEN FirstOf(turn, setup.free \ locked) ELSE NoOne

\* The model's answer needs a person (or does not), and the job commits.
Hand(m) ==
  LET c == From[m] IN
  /\ worker[m].pc = "loaded"
  /\ worker' = [worker EXCEPT ![m].pc = "done"]
  /\ \/ UNCHANGED <<chat, turn>>
     \/ /\ ~ChatLocked(c) /\ HandedTo(m) # NoOne
        /\ chat' = [chat EXCEPT ![c].owner = HandedTo(m)]
        /\ turn' = Behind(turn, {<<HandedTo(m), HandedTo(m)>>})
  /\ UNCHANGED <<setup, known, stored, queued, tx, failures, touches>>

\* A person replies first (one conditional UPDATE), or takes the chat over,
\* or leaves it: the row's lock is waited for.
Touch(c) ==
  /\ touches < MaxTouches /\ touches' = touches + 1
  /\ ~ChatLocked(c)
  /\ \E u \in People \cup {NoOne} : u # chat[c].owner /\ chat' = [chat EXCEPT ![c].owner = u]
  /\ c \in known
  /\ UNCHANGED <<setup, known, stored, queued, turn, tx, worker, failures>>

Step(d) == Begin(d) \/ Lookup(d) \/ Create(d) \/ Store(d) \/ Route(d) \/ Commit(d) \/ Trips(d) \/ Victim(d)

IntakeNext ==
  \/ \E d \in Deliveries : Accept(d) \/ Step(d) \/ TaskFails(d)
  \/ ApiStops
  \/ \E m \in Messages : LoadJob(m) \/ Hand(m)
  \/ \E c \in Customers : Touch(c)

IntakeSpec == IntakeInit /\ [][IntakeNext]_intakeVars

\* The event loop runs every task it was given; workers run their jobs.
IntakeFairness ==
  /\ \A d \in Deliveries : WF_intakeVars(Step(d))
  /\ \A m \in Messages : WF_intakeVars(LoadJob(m) \/ Hand(m))

FairIntakeSpec == IntakeSpec /\ IntakeFairness

-----------------------------------------------------------------------------
(* Properties.                                                             *)

\* When a delivery's task has committed, every message from its last lost
\* race on is stored.  The ones before it are what the rollback in ingest()
\* and resolve() takes along, although WhatsApp was told 200.
DoneMeansStored ==
  \A d \in Deliveries : tx[d].pc = "done" =>
    \A i \in DOMAIN Batch[d] : i >= tx[d].cut => Batch[d][i] \in stored

\* Without team rules a chat that has an owner changes hands only by a
\* person: two messages arriving together, a delivery and a drafting job, or
\* either and a reply never give one chat to two people (route_new_chat).
OnlyPeopleMoveAChat ==
  [][setup.sharing = "no_team" =>
       \A c \in Customers : chat[c].owner # NoOne /\ chat'[c].owner # chat[c].owner => touches' # touches]_intakeVars

\* Every accepted delivery ends, stored or lost: tasks that wait for each
\* other's rows do not wait for ever.
EveryDeliveryEnds ==
  \A d \in Deliveries : tx[d].pc = "accepted" ~> tx[d].pc \in {"done", "lost"}
=============================================================================
