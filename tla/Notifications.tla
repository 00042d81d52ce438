--------------------------- MODULE Notifications ----------------------------
(***************************************************************************)
(* notification-service between its three RabbitMQ queues: the consumer    *)
(* of booking events with its retry ladder, and the operators' requests to *)
(* the parking queue.                                                      *)
(*                                                                         *)
(*   exchange --> queue --> consumer --(a send failed)--> retry --expiry-. *)
(*                  ^          |                                         | *)
(*                  |          `--(poison, or no retry left)--> parking  | *)
(*                  |                                              |     | *)
(*                  `-----------------replay-----------------------'     | *)
(*                  `----------------------------------------------------' *)
(*                                                                         *)
(* What the process does to the broker in one turn of its event loop (a    *)
(* publish, then an ack) the broker does in two steps, and the process may *)
(* die between them.  Delays are not modelled, only the order they leave.  *)
(***************************************************************************)
EXTENDS Naturals, Sequences, FiniteSets

CONSTANTS
  Messages,     \* the events booking-service may publish
  Double,       \* those whose handler sends two notifications
  Poison,       \* those that do not parse or have no handler
  MaxRetries,   \* MAX_RETRIES
  Operators,    \* the admin requests that may be open at once
  Limits,       \* the limits they ask for
  MaxCrashes,   \* bound: how often the process dies
  None

ASSUME MessagesAssumption == Double \subseteq Messages /\ Poison \subseteq Messages
ASSUME BoundsAssumption ==
  MaxRetries \in Nat /\ Limits \subseteq Nat /\ MaxCrashes \in Nat
ASSUME OperatorsAssumption == IsFiniteSet(Operators)
ASSUME NoneAssumption ==
  /\ None \notin {"event", "parking"}
  /\ None \notin [m : Messages, deaths : 0..MaxRetries, key : {"event", "parking"},
                  original : {"event", "parking", None}]

VARIABLES
  published,    \* the events on the exchange so far
  queue,        \* notification.bookings
  retry,        \* notification.bookings.retry
  parking,      \* notification.bookings.parking
  consumer,     \* the consumer and the delivery it has not acked
  operator,     \* the admin requests and the message each has not acked
  notified,     \* for each event, the sends that have succeeded
  failed,       \* for each event, the failures since it was last fresh
  purged,       \* the events an operator has thrown away
  crashes       \* how often the process has died

vars == <<published, queue, retry, parking, consumer, operator,
          notified, failed, purged, crashes>>

(* A message in the broker: its event, the count of the retry queue in its *)
(* x-death header, where its routing key leads, and the key kept in its    *)
(* x-original-routing-key header.                                          *)
Keys == {"event", "parking"}

Copy == [m : Messages, deaths : 0..MaxRetries, key : Keys, original : Keys \cup {None}]

Fresh(m) == [m |-> m, deaths |-> 0, key |-> "event", original |-> None]

Consumer ==
  [pc : {"idle", "first", "second", "retry", "park", "ack", "requeue"},
   copy : Copy \cup {None}]

IdleConsumer == [pc |-> "idle", copy |-> None]

Operator ==
  [pc : {"idle", "get", "requeue", "replay", "ack"},
   op : {"none", "peek", "replay"},
   left : Nat,
   copy : Copy \cup {None}]

IdleOperator == [pc |-> "idle", op |-> "none", left |-> 0, copy |-> None]

Sends(m) == IF m \in Double THEN {"first", "second"} ELSE {"first"}

Init ==
  /\ published = {}
  /\ queue = <<>> /\ retry = <<>> /\ parking = <<>>
  /\ consumer = IdleConsumer
  /\ operator = [o \in Operators |-> IdleOperator]
  /\ notified = [m \in Messages |-> {}]
  /\ failed = [m \in Messages |-> 0]
  /\ purged = {}
  /\ crashes = 0

-----------------------------------------------------------------------------
(* Both exchanges know the routing keys of the events and no other; what   *)
(* they cannot route is dropped.                                           *)
Routed(q, c) == IF c.key = "event" THEN Append(q, c) ELSE q

Publish(m) ==
  /\ m \notin published
  /\ published' = published \cup {m}
  /\ queue' = Routed(queue, Fresh(m))
  /\ UNCHANGED <<retry, parking, consumer, operator, notified, failed, purged, crashes>>

Become(pc) == consumer' = [consumer EXCEPT !.pc = pc]

(* prefetch(1): the next delivery waits for the ack of the last.  Poison   *)
(* is recognised in the same turn.                                         *)
Deliver ==
  /\ consumer.pc = "idle" /\ queue # <<>>
  /\ consumer' = [pc |-> IF Head(queue).m \in Poison THEN "park" ELSE "first",
                  copy |-> Head(queue)]
  /\ queue' = Tail(queue)
  /\ UNCHANGED <<published, retry, parking, operator, notified, failed, purged, crashes>>

(* One notifierService.send of the handler, which awaits each in turn. *)
Send ==
  /\ consumer.pc \in {"first", "second"}
  /\ LET m == consumer.copy.m IN
       /\ notified' = [notified EXCEPT ![m] = @ \cup {consumer.pc}]
       /\ Become(IF consumer.pc = "first" /\ m \in Double THEN "second" ELSE "ack")
  /\ UNCHANGED <<published, queue, retry, parking, operator, failed, purged, crashes>>

(* Mutant of SendFails: the message is parked only after MaxRetries. *)
SendFailsLate ==
  /\ consumer.pc \in {"first", "second"}
  /\ failed' = [failed EXCEPT ![consumer.copy.m] = @ + 1]
  /\ Become(IF consumer.copy.deaths > MaxRetries THEN "park" ELSE "retry")
  /\ UNCHANGED <<published, queue, retry, parking, operator, notified, purged, crashes>>

SendFails ==
  /\ consumer.pc \in {"first", "second"}
  /\ failed' = [failed EXCEPT ![consumer.copy.m] = @ + 1]
  /\ Become(IF consumer.copy.deaths >= MaxRetries THEN "park" ELSE "retry")
  /\ UNCHANGED <<published, queue, retry, parking, operator, notified, purged, crashes>>

RetryLater ==
  /\ consumer.pc = "retry"
  /\ retry' = Routed(retry, consumer.copy)
  /\ Become("ack")
  /\ UNCHANGED <<published, queue, parking, operator, notified, failed, purged, crashes>>

(* parkMessage *)
AsParked(c) == [c EXCEPT !.key = "parking", !.original = c.key]

Park ==
  /\ consumer.pc = "park"
  /\ parking' = Append(parking, AsParked(consumer.copy))
  /\ Become("ack")
  /\ UNCHANGED <<published, queue, retry, operator, notified, failed, purged, crashes>>

(* Mutant of Ack: the delivery is requeued besides. *)
AckRequeues ==
  /\ consumer.pc = "ack"
  /\ consumer' = IdleConsumer
  /\ queue' = <<consumer.copy>> \o queue
  /\ UNCHANGED <<published, retry, parking, operator, notified, failed, purged, crashes>>

Ack ==
  /\ consumer.pc = "ack"
  /\ consumer' = IdleConsumer
  /\ UNCHANGED <<published, queue, retry, parking, operator, notified, failed, purged, crashes>>

(* Mutant of Expire: nothing leaves the retry queue. *)
ExpireNever == FALSE /\ UNCHANGED vars

(* The head of the retry queue has waited long enough (the broker looks at *)
(* no other) and is dead-lettered to the exchange under its own key.       *)
Died(c) == [c EXCEPT !.deaths = @ + 1]

Expire ==
  /\ retry # <<>>
  /\ queue' = Routed(queue, Died(Head(retry)))
  /\ retry' = Tail(retry)
  /\ UNCHANGED <<published, parking, consumer, operator, notified, failed, purged, crashes>>

-----------------------------------------------------------------------------
(* GET /admin/parking/peek and POST /admin/parking/replay *)
Request(o) ==
  /\ operator[o].pc = "idle"
  /\ \E op \in {"peek", "replay"}, limit \in Limits :
       operator' = [operator EXCEPT ![o] =
                      [pc |-> "get", op |-> op, left |-> limit, copy |-> None]]
  /\ UNCHANGED <<published, queue, retry, parking, consumer, notified, failed, purged, crashes>>

(* channel.get, or the end of the loop *)
Get(o) ==
  /\ operator[o].pc = "get"
  /\ \/ /\ operator[o].left = 0 \/ parking = <<>>
        /\ operator' = [operator EXCEPT ![o] = IdleOperator]
        /\ UNCHANGED parking
     \/ /\ operator[o].left > 0 /\ parking # <<>>
        /\ operator' = [operator EXCEPT
             ![o].pc = IF operator[o].op = "peek" THEN "requeue" ELSE "replay",
             ![o].copy = Head(parking)]
        /\ parking' = Tail(parking)
  /\ UNCHANGED <<published, queue, retry, consumer, notified, failed, purged, crashes>>

NextTurn(o) ==
  operator' = [operator EXCEPT ![o].pc = "get", ![o].copy = None,
                               ![o].left = IF @ = 0 THEN 0 ELSE @ - 1]

(* nack with requeue, which puts the message back where it was. *)
PutBack(o) ==
  /\ operator[o].pc = "requeue"
  /\ parking' = <<operator[o].copy>> \o parking
  /\ NextTurn(o)
  /\ UNCHANGED <<published, queue, retry, consumer, notified, failed, purged, crashes>>

(* Mutant of Replayed: x-death is not removed. *)
ReplayedWorn(c) == [c EXCEPT !.key = c.original, !.original = None]

(* The message as it is published again, without its history. *)
Replayed(c) ==
  [c EXCEPT !.deaths = 0, !.original = None,
            !.key = IF c.original # None THEN c.original ELSE c.key]

Replay(o) ==
  /\ operator[o].pc = "replay"
  /\ queue' = Routed(queue, Replayed(operator[o].copy))
  /\ failed' = [failed EXCEPT ![operator[o].copy.m] = 0]
  /\ operator' = [operator EXCEPT ![o].pc = "ack"]
  /\ UNCHANGED <<published, retry, parking, consumer, notified, purged, crashes>>

AckReplayed(o) ==
  /\ operator[o].pc = "ack"
  /\ NextTurn(o)
  /\ UNCHANGED <<published, queue, retry, parking, consumer, notified, failed, purged, crashes>>

EventsIn(q) == {q[i].m : i \in DOMAIN q}

(* DELETE /admin/parking: what an operator holds is not in the queue. *)
Purge ==
  /\ parking # <<>>
  /\ purged' = purged \cup EventsIn(parking)
  /\ parking' = <<>>
  /\ UNCHANGED <<published, queue, retry, consumer, operator, notified, failed, crashes>>

-----------------------------------------------------------------------------
(* The process dies and is started again; the broker takes back, one by    *)
(* one, the messages that were not acked.                                  *)
Crash ==
  /\ crashes < MaxCrashes
  /\ crashes' = crashes + 1
  /\ consumer' = [consumer EXCEPT !.pc = IF @ = "idle" THEN "idle" ELSE "requeue"]
  /\ operator' = [o \in Operators |->
       IF operator[o].copy = None THEN IdleOperator
       ELSE [operator[o] EXCEPT !.pc = "requeue", !.left = 0]]
  /\ UNCHANGED <<published, queue, retry, parking, notified, failed, purged>>

(* Mutant of Requeue: deliveries are acked when they are made. *)
RequeueForgets ==
  /\ consumer.pc = "requeue"
  /\ consumer' = IdleConsumer
  /\ UNCHANGED <<published, queue, retry, parking, operator, notified, failed, purged, crashes>>

Requeue ==
  /\ consumer.pc = "requeue"
  /\ queue' = <<consumer.copy>> \o queue
  /\ consumer' = IdleConsumer
  /\ UNCHANGED <<published, retry, parking, operator, notified, failed, purged, crashes>>

ConsumerStep ==
  \/ Deliver \/ Send \/ SendFails \/ RetryLater \/ Park \/ Ack \/ Requeue

OperatorStep(o) == Get(o) \/ PutBack(o) \/ Replay(o) \/ AckReplayed(o)

Next ==
  \/ \E m \in Messages : Publish(m)
  \/ ConsumerStep
  \/ Expire
  \/ \E o \in Operators : Request(o) \/ OperatorStep(o)
  \/ Purge
  \/ Crash

Spec == Init /\ [][Next]_vars

(* The event loop and the broker go on; nobody has to publish, to send a   *)
(* request or to crash, and a send may fail every time.                    *)
Fairness ==
  /\ WF_vars(ConsumerStep)
  /\ WF_vars(Expire)
  /\ \A o \in Operators : WF_vars(OperatorStep(o))

FairSpec == Spec /\ Fairness

-----------------------------------------------------------------------------
(* The variables have their types; in particular no copy in the broker has *)
(* died more than MaxRetries times.                                        *)
TypeOK ==
  /\ published \subseteq Messages
  /\ queue \in Seq(Copy) /\ retry \in Seq(Copy) /\ parking \in Seq(Copy)
  /\ consumer \in Consumer
  /\ operator \in [Operators -> Operator]
  /\ notified \in [Messages -> SUBSET {"first", "second"}]
  /\ failed \in [Messages -> Nat]
  /\ purged \subseteq Messages
  /\ crashes \in 0..MaxCrashes

Held(holder, m) == holder.copy # None /\ holder.copy.m = m

InBroker(m) ==
  \/ m \in EventsIn(queue) \cup EventsIn(retry) \cup EventsIn(parking)
  \/ Held(consumer, m)
  \/ \E o \in Operators : Held(operator[o], m)

Delivered(m) == notified[m] = Sends(m)

(* At least once: an event is in the broker until every notification of it *)
(* is sent, unless an operator purges it, wherever the process dies.       *)
NothingLost ==
  \A m \in published : InBroker(m) \/ Delivered(m) \/ m \in purged

(* The inductive invariant.  Whatever the copy of an event that is counted *)
(* below does next, it leaves another behind, or the event is delivered or *)
(* purged: so no ack, however late, is for the last copy.  For that every  *)
(* copy must be routable, hence the shapes of the copies in each queue.    *)
Waiting == {c \in Copy : c.key = "event" /\ c.original = None}

Retrying == {c \in Waiting : c.deaths < MaxRetries}

Parked == {c \in Copy : c.key = "parking" /\ c.original = "event"}

Secured(m) ==
  \/ m \in EventsIn(queue) \cup EventsIn(retry) \cup EventsIn(parking)
  \/ Held(consumer, m) /\ consumer.pc # "ack"
  \/ \E o \in Operators : Held(operator[o], m) /\ operator[o].pc # "ack"

Shape ==
  /\ TypeOK
  /\ queue \in Seq(Waiting) /\ retry \in Seq(Retrying) /\ parking \in Seq(Parked)
  /\ IF consumer.pc = "idle" THEN consumer.copy = None ELSE consumer.copy \in Waiting
  /\ consumer.pc = "retry" => consumer.copy \in Retrying
  /\ consumer.pc = "second" => "first" \in notified[consumer.copy.m]
  /\ consumer.pc = "second" => consumer.copy.m \in Double
  /\ \A o \in Operators :
       IF operator[o].pc \in {"idle", "get"} THEN operator[o].copy = None
                                           ELSE operator[o].copy \in Parked
  /\ \A m \in Messages : notified[m] \subseteq Sends(m)

Safe(m) == Secured(m) \/ Delivered(m) \/ m \in purged

Inv == Shape /\ \A m \in published : Safe(m)

(* How many copies of an event there are; one that has been published on   *)
(* and waits only for its ack is counted where it has gone.                *)
Count(q, m) == Cardinality({i \in DOMAIN q : q[i].m = m})

Copies(m) ==
  Count(queue, m) + Count(retry, m) + Count(parking, m)
  + (IF Held(consumer, m) /\ consumer.pc # "ack" THEN 1 ELSE 0)
  + Cardinality({o \in Operators : Held(operator[o], m) /\ operator[o].pc # "ack"})

(* Retries, parking, peeking and replaying move a message and never        *)
(* multiply it: there is more than one copy only by a crash between a      *)
(* publish and its ack, and one more at most for each ack then pending.    *)
DuplicatesNeedCrash ==
  \A m \in Messages : Copies(m) <= 1 + crashes * (1 + Cardinality(Operators))

(* "Four attempts logged as 1/4 through 4/4, then the message parked", and *)
(* "a replayed message gets a full fresh retry budget" (README.md:793,     *)
(* 806): while the process has not died, an event that is not poison is    *)
(* parked after exactly MaxRetries + 1 failures since it was published or  *)
(* last replayed.                                                          *)
FullLadder ==
  crashes = 0 => \A m \in EventsIn(parking) \ Poison : failed[m] = MaxRetries + 1

(* The service implements Delivery: an event is open while the broker has  *)
(* a copy of it anywhere, one that only waits for its ack included.        *)
Mailbox == INSTANCE Delivery WITH
             open <- {m \in Messages : InBroker(m)},
             Needed <- [m \in Messages |-> Sends(m)]

(* At least once, and only while it matters: an event leaves the broker    *)
(* when it is notified or purged and not before, whatever an ack, a replay *)
(* or a crash comes between; and no redelivery or replay brings one back   *)
(* that has left it.                                                       *)
DeliversAtLeastOnce == Mailbox!Spec

(* Every event ends notified, parked or purged, even if no send ever       *)
(* succeeds and operators replay it again and again.                       *)
EventuallySettled ==
  \A m \in Messages :
    (m \in published) ~> (Delivered(m) \/ m \in EventsIn(parking) \/ m \in purged)
=============================================================================
