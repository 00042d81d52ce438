------------------------ MODULE NotificationsProofs -------------------------
(***************************************************************************)
(* Proofs about Notifications: for any events, retry limit, number of open *)
(* admin requests and number of crashes.                                   *)
(***************************************************************************)
EXTENDS Notifications, SequenceTheorems, FiniteSetTheorems, TLAPS

(* The copies of a queue, and so its events, after each of the ways a      *)
(* queue changes.                                                          *)
CopiesIn(q) == {q[i] : i \in DOMAIN q}

LEMMA EventsOfCopies == \A q : EventsIn(q) = {c.m : c \in CopiesIn(q)}
BY DEF EventsIn, CopiesIn

LEMMA CopiesInAppend ==
  ASSUME NEW S, NEW q \in Seq(S), NEW c \in S
  PROVE  Append(q, c) \in Seq(S) /\ CopiesIn(Append(q, c)) = CopiesIn(q) \cup {c}
<1> DEFINE a == Append(q, c)
<1>1. /\ a \in Seq(S) /\ Len(a) = Len(q) + 1 /\ a[Len(q) + 1] = c
      /\ \A i \in 1..Len(q) : a[i] = q[i]
  BY AppendProperties
<1>2. DOMAIN q = 1..Len(q) /\ DOMAIN a = 1..(Len(q) + 1) /\ Len(q) \in Nat
  BY <1>1
<1>3. DOMAIN a = DOMAIN q \cup {Len(q) + 1}
  BY <1>2
<1> HIDE DEF a
<1>4. CopiesIn(a) = CopiesIn(q) \cup {c}
  BY <1>1, <1>2, <1>3 DEF CopiesIn
<1> QED
  BY <1>1, <1>4 DEF a

(* A message that is put back at the head. *)
LEMMA CopiesInPush ==
  ASSUME NEW S, NEW q \in Seq(S), NEW c \in S
  PROVE  <<c>> \o q \in Seq(S) /\ CopiesIn(<<c>> \o q) = CopiesIn(q) \cup {c}
<1> DEFINE a == <<c>> \o q
<1>1. <<c>> \in Seq(S) /\ Len(<<c>>) = 1 /\ <<c>>[1] = c
  OBVIOUS
<1>2. /\ a \in Seq(S) /\ Len(a) = 1 + Len(q)
      /\ \A i \in 1..(1 + Len(q)) : a[i] = IF i <= 1 THEN <<c>>[i] ELSE q[i - 1]
  BY <1>1, ConcatProperties
<1>3. DOMAIN q = 1..Len(q) /\ DOMAIN a = 1..(1 + Len(q)) /\ Len(q) \in Nat
  BY <1>2
<1> HIDE DEF a
<1>4. a[1] = c /\ 1 \in DOMAIN a
  BY <1>1, <1>2, <1>3
<1>5. \A i \in DOMAIN q : i + 1 \in DOMAIN a /\ a[i + 1] = q[i]
  BY <1>2, <1>3
<1>6. \A i \in DOMAIN a : i = 1 \/ (i - 1 \in DOMAIN q /\ a[i] = q[i - 1])
  BY <1>2, <1>3
<1>7. CopiesIn(a) = CopiesIn(q) \cup {c}
  BY <1>4, <1>5, <1>6 DEF CopiesIn
<1> QED
  BY <1>2, <1>7 DEF a

(* A message that is taken from the head. *)
LEMMA CopiesInPop ==
  ASSUME NEW S, NEW q \in Seq(S), q # <<>>
  PROVE  /\ Head(q) \in S /\ Tail(q) \in Seq(S)
         /\ CopiesIn(q) = CopiesIn(Tail(q)) \cup {Head(q)}
<1> DEFINE t == Tail(q)
<1>1. /\ Head(q) \in S /\ t \in Seq(S) /\ Len(t) = Len(q) - 1
      /\ \A i \in 1..Len(t) : t[i] = q[i + 1]
  BY HeadTailProperties
<1>2. /\ DOMAIN q = 1..Len(q) /\ DOMAIN t = 1..(Len(q) - 1)
      /\ Len(q) \in Nat /\ Len(q) > 0 /\ Head(q) = q[1]
  BY <1>1
<1> HIDE DEF t
<1>3. \A i \in DOMAIN t : i + 1 \in DOMAIN q /\ t[i] = q[i + 1]
  BY <1>1, <1>2
<1>4. \A i \in DOMAIN q : i = 1 \/ (i - 1 \in DOMAIN t /\ q[i] = t[i - 1])
  BY <1>1, <1>2
<1>5. 1 \in DOMAIN q
  BY <1>2
<1>6. CopiesIn(q) = CopiesIn(t) \cup {q[1]}
  BY <1>3, <1>4, <1>5 DEF CopiesIn
<1> QED
  BY <1>1, <1>2, <1>6 DEF t

LEMMA EventsInAppend ==
  ASSUME NEW S, NEW q \in Seq(S), NEW c \in S
  PROVE  Append(q, c) \in Seq(S) /\ EventsIn(Append(q, c)) = EventsIn(q) \cup {c.m}
BY CopiesInAppend, EventsOfCopies

LEMMA EventsInPush ==
  ASSUME NEW S, NEW q \in Seq(S), NEW c \in S
  PROVE  <<c>> \o q \in Seq(S) /\ EventsIn(<<c>> \o q) = EventsIn(q) \cup {c.m}
BY CopiesInPush, EventsOfCopies

LEMMA EventsInPop ==
  ASSUME NEW S, NEW q \in Seq(S), q # <<>>
  PROVE  /\ Head(q) \in S /\ Tail(q) \in Seq(S)
         /\ EventsIn(q) = EventsIn(Tail(q)) \cup {Head(q).m}
BY CopiesInPop, EventsOfCopies

(* An empty queue holds no event. *)
LEMMA EventsInNothing == EventsIn(<<>>) = {} /\ CopiesIn(<<>>) = {}
BY DEF EventsIn, CopiesIn

(* What is done to a copy gives it the shape of the queue it goes to. *)
LEMMA Shapes ==
  /\ \A m \in Messages : Fresh(m) \in Waiting
  /\ \A c \in Retrying : Died(c) \in Waiting
  /\ \A c \in Waiting : c.deaths < MaxRetries => c \in Retrying
  /\ \A c \in Waiting : AsParked(c) \in Parked
  /\ \A c \in Parked : Replayed(c) \in Waiting
  /\ Waiting \subseteq Copy /\ Retrying \subseteq Waiting /\ Parked \subseteq Copy
<1>1. \A m \in Messages : Fresh(m) \in Waiting
  BY BoundsAssumption DEF Fresh, Waiting, Copy, Keys
<1>2. \A c \in Retrying : Died(c) \in Waiting
  BY BoundsAssumption DEF Died, Retrying, Waiting, Copy, Keys
<1>3. \A c \in Waiting : AsParked(c) \in Parked
  BY DEF AsParked, Waiting, Parked, Copy, Keys
<1>4. \A c \in Parked : Replayed(c) \in Waiting
  <2> SUFFICES ASSUME NEW c \in Parked PROVE Replayed(c) \in Waiting
    OBVIOUS
  <2>1. c.original = "event" /\ c \in Copy /\ "event" # None
    BY NoneAssumption DEF Parked
  <2>2. Replayed(c) = [c EXCEPT !.deaths = 0, !.original = None, !.key = "event"]
    BY <2>1 DEF Replayed
  <2>3. Replayed(c) = [m |-> c.m, deaths |-> 0, key |-> "event", original |-> None]
    BY <2>1, <2>2 DEF Copy
  <2> QED
    BY <2>1, <2>3, BoundsAssumption DEF Waiting, Copy, Keys
<1> QED
  BY <1>1, <1>2, <1>3, <1>4 DEF Retrying, Waiting, Parked

(* What is done to a copy leaves its event alone. *)
LEMMA ShapesKeepEvent ==
  /\ \A m \in Messages : Fresh(m).m = m
  /\ \A c \in Copy : /\ Died(c).m = c.m
                     /\ AsParked(c).m = c.m
                     /\ Replayed(c).m = c.m
BY DEF Fresh, Died, AsParked, Replayed, Copy

(* Who holds None holds no message. *)
LEMMA NoneIsNoCopy == None \notin Copy
BY NoneAssumption DEF Copy, Keys

(* A queue of copies of one shape is a queue of copies. *)
LEMMA SeqOfCopies ==
  /\ Seq(Waiting) \subseteq Seq(Copy) /\ Seq(Retrying) \subseteq Seq(Copy)
  /\ Seq(Parked) \subseteq Seq(Copy)
BY Shapes, SeqMonotonic

(* The initial states satisfy the invariant. *)
LEMMA InitInv == Init => Inv
<1> SUFFICES ASSUME Init PROVE Inv
  OBVIOUS
<1>1. TypeOK
  BY BoundsAssumption DEF Init, TypeOK, Consumer, IdleConsumer, Operator, IdleOperator
<1>2. Shape
  BY <1>1 DEF Shape, Init, IdleConsumer, IdleOperator
<1> QED
  BY <1>2 DEF Inv, Init

(* One lemma for each step: where the copy goes, then the shapes, then that *)
(* no event has become unsafe.                                              *)
LEMMA PublishKeeps == ASSUME Inv, NEW n \in Messages, Publish(n) PROVE Inv'
<1>1. Fresh(n) \in Waiting /\ Fresh(n).m = n /\ Fresh(n).key = "event"
  BY Shapes, ShapesKeepEvent DEF Fresh
<1>2. queue \in Seq(Waiting)
  BY DEF Inv, Shape
<1>3. queue' = Append(queue, Fresh(n))
  BY <1>1 DEF Publish, Routed
<1>4. queue' \in Seq(Waiting) /\ EventsIn(queue') = EventsIn(queue) \cup {n}
  BY <1>1, <1>2, <1>3, EventsInAppend
<1>5. TypeOK'
  BY <1>4, SeqOfCopies DEF Inv, Shape, TypeOK, Publish
<1>6. Shape'
  BY <1>4, <1>5 DEF Inv, Shape, Publish, Retrying, Waiting, Parked
<1>7. ASSUME NEW m \in published' PROVE Safe(m)'
  BY <1>4, <1>7 DEF Inv, Publish, Safe, Secured, Delivered, Held, EventsIn
<1> QED
  BY <1>6, <1>7 DEF Inv

(* A delivery goes from the queue to the consumer. *)
LEMMA DeliverKeeps == ASSUME Inv, Deliver PROVE Inv'
<1> PICK c : c = Head(queue)
  OBVIOUS
<1>1. queue \in Seq(Waiting) /\ queue # <<>>
  BY DEF Inv, Shape, Deliver
<1>2. /\ c \in Waiting /\ queue' \in Seq(Waiting)
      /\ EventsIn(queue) = EventsIn(queue') \cup {c.m}
  BY <1>1, EventsInPop DEF Deliver
<1>3. /\ consumer'.copy = c /\ consumer'.pc \in {"park", "first"}
      /\ consumer' \in Consumer
  BY <1>2, Shapes DEF Deliver, Consumer
<1>4. consumer.copy = None
  BY DEF Inv, Shape, Deliver
<1>5. TypeOK'
  BY <1>2, <1>3, SeqOfCopies DEF Inv, Shape, TypeOK, Deliver
<1>6. Shape'
  BY <1>2, <1>3, <1>5 DEF Inv, Shape, Deliver, Retrying, Waiting, Parked
<1>7. c # None
  BY <1>2, NoneIsNoCopy, Shapes
<1>8. /\ EventsIn(queue) \subseteq EventsIn(queue)' \cup {c.m}
      /\ EventsIn(retry)' = EventsIn(retry) /\ EventsIn(parking)' = EventsIn(parking)
  BY <1>2 DEF Deliver, EventsIn
<1>9. ASSUME NEW m \in published' PROVE Safe(m)'
  <2>1. Safe(m)
    BY <1>9 DEF Inv, Deliver
  <2>2. Held(consumer, c.m)' /\ consumer'.pc # "ack" /\ ~Held(consumer, m)
    BY <1>3, <1>4, <1>7 DEF Held
  <2> QED
    BY <2>1, <2>2, <1>8 DEF Deliver, Safe, Secured, Delivered, Held
<1> QED
  BY <1>6, <1>9 DEF Inv

(* A send that succeeds leaves the copy with the consumer until all sends  *)
(* have, and then the event is delivered.                                  *)
LEMMA SendKeeps == ASSUME Inv, Send PROVE Inv'
<1> PICK c : c = consumer.copy
  OBVIOUS
<1>1. /\ c \in Waiting /\ c \in Copy /\ c # None /\ c.m \in Messages
      /\ consumer \in Consumer /\ consumer.pc \in {"first", "second"}
  BY Shapes, NoneIsNoCopy DEF Inv, Shape, TypeOK, Send, Copy
<1>2. /\ consumer'.copy = c /\ consumer' \in Consumer
      /\ consumer'.pc = IF consumer.pc = "first" /\ c.m \in Double THEN "second" ELSE "ack"
  BY <1>1 DEF Send, Become, Consumer
<1>3. notified' = [notified EXCEPT ![c.m] = @ \cup {consumer.pc}]
  BY DEF Send
<1>4. /\ notified \in [Messages -> SUBSET {"first", "second"}]
      /\ \A m \in Messages : notified[m] \subseteq Sends(m)
  BY DEF Inv, Shape, TypeOK
<1>5. /\ notified' \in [Messages -> SUBSET {"first", "second"}]
      /\ \A m \in Messages : m # c.m => notified'[m] = notified[m]
      /\ notified'[c.m] = notified[c.m] \cup {consumer.pc}
  BY <1>1, <1>3, <1>4
<1>6. consumer.pc = "second" => c.m \in Double /\ "first" \in notified[c.m]
  BY DEF Inv, Shape
<1>7. notified'[c.m] \subseteq Sends(c.m)
  BY <1>1, <1>4, <1>5, <1>6 DEF Sends
<1>8. TypeOK'
  BY <1>2, <1>5 DEF Inv, Shape, TypeOK, Send
<1>9. Shape'
  BY <1>1, <1>2, <1>4, <1>5, <1>7, <1>8
  DEF Inv, Shape, Send, Retrying, Waiting, Parked, Sends
<1>10. consumer'.pc = "ack" => notified'[c.m] = Sends(c.m)
  BY <1>1, <1>2, <1>5, <1>6, <1>7 DEF Sends
<1>11. ASSUME NEW m \in published' PROVE Safe(m)'
  <2>1. Safe(m) /\ m \in Messages
    BY <1>11 DEF Inv, Shape, TypeOK, Send
  <2>2. Delivered(m) => Delivered(m)'
    BY <2>1, <1>1, <1>4, <1>5, <1>7 DEF Delivered
  <2>3. /\ EventsIn(queue)' = EventsIn(queue) /\ EventsIn(retry)' = EventsIn(retry)
        /\ EventsIn(parking)' = EventsIn(parking)
    BY DEF Send, EventsIn
  <2>4. Held(consumer, m) => Held(consumer, m)' /\ (consumer'.pc = "ack" => Delivered(m)')
    BY <1>2, <1>10 DEF Held, Delivered
  <2> QED
    BY <2>1, <2>2, <2>3, <2>4 DEF Send, Safe, Secured, Held
<1> QED
  BY <1>9, <1>11 DEF Inv

(* A send that fails leaves the copy with the consumer, to be retried      *)
(* only while it has retries left.                                         *)
LEMMA SendFailsKeeps == ASSUME Inv, SendFails PROVE Inv'
<1> PICK c : c = consumer.copy
  OBVIOUS
<1>0. c \in Waiting /\ consumer \in Consumer /\ failed \in [Messages -> Nat]
  BY DEF Inv, Shape, TypeOK, SendFails
<1>1. c \in Copy /\ c.m \in Messages /\ c.deaths \in Nat
  BY <1>0, Shapes, BoundsAssumption DEF Copy
<1>2. /\ consumer'.copy = c /\ consumer' \in Consumer
      /\ consumer'.pc = IF c.deaths >= MaxRetries THEN "park" ELSE "retry"
  BY <1>0 DEF SendFails, Become, Consumer
<1>3. failed' = [failed EXCEPT ![c.m] = @ + 1] /\ failed' \in [Messages -> Nat]
  BY <1>0, <1>1 DEF SendFails
<1>4. consumer'.pc = "retry" => c \in Retrying
  BY <1>0, <1>1, <1>2, BoundsAssumption DEF Retrying
<1>5. TypeOK'
  BY <1>2, <1>3 DEF Inv, Shape, TypeOK, SendFails
<1>6. Shape'
  BY <1>0, <1>2, <1>4, <1>5 DEF Inv, Shape, SendFails, Retrying, Waiting, Parked, Sends
<1>7. ASSUME NEW m \in published' PROVE Safe(m)'
  <2>1. Safe(m)
    BY <1>7 DEF Inv, SendFails
  <2>2. /\ EventsIn(queue)' = EventsIn(queue) /\ EventsIn(retry)' = EventsIn(retry)
        /\ EventsIn(parking)' = EventsIn(parking)
    BY DEF SendFails, EventsIn
  <2> QED
    BY <2>1, <2>2, <1>2 DEF SendFails, Safe, Secured, Held, Delivered
<1> QED
  BY <1>6, <1>7 DEF Inv

(* The copy is in the retry queue before the ack. *)
LEMMA RetryLaterKeeps == ASSUME Inv, RetryLater PROVE Inv'
<1> PICK c : c = consumer.copy
  OBVIOUS
<1>1. /\ c \in Retrying /\ c.key = "event" /\ consumer \in Consumer
      /\ retry \in Seq(Retrying)
  BY Shapes DEF Inv, Shape, TypeOK, RetryLater, Retrying, Waiting
<1>2. consumer'.copy = c /\ consumer' \in Consumer /\ consumer'.pc = "ack"
  BY <1>1 DEF RetryLater, Become, Consumer
<1>3. retry' = Append(retry, c)
  BY <1>1 DEF RetryLater, Routed
<1>4. retry' \in Seq(Retrying) /\ EventsIn(retry') = EventsIn(retry) \cup {c.m}
  BY <1>1, <1>3, EventsInAppend
<1>5. TypeOK'
  BY <1>2, <1>4, SeqOfCopies DEF Inv, Shape, TypeOK, RetryLater
<1>6. Shape'
  BY <1>1, <1>2, <1>4, <1>5 DEF Inv, Shape, RetryLater, Retrying, Waiting, Parked, Sends
<1>7. ASSUME NEW m \in published' PROVE Safe(m)'
  <2>1. Safe(m)
    BY <1>7 DEF Inv, RetryLater
  <2>2. /\ EventsIn(queue)' = EventsIn(queue) /\ EventsIn(parking)' = EventsIn(parking)
        /\ EventsIn(retry)' = EventsIn(retry) \cup {c.m}
    BY <1>4 DEF RetryLater, EventsIn
  <2>3. Held(consumer, m) => m = c.m
    BY DEF Held
  <2> QED
    BY <2>1, <2>2, <2>3 DEF RetryLater, Safe, Secured, Held, Delivered
<1> QED
  BY <1>6, <1>7 DEF Inv

(* The copy is in the parking queue before the ack. *)
LEMMA ParkKeeps == ASSUME Inv, Park PROVE Inv'
<1> PICK c : c = consumer.copy
  OBVIOUS
<1> PICK d : d = AsParked(c)
  OBVIOUS
<1>1. /\ c \in Waiting /\ c \in Copy /\ consumer \in Consumer
      /\ parking \in Seq(Parked)
  BY Shapes DEF Inv, Shape, TypeOK, Park
<1>2. d \in Parked /\ d.m = c.m
  BY <1>1, Shapes, ShapesKeepEvent
<1>3. consumer'.copy = c /\ consumer' \in Consumer /\ consumer'.pc = "ack"
  BY <1>1 DEF Park, Become, Consumer
<1>4. parking' = Append(parking, d)
  BY DEF Park
<1>5. parking' \in Seq(Parked) /\ EventsIn(parking') = EventsIn(parking) \cup {c.m}
  BY <1>1, <1>2, <1>4, EventsInAppend
<1>6. TypeOK'
  BY <1>3, <1>5, SeqOfCopies DEF Inv, Shape, TypeOK, Park
<1>7. Shape'
  BY <1>1, <1>3, <1>5, <1>6 DEF Inv, Shape, Park, Retrying, Waiting, Parked, Sends
<1>8. ASSUME NEW m \in published' PROVE Safe(m)'
  <2>1. Safe(m)
    BY <1>8 DEF Inv, Park
  <2>2. /\ EventsIn(queue)' = EventsIn(queue) /\ EventsIn(retry)' = EventsIn(retry)
        /\ EventsIn(parking)' = EventsIn(parking) \cup {c.m}
    BY <1>5 DEF Park, EventsIn
  <2>3. Held(consumer, m) => m = c.m
    BY DEF Held
  <2> QED
    BY <2>1, <2>2, <2>3 DEF Park, Safe, Secured, Held, Delivered
<1> QED
  BY <1>7, <1>8 DEF Inv

(* The ack removes a copy that nothing depends on any more. *)
LEMMA AckKeeps == ASSUME Inv, Ack PROVE Inv'
<1>1. consumer' \in Consumer /\ consumer'.pc = "idle" /\ consumer'.copy = None
  BY DEF Ack, IdleConsumer, Consumer
<1>2. TypeOK'
  BY <1>1 DEF Inv, Shape, TypeOK, Ack
<1>3. Shape'
  BY <1>1, <1>2 DEF Inv, Shape, Ack, Retrying, Waiting, Parked, Sends
<1>4. ASSUME NEW m \in published' PROVE Safe(m)'
  BY <1>4 DEF Inv, Ack, Safe, Secured, Held, Delivered, EventsIn
<1> QED
  BY <1>3, <1>4 DEF Inv

(* What the broker takes back is in the queue again. *)
LEMMA RequeueKeeps == ASSUME Inv, Requeue PROVE Inv'
<1> PICK c : c = consumer.copy
  OBVIOUS
<1>1. c \in Waiting /\ queue \in Seq(Waiting)
  BY DEF Inv, Shape, Requeue
<1>2. queue' = <<c>> \o queue
  BY DEF Requeue
<1>3. queue' \in Seq(Waiting) /\ EventsIn(queue') = EventsIn(queue) \cup {c.m}
  BY <1>1, <1>2, EventsInPush
<1>4. consumer' \in Consumer /\ consumer'.pc = "idle" /\ consumer'.copy = None
  BY DEF Requeue, IdleConsumer, Consumer
<1>5. TypeOK'
  BY <1>3, <1>4, SeqOfCopies DEF Inv, Shape, TypeOK, Requeue
<1>6. Shape'
  BY <1>3, <1>4, <1>5 DEF Inv, Shape, Requeue, Retrying, Waiting, Parked, Sends
<1>7. ASSUME NEW m \in published' PROVE Safe(m)'
  <2>1. Safe(m)
    BY <1>7 DEF Inv, Requeue
  <2>2. /\ EventsIn(queue)' = EventsIn(queue) \cup {c.m}
        /\ EventsIn(retry)' = EventsIn(retry) /\ EventsIn(parking)' = EventsIn(parking)
    BY <1>3 DEF Requeue, EventsIn
  <2>3. Held(consumer, m) => m = c.m
    BY DEF Held
  <2> QED
    BY <2>1, <2>2, <2>3 DEF Requeue, Safe, Secured, Held, Delivered
<1> QED
  BY <1>6, <1>7 DEF Inv

(* The retry queue dead-letters its head: it leaves one copy for another. *)
LEMMA ExpireKeeps == ASSUME Inv, Expire PROVE Inv'
<1> PICK c : c = Head(retry)
  OBVIOUS
<1> PICK d : d = Died(c)
  OBVIOUS
<1>1. queue \in Seq(Waiting) /\ retry \in Seq(Retrying) /\ retry # <<>>
  BY DEF Inv, Shape, Expire
<1>2. /\ c \in Retrying /\ retry' \in Seq(Retrying)
      /\ EventsIn(retry) = EventsIn(retry') \cup {c.m}
  BY <1>1, EventsInPop DEF Expire
<1>3. d \in Waiting /\ d.m = c.m
  BY <1>2, Shapes, ShapesKeepEvent
<1>4. queue' = Append(queue, d)
  BY <1>3 DEF Expire, Routed, Waiting
<1>5. queue' \in Seq(Waiting) /\ EventsIn(queue') = EventsIn(queue) \cup {c.m}
  BY <1>1, <1>3, <1>4, EventsInAppend
<1>6. TypeOK'
  BY <1>2, <1>5, SeqOfCopies DEF Inv, Shape, TypeOK, Expire
<1>7. Shape'
  BY <1>2, <1>5, <1>6 DEF Inv, Shape, Expire, Retrying, Waiting, Parked, Sends
<1>8. ASSUME NEW m \in published' PROVE Safe(m)'
  <2>1. Safe(m)
    BY <1>8 DEF Inv, Expire
  <2>2. /\ EventsIn(queue)' = EventsIn(queue) \cup {c.m}
        /\ EventsIn(retry) = EventsIn(retry)' \cup {c.m}
        /\ EventsIn(parking)' = EventsIn(parking)
    BY <1>2, <1>5 DEF Expire, EventsIn
  <2> QED
    BY <2>1, <2>2 DEF Expire, Safe, Secured, Held, Delivered
<1> QED
  BY <1>7, <1>8 DEF Inv

(* The operators' steps. *)
LEMMA RequestKeeps ==
  ASSUME Inv, NEW n \in Operators, Request(n) PROVE Inv'
<1>1. PICK op \in {"peek", "replay"}, limit \in Limits :
        operator' = [operator EXCEPT ![n] =
                       [pc |-> "get", op |-> op, left |-> limit, copy |-> None]]
  BY DEF Request
<1> PICK r : r = [pc |-> "get", op |-> op, left |-> limit, copy |-> None]
  OBVIOUS
<1>2. operator' = [operator EXCEPT ![n] = r]
  BY <1>1
<1>3. r \in Operator /\ r.pc = "get" /\ r.copy = None
  BY BoundsAssumption DEF Operator
<1>4. /\ operator \in [Operators -> Operator] /\ operator[n].pc = "idle"
      /\ operator[n].copy = None
  BY DEF Inv, Shape, TypeOK, Request
<1>5. /\ operator' \in [Operators -> Operator] /\ operator'[n] = r
      /\ \A o \in Operators : o # n => operator'[o] = operator[o]
  BY <1>2, <1>3, <1>4
<1>6. TypeOK'
  BY <1>5 DEF Inv, Shape, TypeOK, Request
<1>7. Shape'
  BY <1>3, <1>5, <1>6 DEF Inv, Shape, Request, Retrying, Waiting, Parked, Sends
<1>8. ASSUME NEW m \in published' PROVE Safe(m)'
  <2>1. Safe(m)
    BY <1>8 DEF Inv, Request
  <2>2. /\ EventsIn(queue)' = EventsIn(queue) /\ EventsIn(retry)' = EventsIn(retry)
        /\ EventsIn(parking)' = EventsIn(parking)
    BY DEF Request, EventsIn
  <2>3. ~Held(operator[n], m)
    BY <1>4 DEF Held
  <2> QED
    BY <2>1, <2>2, <2>3, <1>5 DEF Request, Safe, Secured, Held, Delivered
<1> QED
  BY <1>7, <1>8 DEF Inv

(* An operator takes the head of the parking queue, or is done. *)
LEMMA GetKeeps == ASSUME Inv, NEW n \in Operators, Get(n) PROVE Inv'
<1>1. /\ operator \in [Operators -> Operator] /\ operator[n] \in Operator
      /\ operator[n].pc = "get" /\ operator[n].copy = None /\ parking \in Seq(Parked)
  BY DEF Inv, Shape, TypeOK, Get
<1>0. UNCHANGED <<published, queue, retry, consumer, notified, failed, purged, crashes>>
  BY DEF Get
<1>2. CASE operator[n].left = 0 \/ parking = <<>>
  <2>1. operator' = [operator EXCEPT ![n] = IdleOperator] /\ UNCHANGED parking
    BY <1>2, <1>1 DEF Get, Operator
  <2>2. /\ operator' \in [Operators -> Operator] /\ operator'[n] = IdleOperator
        /\ \A o \in Operators : o # n => operator'[o] = operator[o]
    BY <2>1, <1>1 DEF IdleOperator, Operator
  <2>3. operator'[n].pc = "idle" /\ operator'[n].copy = None
    BY <2>2 DEF IdleOperator
  <2>4. TypeOK'
    BY <2>1, <2>2 DEF Inv, Shape, TypeOK, Get
  <2>5. Shape'
    BY <2>1, <2>2, <2>3, <2>4 DEF Inv, Shape, Get, Retrying, Waiting, Parked, Sends
  <2>6. ASSUME NEW m \in published' PROVE Safe(m)'
    <3>1. Safe(m)
      BY <2>6 DEF Inv, Get
    <3>2. /\ EventsIn(queue)' = EventsIn(queue) /\ EventsIn(retry)' = EventsIn(retry)
          /\ EventsIn(parking)' = EventsIn(parking)
      BY <2>1 DEF Get, EventsIn
    <3>3. ~Held(operator[n], m)
      BY <1>1 DEF Held
    <3> QED
      BY <3>1, <3>2, <3>3, <2>2 DEF Get, Safe, Secured, Held, Delivered
  <2> QED
    BY <2>5, <2>6 DEF Inv
<1>3. CASE operator[n].left > 0 /\ parking # <<>>
  <2> PICK c : c = Head(parking)
    OBVIOUS
  <2>1. /\ operator' = [operator EXCEPT
             ![n].pc = IF operator[n].op = "peek" THEN "requeue" ELSE "replay",
             ![n].copy = c]
        /\ parking' = Tail(parking)
    BY <1>3, <1>1 DEF Get, Operator
  <2>2. /\ c \in Parked /\ parking' \in Seq(Parked)
        /\ EventsIn(parking) = EventsIn(parking') \cup {c.m}
    BY <2>1, <1>1, <1>3, EventsInPop
  <2>3. c \in Copy /\ c # None
    BY <2>2, Shapes, NoneIsNoCopy
  <2>4. /\ operator'[n].pc \in {"requeue", "replay"} /\ operator'[n].copy = c
        /\ operator'[n] \in Operator
    BY <2>1, <2>3, <1>1 DEF Operator
  <2>5. /\ operator' \in [Operators -> Operator]
        /\ \A o \in Operators : o # n => operator'[o] = operator[o]
    BY <2>1, <2>4, <1>1
  <2>6. TypeOK'
    BY <1>0, <2>2, <2>5, SeqOfCopies DEF Inv, Shape, TypeOK
  <2>7. Shape'
    BY <1>0, <2>2, <2>4, <2>5, <2>6 DEF Inv, Shape, Retrying, Waiting, Parked, Sends
  <2>8. ASSUME NEW m \in published' PROVE Safe(m)'
    <3>1. Safe(m)
      BY <2>8 DEF Inv, Get
    <3>2. /\ EventsIn(queue)' = EventsIn(queue) /\ EventsIn(retry)' = EventsIn(retry)
          /\ EventsIn(parking) = EventsIn(parking)' \cup {c.m}
      BY <1>0, <2>2 DEF EventsIn
    <3>3. Held(operator[n], c.m)' /\ operator'[n].pc # "ack" /\ ~Held(operator[n], m)
      BY <2>3, <2>4, <1>1 DEF Held
    <3> QED
      BY <1>0, <3>1, <3>2, <3>3, <2>5 DEF Safe, Secured, Held, Delivered
  <2> QED
    BY <2>7, <2>8 DEF Inv
<1> QED
  BY <1>1, <1>2, <1>3 DEF Get

(* After NextTurn the operator holds nothing. *)
LEMMA NextTurnHoldsNothing ==
  ASSUME operator \in [Operators -> Operator], NEW n \in Operators, NextTurn(n)
  PROVE  /\ operator' \in [Operators -> Operator]
         /\ operator'[n].pc = "get" /\ operator'[n].copy = None
         /\ \A o \in Operators : o # n => operator'[o] = operator[o]
<1>1. operator[n] \in Operator
  OBVIOUS
<1>2. operator' = [operator EXCEPT ![n].pc = "get", ![n].copy = None,
                     ![n].left = IF operator[n].left = 0 THEN 0 ELSE operator[n].left - 1]
  BY DEF NextTurn
<1>3. operator[n].left \in Nat
  BY <1>1 DEF Operator
<1>4. (IF operator[n].left = 0 THEN 0 ELSE operator[n].left - 1) \in Nat
  BY <1>3
<1>5. operator'[n] \in Operator
  BY <1>1, <1>2, <1>4 DEF Operator
<1> QED
  BY <1>1, <1>2, <1>5 DEF Operator

(* What was peeked at is parked again. *)
LEMMA PutBackKeeps == ASSUME Inv, NEW n \in Operators, PutBack(n) PROVE Inv'
<1> PICK c : c = operator[n].copy
  OBVIOUS
<1>1. c \in Parked /\ parking \in Seq(Parked) /\ operator \in [Operators -> Operator]
  BY DEF Inv, Shape, TypeOK, PutBack
<1>2. parking' = <<c>> \o parking
  BY DEF PutBack
<1>3. parking' \in Seq(Parked) /\ EventsIn(parking') = EventsIn(parking) \cup {c.m}
  BY <1>1, <1>2, EventsInPush
<1>4. /\ operator' \in [Operators -> Operator]
      /\ operator'[n].pc = "get" /\ operator'[n].copy = None
      /\ \A o \in Operators : o # n => operator'[o] = operator[o]
  BY <1>1, NextTurnHoldsNothing DEF PutBack
<1>5. TypeOK'
  BY <1>3, <1>4, SeqOfCopies DEF Inv, Shape, TypeOK, PutBack
<1>6. Shape'
  BY <1>3, <1>4, <1>5 DEF Inv, Shape, PutBack, Retrying, Waiting, Parked, Sends
<1>7. ASSUME NEW m \in published' PROVE Safe(m)'
  <2>1. Safe(m)
    BY <1>7 DEF Inv, PutBack
  <2>2. /\ EventsIn(queue)' = EventsIn(queue) /\ EventsIn(retry)' = EventsIn(retry)
        /\ EventsIn(parking)' = EventsIn(parking) \cup {c.m}
    BY <1>3 DEF PutBack, EventsIn
  <2>3. Held(operator[n], m) => m = c.m
    BY DEF Held
  <2> QED
    BY <2>1, <2>2, <2>3, <1>4 DEF PutBack, Safe, Secured, Held, Delivered
<1> QED
  BY <1>6, <1>7 DEF Inv

(* The copy is in the queue again, routable, before the ack. *)
LEMMA ReplayKeeps == ASSUME Inv, NEW n \in Operators, Replay(n) PROVE Inv'
<1> PICK c : c = operator[n].copy
  OBVIOUS
<1> PICK d : d = Replayed(c)
  OBVIOUS
<1>1. /\ c \in Parked /\ queue \in Seq(Waiting) /\ operator \in [Operators -> Operator]
      /\ failed \in [Messages -> Nat]
  BY DEF Inv, Shape, TypeOK, Replay
<1>2. d \in Waiting /\ d.m = c.m
  BY <1>1, Shapes, ShapesKeepEvent
<1>3. queue' = Append(queue, d)
  BY <1>2 DEF Replay, Routed, Waiting
<1>4. queue' \in Seq(Waiting) /\ EventsIn(queue') = EventsIn(queue) \cup {c.m}
  BY <1>1, <1>2, <1>3, EventsInAppend
<1>5. operator[n] \in Operator /\ operator' = [operator EXCEPT ![n].pc = "ack"]
  BY <1>1 DEF Replay
<1>6. /\ operator' \in [Operators -> Operator]
      /\ operator'[n].pc = "ack" /\ operator'[n].copy = c
      /\ \A o \in Operators : o # n => operator'[o] = operator[o]
  BY <1>1, <1>5 DEF Operator
<1>7. failed' \in [Messages -> Nat]
  BY <1>1 DEF Replay
<1>8. TypeOK'
  BY <1>4, <1>6, <1>7, SeqOfCopies DEF Inv, Shape, TypeOK, Replay
<1>9. Shape'
  BY <1>1, <1>4, <1>6, <1>8 DEF Inv, Shape, Replay, Retrying, Waiting, Parked, Sends
<1>10. ASSUME NEW m \in published' PROVE Safe(m)'
  <2>1. Safe(m)
    BY <1>10 DEF Inv, Replay
  <2>2. /\ EventsIn(queue)' = EventsIn(queue) \cup {c.m}
        /\ EventsIn(retry)' = EventsIn(retry) /\ EventsIn(parking)' = EventsIn(parking)
    BY <1>4 DEF Replay, EventsIn
  <2>3. Held(operator[n], m) => m = c.m
    BY DEF Held
  <2> QED
    BY <2>1, <2>2, <2>3, <1>6 DEF Replay, Safe, Secured, Held, Delivered
<1> QED
  BY <1>9, <1>10 DEF Inv

(* The ack of a replayed message removes a copy that has been replaced. *)
LEMMA AckReplayedKeeps ==
  ASSUME Inv, NEW n \in Operators, AckReplayed(n) PROVE Inv'
<1>1. operator \in [Operators -> Operator] /\ operator[n].pc = "ack"
  BY DEF Inv, Shape, TypeOK, AckReplayed
<1>2. /\ operator' \in [Operators -> Operator]
      /\ operator'[n].pc = "get" /\ operator'[n].copy = None
      /\ \A o \in Operators : o # n => operator'[o] = operator[o]
  BY <1>1, NextTurnHoldsNothing DEF AckReplayed
<1>3. TypeOK'
  BY <1>2 DEF Inv, Shape, TypeOK, AckReplayed
<1>4. Shape'
  BY <1>2, <1>3 DEF Inv, Shape, AckReplayed, Retrying, Waiting, Parked, Sends
<1>5. ASSUME NEW m \in published' PROVE Safe(m)'
  <2>1. Safe(m)
    BY <1>5 DEF Inv, AckReplayed
  <2>2. /\ EventsIn(queue)' = EventsIn(queue) /\ EventsIn(retry)' = EventsIn(retry)
        /\ EventsIn(parking)' = EventsIn(parking)
    BY DEF AckReplayed, EventsIn
  <2> QED
    BY <2>1, <2>2, <1>1, <1>2 DEF AckReplayed, Safe, Secured, Held, Delivered
<1> QED
  BY <1>4, <1>5 DEF Inv

(* The events of the messages that are purged are recorded as purged. *)
LEMMA PurgeKeeps == ASSUME Inv, Purge PROVE Inv'
<1>1. parking' = <<>> /\ EventsIn(parking') = {}
  BY EventsInNothing DEF Purge
<1>2. EventsIn(parking) \subseteq Messages
  <2>1. parking \in Seq(Copy)
    BY DEF Inv, Shape, TypeOK
  <2>2. \A i \in DOMAIN parking : parking[i] \in Copy
    BY <2>1
  <2> QED
    BY <2>2 DEF EventsIn, Copy
<1>3. parking' \in Seq(Parked) /\ parking' \in Seq(Copy)
  BY <1>1
<1>4. TypeOK'
  BY <1>2, <1>3 DEF Inv, Shape, TypeOK, Purge
<1>5. Shape'
  BY <1>3, <1>4 DEF Inv, Shape, Purge, Retrying, Waiting, Parked, Sends
<1>6. ASSUME NEW m \in published' PROVE Safe(m)'
  <2>1. Safe(m)
    BY <1>6 DEF Inv, Purge
  <2>2. EventsIn(queue)' = EventsIn(queue) /\ EventsIn(retry)' = EventsIn(retry)
    BY DEF Purge, EventsIn
  <2>3. purged' = purged \cup EventsIn(parking)
    BY DEF Purge
  <2> QED
    BY <2>1, <2>2, <2>3 DEF Purge, Safe, Secured, Held, Delivered
<1> QED
  BY <1>5, <1>6 DEF Inv

(* What a dead process held is to be taken back, and is not lost meanwhile. *)
LEMMA CrashKeeps == ASSUME Inv, Crash PROVE Inv'
<1>1. /\ consumer \in Consumer /\ operator \in [Operators -> Operator]
      /\ crashes \in 0..MaxCrashes
  BY DEF Inv, Shape, TypeOK
<1>0. /\ UNCHANGED <<published, queue, retry, parking, notified, failed, purged>>
      /\ crashes' = crashes + 1 /\ crashes < MaxCrashes
  BY DEF Crash
<1>2. consumer' = [consumer EXCEPT !.pc = IF consumer.pc = "idle" THEN "idle" ELSE "requeue"]
  BY DEF Crash
<1>3. /\ consumer' \in Consumer /\ consumer'.copy = consumer.copy
      /\ consumer'.pc = IF consumer.pc = "idle" THEN "idle" ELSE "requeue"
  BY <1>1, <1>2 DEF Consumer
<1>4. \A o \in Operators :
        /\ operator'[o] \in Operator
        /\ operator'[o].copy = operator[o].copy
        /\ operator'[o].pc = IF operator[o].copy = None THEN "idle" ELSE "requeue"
  <2> SUFFICES ASSUME NEW o \in Operators
               PROVE  /\ operator'[o] \in Operator
                      /\ operator'[o].copy = operator[o].copy
                      /\ operator'[o].pc = IF operator[o].copy = None THEN "idle" ELSE "requeue"
    OBVIOUS
  <2>1. operator[o] \in Operator
    BY <1>1
  <2>2. operator'[o] = IF operator[o].copy = None THEN IdleOperator
                       ELSE [operator[o] EXCEPT !.pc = "requeue", !.left = 0]
    BY DEF Crash
  <2>3. CASE operator[o].copy = None
    BY <2>1, <2>2, <2>3 DEF Operator, IdleOperator
  <2>4. CASE operator[o].copy # None
    <3>1. operator'[o] = [operator[o] EXCEPT !.pc = "requeue", !.left = 0]
      BY <2>2, <2>4
    <3> PICK r \in Operator : r = operator[o]
      BY <2>1
    <3>2. operator'[o] = [pc |-> "requeue", op |-> r.op, left |-> 0, copy |-> r.copy]
      BY <3>1 DEF Operator
    <3> QED
      BY <2>4, <3>2 DEF Operator
  <2> QED
    BY <2>3, <2>4
<1>5. operator' \in [Operators -> Operator]
  BY <1>4 DEF Crash
<1>6. crashes' \in 0..MaxCrashes
  BY <1>0, <1>1, BoundsAssumption
<1>7. TypeOK'
  BY <1>0, <1>3, <1>5, <1>6 DEF Inv, Shape, TypeOK
<1>8. ASSUME NEW o \in Operators
      PROVE  IF operator'[o].pc \in {"idle", "get"} THEN operator'[o].copy = None
                                                   ELSE operator'[o].copy \in Parked
  <2>1. operator[o].copy # None => operator[o].copy \in Parked
    BY DEF Inv, Shape
  <2> QED
    BY <2>1, <1>4
<1>9. Shape'
  BY <1>0, <1>3, <1>7, <1>8 DEF Inv, Shape, Retrying, Waiting, Parked, Sends
<1>10. ASSUME NEW m \in published' PROVE Safe(m)'
  <2>1. Safe(m)
    BY <1>10 DEF Inv, Crash
  <2>2. /\ EventsIn(queue)' = EventsIn(queue) /\ EventsIn(retry)' = EventsIn(retry)
        /\ EventsIn(parking)' = EventsIn(parking)
    BY DEF Crash, EventsIn
  <2>3. Held(consumer, m) => Held(consumer, m)' /\ consumer'.pc # "ack"
    BY <1>3 DEF Held
  <2>4. \A o \in Operators :
          Held(operator[o], m) => Held(operator'[o], m) /\ operator'[o].pc # "ack"
    BY <1>4 DEF Held
  <2> QED
    BY <2>1, <2>2, <2>3, <2>4 DEF Crash, Safe, Secured, Held, Delivered
<1> QED
  BY <1>9, <1>10 DEF Inv

(* Every step keeps the invariant. *)
LEMMA NextKeeps == ASSUME Inv, [Next]_vars PROVE Inv'
<1>1. CASE \E m \in Messages : Publish(m)
  BY <1>1, PublishKeeps
<1>2. CASE ConsumerStep
  BY <1>2, DeliverKeeps, SendKeeps, SendFailsKeeps, RetryLaterKeeps, ParkKeeps,
     AckKeeps, RequeueKeeps DEF ConsumerStep
<1>3. CASE Expire
  BY <1>3, ExpireKeeps
<1>4. ASSUME NEW o \in Operators, Request(o) \/ OperatorStep(o) PROVE Inv'
  BY <1>4, RequestKeeps, GetKeeps, PutBackKeeps, ReplayKeeps, AckReplayedKeeps
  DEF OperatorStep
<1>5. CASE Purge
  BY <1>5, PurgeKeeps
<1>6. CASE Crash
  BY <1>6, CrashKeeps
<1>7. CASE UNCHANGED vars
  BY <1>7 DEF vars, Inv, Shape, TypeOK, Safe, Secured, Delivered, Held, EventsIn,
              Retrying, Waiting, Parked, Sends
<1> QED
  BY <1>1, <1>2, <1>3, <1>4, <1>5, <1>6, <1>7 DEF Next

(* Every behaviour satisfies the invariant. *)
THEOREM Invariance == Spec => []Inv
BY InitInv, NextKeeps, PTL DEF Spec

(* The variables keep their types; so no copy dies more than MaxRetries    *)
(* times (consumer.js 66-73), and no queue holds a copy it could not route. *)
THEOREM TypeCorrect == Spec => []TypeOK
<1>1. Inv => TypeOK
  BY DEF Inv, Shape
<1> QED
  BY <1>1, Invariance, PTL

(* At least once: wherever the process dies, and whatever operators peek   *)
(* at, replay or purge, an event that was published is in the broker until *)
(* each of its notifications is sent or an operator purges it.             *)
THEOREM NothingIsLost == Spec => []NothingLost
<1>1. Inv => NothingLost
  BY DEF Inv, Safe, Secured, NothingLost, InBroker
<1> QED
  BY <1>1, Invariance, PTL

-----------------------------------------------------------------------------
(* Copies are counted where they are: in the three queues, with the        *)
(* consumer, and with the operators.                                       *)
AtConsumer(m) == IF Held(consumer, m) /\ consumer.pc # "ack" THEN 1 ELSE 0

Busy(m) == {o \in Operators : Held(operator[o], m) /\ operator[o].pc # "ack"}

(* Nothing is in the broker, and nothing has failed, before it is          *)
(* published.                                                              *)
Unpublished == \A m \in Messages \ published : ~InBroker(m) /\ failed[m] = 0

CountInv == Inv /\ Unpublished /\ DuplicatesNeedCrash

(* The deaths of a copy, and the failure that is to become one, are all    *)
(* the failures of its event.                                              *)
Charged(c, n) == c.m \in Poison \/ failed[c.m] = n

Ladder ==
  /\ \A c \in CopiesIn(queue) : Charged(c, c.deaths)
  /\ \A c \in CopiesIn(retry) : Charged(c, c.deaths + 1)
  /\ \A c \in CopiesIn(parking) : Charged(c, MaxRetries + 1)
  /\ consumer.pc \in {"first", "second"} => Charged(consumer.copy, consumer.copy.deaths)
  /\ consumer.pc = "retry" => Charged(consumer.copy, consumer.copy.deaths + 1)
  /\ consumer.pc = "park" => Charged(consumer.copy, MaxRetries + 1)
  /\ consumer.pc # "requeue"
  /\ \A o \in Operators : operator[o].pc \in {"requeue", "replay"} =>
       Charged(operator[o].copy, MaxRetries + 1)

LadderInv == CountInv /\ (crashes = 0 => Ladder)

(* A queue has no copy of an event exactly when the event is not in it. *)
LEMMA CountNone ==
  ASSUME NEW S, NEW q \in Seq(S), NEW m
  PROVE  Count(q, m) \in Nat /\ (Count(q, m) = 0 <=> m \notin EventsIn(q))
<1> DEFINE places == {i \in DOMAIN q : q[i].m = m}
<1>1. DOMAIN q = 1..Len(q) /\ Len(q) \in Nat
  OBVIOUS
<1>2. IsFiniteSet(DOMAIN q)
  BY <1>1, FS_Interval
<1>3. IsFiniteSet(places)
  BY <1>2, FS_Subset
<1>4. Cardinality(places) \in Nat /\ (Cardinality(places) = 0 <=> places = {})
  BY <1>3, FS_EmptySet, FS_CardinalityType
<1> QED
  BY <1>4 DEF Count, EventsIn

(* A message at the tail is one copy more. *)
LEMMA CountAppend ==
  ASSUME NEW S, NEW q \in Seq(S), NEW c \in S, NEW m
  PROVE  Count(Append(q, c), m) = Count(q, m) + IF c.m = m THEN 1 ELSE 0
<1> DEFINE a == Append(q, c)
           places == {i \in DOMAIN q : q[i].m = m}
           after == {i \in DOMAIN a : a[i].m = m}
<1>1. /\ DOMAIN a = DOMAIN q \cup {Len(q) + 1} /\ a[Len(q) + 1] = c
      /\ \A i \in DOMAIN q : a[i] = q[i]
      /\ Len(q) + 1 \notin DOMAIN q /\ DOMAIN q = 1..Len(q) /\ Len(q) \in Nat
  <2>1. /\ a \in Seq(S) /\ Len(a) = Len(q) + 1 /\ a[Len(q) + 1] = c
        /\ \A i \in 1..Len(q) : a[i] = q[i]
    BY AppendProperties
  <2>2. DOMAIN q = 1..Len(q) /\ DOMAIN a = 1..(Len(q) + 1) /\ Len(q) \in Nat
    BY <2>1
  <2> QED
    BY <2>1, <2>2
<1>2. IsFiniteSet(places)
  <2>1. IsFiniteSet(DOMAIN q)
    BY <1>1, FS_Interval
  <2> QED
    BY <2>1, FS_Subset
<1>3. Cardinality(places) \in Nat
  BY <1>2, FS_CardinalityType
<1> HIDE DEF a
<1>4. after = IF c.m = m THEN places \cup {Len(q) + 1} ELSE places
  BY <1>1
<1>5. Len(q) + 1 \notin places
  BY <1>1
<1> HIDE DEF places, after
<1>6. Cardinality(places \cup {Len(q) + 1}) = Cardinality(places) + 1
  BY <1>2, <1>5, FS_AddElement
<1>7. Cardinality(after) = Cardinality(places) + IF c.m = m THEN 1 ELSE 0
  BY <1>3, <1>4, <1>6
<1> QED
  BY <1>7 DEF Count, a, places, after

(* A queue without its head has the same copies one place further on. *)
LEMMA CountShift ==
  ASSUME NEW S, NEW q \in Seq(S), NEW t \in Seq(S), NEW m, Len(q) = Len(t) + 1,
         \A i \in 1..Len(t) : q[i + 1] = t[i]
  PROVE  Count(q, m) = Count(t, m) + IF q[1].m = m THEN 1 ELSE 0
<1> DEFINE places == {i \in DOMAIN t : t[i].m = m}
           shifted == {i \in DOMAIN q : i # 1 /\ q[i].m = m}
           all == {i \in DOMAIN q : q[i].m = m}
           next == [i \in places |-> i + 1]
<1>1. DOMAIN t = 1..Len(t) /\ DOMAIN q = 1..(Len(t) + 1) /\ Len(t) \in Nat
  OBVIOUS
<1>2. IsFiniteSet(places)
  <2>1. IsFiniteSet(DOMAIN t)
    BY <1>1, FS_Interval
  <2> QED
    BY <2>1, FS_Subset
<1>3. \A i \in places : i \in Nat /\ i + 1 \in shifted
  BY <1>1
<1>4. \A j \in shifted : j \in Nat /\ j - 1 \in places /\ (j - 1) + 1 = j
  <2> SUFFICES ASSUME NEW j \in shifted
               PROVE  j \in Nat /\ j - 1 \in places /\ (j - 1) + 1 = j
    OBVIOUS
  <2>1. j \in Nat /\ j - 1 \in 1..Len(t) /\ (j - 1) + 1 = j
    BY <1>1
  <2>2. q[j] = t[j - 1]
    BY <2>1
  <2> QED
    BY <1>1, <2>1, <2>2
<1>5. all = IF q[1].m = m THEN shifted \cup {1} ELSE shifted
  BY <1>1
<1>6. 1 \notin shifted
  OBVIOUS
<1>7. ExistsBijection(places, shifted)
  <2> HIDE DEF places, shifted
  <2>1. next \in [places -> shifted] /\ \A j \in shifted : next[j - 1] = j
    BY <1>3, <1>4
  <2>2. \A i, j \in places : next[i] = next[j] => i = j
    BY <1>3
  <2> HIDE DEF next
  <2>3. next \in Bijection(places, shifted)
    BY <1>4, <2>1, <2>2 DEF Bijection, Injection, IsInjective, Surjection
  <2> QED
    BY <2>3 DEF ExistsBijection
<1> HIDE DEF places, shifted, all
<1>8. /\ IsFiniteSet(shifted) /\ Cardinality(shifted) = Cardinality(places)
      /\ Cardinality(places) \in Nat
  BY <1>2, <1>7, FS_Bijection, FS_CardinalityType
<1>9. Cardinality(shifted \cup {1}) = Cardinality(shifted) + 1
  BY <1>6, <1>8, FS_AddElement
<1>10. Cardinality(all) = Cardinality(places) + IF q[1].m = m THEN 1 ELSE 0
  BY <1>5, <1>8, <1>9
<1> QED
  BY <1>10 DEF Count, places, all

(* A message that is put back at the head is one copy more. *)
LEMMA CountPush ==
  ASSUME NEW S, NEW q \in Seq(S), NEW c \in S, NEW m
  PROVE  Count(<<c>> \o q, m) = Count(q, m) + IF c.m = m THEN 1 ELSE 0
<1> DEFINE a == <<c>> \o q
<1>1. <<c>> \in Seq(S) /\ Len(<<c>>) = 1 /\ <<c>>[1] = c
  OBVIOUS
<1>2. /\ a \in Seq(S) /\ Len(a) = 1 + Len(q)
      /\ \A i \in 1..(1 + Len(q)) : a[i] = IF i <= 1 THEN <<c>>[i] ELSE q[i - 1]
  BY <1>1, ConcatProperties
<1>3. Len(q) \in Nat
  OBVIOUS
<1> HIDE DEF a
<1>4. a[1] = c /\ Len(a) = Len(q) + 1 /\ \A i \in 1..Len(q) : a[i + 1] = q[i]
  BY <1>1, <1>2, <1>3
<1>5. Count(a, m) = Count(q, m) + IF a[1].m = m THEN 1 ELSE 0
  BY <1>2, <1>4, CountShift
<1> QED
  BY <1>4, <1>5 DEF a

(* A message that is taken from the head is one copy less. *)
LEMMA CountPop ==
  ASSUME NEW S, NEW q \in Seq(S), q # <<>>, NEW m
  PROVE  Count(q, m) = Count(Tail(q), m) + IF Head(q).m = m THEN 1 ELSE 0
<1> DEFINE t == Tail(q)
<1>1. /\ t \in Seq(S) /\ Len(t) = Len(q) - 1 /\ Head(q) = q[1]
      /\ \A i \in 1..Len(t) : t[i] = q[i + 1]
  BY HeadTailProperties
<1>2. Len(q) \in Nat /\ Len(q) = Len(t) + 1
  BY <1>1
<1> HIDE DEF t
<1>3. Count(q, m) = Count(t, m) + IF q[1].m = m THEN 1 ELSE 0
  BY <1>1, <1>2, CountShift
<1> QED
  BY <1>1, <1>3 DEF t

(* An empty queue has no copies. *)
LEMMA CountNothing == \A m : Count(<<>>, m) = 0
<1>1. <<>> \in Seq(Copy)
  OBVIOUS
<1> QED
  BY <1>1, CountNone, EventsInNothing

(* An operator that moves is counted or not for itself. *)
LEMMA BusyMove ==
  ASSUME NEW n \in Operators, NEW m,
         \A o \in Operators : o # n => operator'[o] = operator[o]
  PROVE  /\ Cardinality(Busy(m)) \in Nat /\ Cardinality(Busy(m)') \in Nat
         /\ Cardinality(Busy(m)') + (IF n \in Busy(m) THEN 1 ELSE 0)
              = Cardinality(Busy(m)) + (IF n \in Busy(m)' THEN 1 ELSE 0)
<1>1. IsFiniteSet(Busy(m)) /\ IsFiniteSet(Busy(m)')
  BY OperatorsAssumption, FS_Subset DEF Busy
<1>2. Busy(m)' \ {n} = Busy(m) \ {n}
  BY DEF Busy, Held
<1>3. Cardinality(Busy(m)) \in Nat /\ Cardinality(Busy(m)') \in Nat
  BY <1>1, FS_CardinalityType
<1>4. \A S : IsFiniteSet(S) => Cardinality(S \ {n}) = IF n \in S THEN Cardinality(S) - 1
                                                                 ELSE Cardinality(S)
  BY FS_RemoveElement
<1>5. /\ Cardinality(Busy(m) \ {n}) = Cardinality(Busy(m)) - (IF n \in Busy(m) THEN 1 ELSE 0)
      /\ Cardinality(Busy(m)' \ {n}) = Cardinality(Busy(m)') - (IF n \in Busy(m)' THEN 1 ELSE 0)
  BY <1>1, <1>3, <1>4
<1> QED
  BY <1>2, <1>3, <1>5

-----------------------------------------------------------------------------
(* What a step must do for these invariants: put no event where it was not *)
(* and leave no more copies of any, and keep the failures on record.       *)
Moved ==
  \A m \in Messages : Copies(m)' <= Copies(m) /\ (InBroker(m)' => InBroker(m))

Climbs == crashes = 0 /\ Ladder => Ladder'

(* Copies are the sum of the parts, which are numbers. *)
LEMMA CopiesSum ==
  ASSUME Inv, NEW m
  PROVE  /\ Count(queue, m) \in Nat /\ Count(retry, m) \in Nat /\ Count(parking, m) \in Nat
         /\ AtConsumer(m) \in 0..1
         /\ IsFiniteSet(Busy(m)) /\ Cardinality(Busy(m)) \in Nat
         /\ Copies(m) = Count(queue, m) + Count(retry, m) + Count(parking, m)
                        + AtConsumer(m) + Cardinality(Busy(m))
         /\ Copies(m) \in Nat
<1>1. Count(queue, m) \in Nat /\ Count(retry, m) \in Nat /\ Count(parking, m) \in Nat
  BY CountNone DEF Inv, Shape
<1>2. IsFiniteSet(Busy(m))
  BY OperatorsAssumption, FS_Subset DEF Busy
<1>3. Cardinality(Busy(m)) \in Nat
  BY <1>2, FS_CardinalityType
<1>4. AtConsumer(m) \in 0..1
  BY DEF AtConsumer
<1>5. Copies(m) = Count(queue, m) + Count(retry, m) + Count(parking, m)
                  + AtConsumer(m) + Cardinality(Busy(m))
  BY DEF Copies, AtConsumer, Busy
<1> QED
  BY <1>1, <1>2, <1>3, <1>4, <1>5

(* The parts of the next state, as they are written in a step's lemma. *)
LEMMA NextParts ==
  ASSUME NEW m
  PROVE  /\ Copies(m)' = Count(queue', m) + Count(retry', m) + Count(parking', m)
                         + AtConsumer(m)' + Cardinality(Busy(m)')
         /\ InBroker(m)' <=> \/ m \in EventsIn(queue') \cup EventsIn(retry') \cup EventsIn(parking')
                             \/ Held(consumer', m)
                             \/ \E o \in Operators : Held(operator'[o], m)
BY DEF Copies, AtConsumer, Busy, InBroker, Held, Count, EventsIn

(* Before a crash an event has one copy: whoever holds it has the only one. *)
LEMMA OnlyCopy ==
  ASSUME CountInv, crashes = 0, NEW m \in Messages
  PROVE  /\ AtConsumer(m) = 1 =>
              /\ m \notin EventsIn(queue) \cup EventsIn(retry) \cup EventsIn(parking)
              /\ Busy(m) = {}
         /\ \A o \in Busy(m) :
              /\ m \notin EventsIn(queue) \cup EventsIn(retry) \cup EventsIn(parking)
              /\ AtConsumer(m) = 0 /\ Busy(m) = {o}
<1>1. Cardinality(Operators) \in Nat
  BY OperatorsAssumption, FS_CardinalityType
<1>2. 0 * (1 + Cardinality(Operators)) = 0
  BY <1>1
<1>3. Copies(m) <= 1
  BY <1>2 DEF CountInv, DuplicatesNeedCrash
<1>4. Inv /\ queue \in Seq(Waiting) /\ retry \in Seq(Retrying) /\ parking \in Seq(Parked)
  BY DEF CountInv, Inv, Shape
<1>5. /\ Count(queue, m) \in Nat /\ Count(retry, m) \in Nat /\ Count(parking, m) \in Nat
      /\ AtConsumer(m) \in 0..1
      /\ IsFiniteSet(Busy(m)) /\ Cardinality(Busy(m)) \in Nat
      /\ Count(queue, m) + Count(retry, m) + Count(parking, m)
           + AtConsumer(m) + Cardinality(Busy(m)) <= 1
  BY <1>3, <1>4, CopiesSum
<1>6. /\ Count(queue, m) = 0 => m \notin EventsIn(queue)
      /\ Count(retry, m) = 0 => m \notin EventsIn(retry)
      /\ Count(parking, m) = 0 => m \notin EventsIn(parking)
  BY <1>4, CountNone
<1>7. Cardinality(Busy(m)) = 0 => Busy(m) = {}
  BY <1>5, FS_EmptySet
<1>8. ASSUME NEW o \in Busy(m) PROVE Cardinality(Busy(m)) # 0 /\ (Cardinality(Busy(m)) = 1 => Busy(m) = {o})
  BY <1>5, <1>7, <1>8, FS_Singleton
<1>9. CASE AtConsumer(m) = 1
  BY <1>5, <1>6, <1>7, <1>8, <1>9
<1>10. CASE AtConsumer(m) # 1
  <2>1. ASSUME NEW o \in Busy(m)
        PROVE  /\ Cardinality(Busy(m)) = 1 /\ Count(queue, m) = 0 /\ Count(retry, m) = 0
               /\ Count(parking, m) = 0 /\ AtConsumer(m) = 0
    <3>1. Cardinality(Busy(m)) # 0
      BY <1>8, <2>1
    <3>2. PICK a \in Nat, b \in Nat, p \in Nat, k \in 0..1, n \in Nat :
            /\ a = Count(queue, m) /\ b = Count(retry, m) /\ p = Count(parking, m)
            /\ k = AtConsumer(m) /\ n = Cardinality(Busy(m))
      BY <1>5
    <3>3. a + b + p + k + n <= 1 /\ n # 0
      BY <1>5, <3>1, <3>2
    <3>4. n = 1 /\ a = 0 /\ b = 0 /\ p = 0 /\ k = 0
      BY <3>3
    <3> QED
      BY <3>2, <3>4
  <2> QED
    BY <1>6, <1>8, <1>10, <2>1
<1> QED
  BY <1>9, <1>10

(* A delivery is with the consumer instead of in the queue. *)
LEMMA DeliverMoves == ASSUME CountInv, Deliver PROVE Moved /\ Climbs
<1> PICK c : c = Head(queue)
  OBVIOUS
<1>1. /\ queue \in Seq(Waiting) /\ queue # <<>> /\ consumer.pc = "idle" /\ consumer.copy = None
      /\ UNCHANGED <<retry, parking, operator, failed, crashes>>
      /\ queue' = Tail(queue) /\ consumer'.copy = c
      /\ consumer'.pc = IF c.m \in Poison THEN "park" ELSE "first"
  BY DEF CountInv, Inv, Shape, Deliver
<1>2. c \in Waiting /\ CopiesIn(queue) = CopiesIn(queue') \cup {c} /\ queue' \in Seq(Waiting)
  BY <1>1, CopiesInPop
<1>3. c # None
  BY <1>2, Shapes, NoneIsNoCopy
<1>4. Moved
  <2> SUFFICES ASSUME NEW m \in Messages
               PROVE  Copies(m)' <= Copies(m) /\ (InBroker(m)' => InBroker(m))
    BY DEF Moved
  <2>1. Count(queue, m) = Count(queue', m) + IF c.m = m THEN 1 ELSE 0
    BY <1>1, CountPop
  <2>2. AtConsumer(m) = 0 /\ AtConsumer(m)' = IF c.m = m THEN 1 ELSE 0
    BY <1>1, <1>3 DEF AtConsumer, Held
  <2>3. Busy(m)' = Busy(m)
    BY <1>1 DEF Busy
  <2>4. Count(queue', m) \in Nat
    BY <1>2, CountNone
  <2>5. EventsIn(queue) = EventsIn(queue') \cup {c.m}
    BY <1>2, EventsOfCopies
  <2>6. Copies(m)' <= Copies(m)
    BY <1>1, <2>1, <2>2, <2>3, <2>4, CopiesSum, NextParts DEF CountInv
  <2>7. InBroker(m)' => InBroker(m)
    BY <1>1, <2>5, NextParts DEF InBroker, Held
  <2> QED
    BY <2>6, <2>7
<1>5. Climbs
  BY <1>1, <1>2 DEF Climbs, Ladder, Charged
<1> QED
  BY <1>4, <1>5

(* The consumer keeps its copy, or is done with it, after a send.  A       *)
(* failure is charged to the one copy that there is.                       *)
LEMMA SendMoves == ASSUME CountInv, Send PROVE Moved /\ Climbs
<1>1. /\ consumer \in Consumer /\ consumer.pc \in {"first", "second"}
      /\ UNCHANGED <<queue, retry, parking, operator, failed, crashes>>
      /\ consumer'.copy = consumer.copy /\ consumer'.pc \in {"second", "ack"}
  BY DEF CountInv, Inv, Shape, TypeOK, Send, Become, Consumer
<1>2. Moved
  <2> SUFFICES ASSUME NEW m \in Messages
               PROVE  Copies(m)' <= Copies(m) /\ (InBroker(m)' => InBroker(m))
    BY DEF Moved
  <2>1. AtConsumer(m)' \in 0..1 /\ AtConsumer(m)' <= AtConsumer(m)
    BY <1>1 DEF AtConsumer, Held
  <2>2. Busy(m)' = Busy(m)
    BY <1>1 DEF Busy
  <2>3. Copies(m)' <= Copies(m)
    BY <1>1, <2>1, <2>2, CopiesSum, NextParts DEF CountInv
  <2>4. InBroker(m)' => InBroker(m)
    BY <1>1, NextParts DEF InBroker, Held
  <2> QED
    BY <2>3, <2>4
<1>3. Climbs
  BY <1>1 DEF Climbs, Ladder, Charged
<1> QED
  BY <1>2, <1>3

LEMMA SendFailsMoves == ASSUME CountInv, SendFails PROVE Moved /\ Climbs
<1> PICK c : c = consumer.copy
  OBVIOUS
<1>1. /\ consumer \in Consumer /\ consumer.pc \in {"first", "second"} /\ c \in Waiting
      /\ UNCHANGED <<queue, retry, parking, operator, crashes>>
      /\ consumer'.copy = c /\ consumer'.pc = IF c.deaths >= MaxRetries THEN "park" ELSE "retry"
      /\ failed \in [Messages -> Nat] /\ failed' = [failed EXCEPT ![c.m] = @ + 1]
  BY DEF CountInv, Inv, Shape, TypeOK, SendFails, Become, Consumer
<1>2. Moved
  <2> SUFFICES ASSUME NEW m \in Messages
               PROVE  Copies(m)' <= Copies(m) /\ (InBroker(m)' => InBroker(m))
    BY DEF Moved
  <2>1. AtConsumer(m)' \in 0..1 /\ AtConsumer(m)' <= AtConsumer(m)
    BY <1>1 DEF AtConsumer, Held
  <2>2. Busy(m)' = Busy(m)
    BY <1>1 DEF Busy
  <2>3. Copies(m)' <= Copies(m)
    BY <1>1, <2>1, <2>2, CopiesSum, NextParts DEF CountInv
  <2>4. InBroker(m)' => InBroker(m)
    BY <1>1, NextParts DEF InBroker, Held
  <2> QED
    BY <2>3, <2>4
<1>3. ASSUME crashes = 0, Ladder PROVE Ladder'
  <2>1. c \in Copy /\ c # None /\ c.m \in Messages /\ c.deaths \in 0..MaxRetries
    BY <1>1, Shapes, NoneIsNoCopy DEF Copy
  <2>2. AtConsumer(c.m) = 1
    BY <1>1, <2>1 DEF AtConsumer, Held
  <2>3. /\ c.m \notin EventsIn(queue) \cup EventsIn(retry) \cup EventsIn(parking)
        /\ Busy(c.m) = {}
    BY <1>3, <2>1, <2>2, OnlyCopy
  <2>4. \A d, n : d.m # c.m /\ d.m \in Messages /\ Charged(d, n) => Charged(d, n)'
    BY <1>1 DEF Charged
  <2>5. /\ \A d \in CopiesIn(queue) : d.m # c.m /\ d.m \in Messages
        /\ \A d \in CopiesIn(retry) : d.m # c.m /\ d.m \in Messages
        /\ \A d \in CopiesIn(parking) : d.m # c.m /\ d.m \in Messages
    <3>1. /\ CopiesIn(queue) \subseteq Copy /\ CopiesIn(retry) \subseteq Copy
          /\ CopiesIn(parking) \subseteq Copy
      BY DEF CountInv, Inv, Shape, TypeOK, CopiesIn
    <3> QED
      BY <2>3, <3>1, EventsOfCopies DEF Copy
  <2>6. \A o \in Operators : operator[o].pc \in {"requeue", "replay"} =>
          operator[o].copy.m # c.m /\ operator[o].copy.m \in Messages
    <3> SUFFICES ASSUME NEW o \in Operators, operator[o].pc \in {"requeue", "replay"}
                 PROVE  operator[o].copy.m # c.m /\ operator[o].copy.m \in Messages
      OBVIOUS
    <3>1. operator[o].copy \in Copy
      BY Shapes DEF CountInv, Inv, Shape
    <3>2. operator[o].copy # None
      BY <3>1, NoneIsNoCopy
    <3>3. o \notin Busy(c.m)
      BY <2>3
    <3> QED
      BY <3>1, <3>2, <3>3 DEF Busy, Held, Copy
  <2>7. Charged(c, c.deaths)
    BY <1>1, <1>3 DEF Ladder
  <2>8. Charged(c, c.deaths + 1)'
    BY <1>1, <2>1, <2>7, BoundsAssumption DEF Charged
  <2>9. c.deaths >= MaxRetries => c.deaths + 1 = MaxRetries + 1
    BY <2>1, BoundsAssumption
  <2>10. /\ consumer'.pc \notin {"first", "second", "requeue"}
         /\ consumer'.pc = "retry" => Charged(c, c.deaths + 1)'
         /\ consumer'.pc = "park" => Charged(c, MaxRetries + 1)'
    BY <1>1, <2>8, <2>9
  <2> QED
    BY <1>1, <1>3, <2>4, <2>5, <2>6, <2>10 DEF Ladder
<1> QED
  BY <1>2, <1>3 DEF Climbs

(* The consumer publishes its copy and keeps nothing but the ack.          *)
LEMMA RetryLaterMoves == ASSUME CountInv, RetryLater PROVE Moved /\ Climbs
<1> PICK c : c = consumer.copy
  OBVIOUS
<1>1. /\ consumer \in Consumer /\ consumer.pc = "retry" /\ c \in Retrying
      /\ retry \in Seq(Retrying) /\ c.key = "event"
      /\ UNCHANGED <<queue, parking, operator, failed, crashes>>
      /\ consumer'.copy = c /\ consumer'.pc = "ack"
  BY Shapes DEF CountInv, Inv, Shape, TypeOK, RetryLater, Become, Consumer, Retrying, Waiting
<1>2. retry' = Append(retry, c) /\ CopiesIn(retry') = CopiesIn(retry) \cup {c}
  BY <1>1, CopiesInAppend DEF RetryLater, Routed
<1>3. c # None
  BY <1>1, Shapes, NoneIsNoCopy
<1>4. Moved
  <2> SUFFICES ASSUME NEW m \in Messages
               PROVE  Copies(m)' <= Copies(m) /\ (InBroker(m)' => InBroker(m))
    BY DEF Moved
  <2>1. Count(retry', m) = Count(retry, m) + IF c.m = m THEN 1 ELSE 0
    BY <1>1, <1>2, CountAppend
  <2>2. AtConsumer(m) = (IF c.m = m THEN 1 ELSE 0) /\ AtConsumer(m)' = 0
    BY <1>1, <1>3 DEF AtConsumer, Held
  <2>3. Busy(m)' = Busy(m)
    BY <1>1 DEF Busy
  <2>4. EventsIn(retry') = EventsIn(retry) \cup {c.m}
    BY <1>2, EventsOfCopies
  <2>5. Copies(m)' <= Copies(m)
    BY <1>1, <2>1, <2>2, <2>3, CopiesSum, NextParts DEF CountInv
  <2>6. InBroker(m)' => InBroker(m)
    BY <1>1, <1>3, <2>4, NextParts DEF InBroker, Held
  <2> QED
    BY <2>5, <2>6
<1>5. Climbs
  BY <1>1, <1>2 DEF Climbs, Ladder, Charged
<1> QED
  BY <1>4, <1>5

LEMMA ParkMoves == ASSUME CountInv, Park PROVE Moved /\ Climbs
<1> PICK c : c = consumer.copy
  OBVIOUS
<1> PICK d : d = AsParked(c)
  OBVIOUS
<1>1. /\ consumer \in Consumer /\ consumer.pc = "park" /\ c \in Waiting
      /\ parking \in Seq(Parked)
      /\ UNCHANGED <<queue, retry, operator, failed, crashes>>
      /\ consumer'.copy = c /\ consumer'.pc = "ack" /\ parking' = Append(parking, d)
  BY DEF CountInv, Inv, Shape, TypeOK, Park, Become, Consumer
<1>2. d \in Parked /\ d.m = c.m /\ c # None
  BY <1>1, Shapes, ShapesKeepEvent, NoneIsNoCopy
<1>3. CopiesIn(parking') = CopiesIn(parking) \cup {d}
  BY <1>1, <1>2, CopiesInAppend
<1>4. Moved
  <2> SUFFICES ASSUME NEW m \in Messages
               PROVE  Copies(m)' <= Copies(m) /\ (InBroker(m)' => InBroker(m))
    BY DEF Moved
  <2>1. Count(parking', m) = Count(parking, m) + IF c.m = m THEN 1 ELSE 0
    BY <1>1, <1>2, CountAppend
  <2>2. AtConsumer(m) = (IF c.m = m THEN 1 ELSE 0) /\ AtConsumer(m)' = 0
    BY <1>1, <1>2 DEF AtConsumer, Held
  <2>3. Busy(m)' = Busy(m)
    BY <1>1 DEF Busy
  <2>4. EventsIn(parking') = EventsIn(parking) \cup {c.m}
    BY <1>2, <1>3, EventsOfCopies
  <2>5. Copies(m)' <= Copies(m)
    BY <1>1, <2>1, <2>2, <2>3, CopiesSum, NextParts DEF CountInv
  <2>6. InBroker(m)' => InBroker(m)
    BY <1>1, <1>2, <2>4, NextParts DEF InBroker, Held
  <2> QED
    BY <2>5, <2>6
<1>5. Climbs
  BY <1>1, <1>2, <1>3 DEF Climbs, Ladder, Charged
<1> QED
  BY <1>4, <1>5

(* The copy that an ack removes had been counted elsewhere. *)
LEMMA AckMoves == ASSUME CountInv, Ack PROVE Moved /\ Climbs
<1>1. /\ consumer.pc = "ack" /\ consumer'.pc = "idle" /\ consumer'.copy = None
      /\ UNCHANGED <<queue, retry, parking, operator, failed, crashes>>
  BY DEF Ack, IdleConsumer
<1>2. Moved
  <2> SUFFICES ASSUME NEW m \in Messages
               PROVE  Copies(m)' <= Copies(m) /\ (InBroker(m)' => InBroker(m))
    BY DEF Moved
  <2>1. AtConsumer(m)' = AtConsumer(m)
    BY <1>1 DEF AtConsumer, Held
  <2>2. Busy(m)' = Busy(m)
    BY <1>1 DEF Busy
  <2>3. Copies(m)' <= Copies(m)
    BY <1>1, <2>1, <2>2, CopiesSum, NextParts DEF CountInv
  <2>4. InBroker(m)' => InBroker(m)
    BY <1>1, NextParts DEF InBroker, Held
  <2> QED
    BY <2>3, <2>4
<1>3. Climbs
  BY <1>1 DEF Climbs, Ladder, Charged
<1> QED
  BY <1>2, <1>3

(* What the broker takes back is in the queue instead of with the consumer. *)
LEMMA RequeueMoves == ASSUME CountInv, Requeue PROVE Moved /\ Climbs
<1> PICK c : c = consumer.copy
  OBVIOUS
<1>1. /\ consumer.pc = "requeue" /\ consumer'.pc = "idle" /\ consumer'.copy = None
      /\ queue \in Seq(Waiting) /\ c \in Waiting /\ queue' = <<c>> \o queue
      /\ UNCHANGED <<retry, parking, operator, failed, crashes>>
  BY DEF CountInv, Inv, Shape, Requeue, IdleConsumer
<1>2. c # None
  BY <1>1, Shapes, NoneIsNoCopy
<1>3. Moved
  <2> SUFFICES ASSUME NEW m \in Messages
               PROVE  Copies(m)' <= Copies(m) /\ (InBroker(m)' => InBroker(m))
    BY DEF Moved
  <2>1. Count(queue', m) = Count(queue, m) + IF c.m = m THEN 1 ELSE 0
    BY <1>1, CountPush
  <2>2. AtConsumer(m) = (IF c.m = m THEN 1 ELSE 0) /\ AtConsumer(m)' = 0
    BY <1>1, <1>2 DEF AtConsumer, Held
  <2>3. Busy(m)' = Busy(m)
    BY <1>1 DEF Busy
  <2>4. EventsIn(queue') = EventsIn(queue) \cup {c.m}
    BY <1>1, EventsInPush
  <2>5. Copies(m)' <= Copies(m)
    <3>1. Count(retry', m) = Count(retry, m) /\ Count(parking', m) = Count(parking, m)
      BY <1>1
    <3> QED
      BY <2>1, <2>2, <2>3, <3>1, CopiesSum, NextParts DEF CountInv
  <2>6. InBroker(m)' => InBroker(m)
    BY <1>1, <1>2, <2>4, NextParts DEF InBroker, Held
  <2> QED
    BY <2>5, <2>6
<1>4. Climbs
  BY <1>1 DEF Climbs, Ladder
<1> QED
  BY <1>3, <1>4

(* A retry that is due is in the queue, with the death that was charged.   *)
LEMMA ExpireMoves == ASSUME CountInv, Expire PROVE Moved /\ Climbs
<1> PICK c : c = Head(retry)
  OBVIOUS
<1> PICK d : d = Died(c)
  OBVIOUS
<1>1. /\ queue \in Seq(Waiting) /\ retry \in Seq(Retrying) /\ retry # <<>>
      /\ UNCHANGED <<parking, consumer, operator, failed, crashes>>
      /\ queue' = Routed(queue, d) /\ retry' = Tail(retry)
  BY DEF CountInv, Inv, Shape, Expire
<1>2. c \in Retrying /\ CopiesIn(retry) = CopiesIn(retry') \cup {c} /\ retry' \in Seq(Retrying)
  BY <1>1, CopiesInPop
<1>3. d \in Waiting /\ d.m = c.m /\ d.deaths = c.deaths + 1 /\ d.key = "event"
  <2>1. c \in Copy /\ d \in Waiting /\ d.m = c.m
    BY <1>2, Shapes, ShapesKeepEvent
  <2> QED
    BY <2>1 DEF Died, Copy, Waiting
<1>4. queue' = Append(queue, d) /\ CopiesIn(queue') = CopiesIn(queue) \cup {d}
  BY <1>1, <1>3, CopiesInAppend DEF Routed
<1>5. Moved
  <2> SUFFICES ASSUME NEW m \in Messages
               PROVE  Copies(m)' <= Copies(m) /\ (InBroker(m)' => InBroker(m))
    BY DEF Moved
  <2>1. Count(queue', m) = Count(queue, m) + IF c.m = m THEN 1 ELSE 0
    <3>1. queue \in Seq(Waiting) /\ d \in Waiting
      BY <1>1, <1>3
    <3>2. Count(Append(queue, d), m) = Count(queue, m) + IF d.m = m THEN 1 ELSE 0
      BY <3>1, CountAppend
    <3> QED
      BY <1>3, <1>4, <3>2
  <2>2. Count(retry, m) = Count(retry', m) + (IF c.m = m THEN 1 ELSE 0) /\ Count(retry', m) \in Nat
    BY <1>1, <1>2, CountPop, CountNone
  <2>3. Busy(m)' = Busy(m) /\ AtConsumer(m)' = AtConsumer(m)
    BY <1>1 DEF Busy, AtConsumer, Held
  <2>4. /\ EventsIn(queue') = EventsIn(queue) \cup {c.m}
        /\ EventsIn(retry) = EventsIn(retry') \cup {c.m}
    BY <1>2, <1>3, <1>4, EventsOfCopies
  <2>5. Copies(m)' <= Copies(m)
    BY <1>1, <2>1, <2>2, <2>3, CopiesSum, NextParts DEF CountInv
  <2>6. InBroker(m)' => InBroker(m)
    BY <1>1, <2>4, NextParts DEF InBroker, Held
  <2> QED
    BY <2>5, <2>6
<1>6. Climbs
  BY <1>1, <1>2, <1>3, <1>4 DEF Climbs, Ladder, Charged
<1> QED
  BY <1>5, <1>6

(* A step that only takes an operator from holding no counted copy to      *)
(* holding none.                                                           *)
LEMMA IdleMoves ==
  ASSUME CountInv, NEW n \in Operators,
         UNCHANGED <<queue, retry, parking, consumer, failed, crashes>>,
         operator[n].pc = "ack" \/ operator[n].copy = None,
         operator'[n].pc \in {"idle", "get"}, operator'[n].copy = None,
         \A o \in Operators : o # n => operator'[o] = operator[o]
  PROVE  Moved /\ Climbs
<1>1. Moved
  <2> SUFFICES ASSUME NEW m \in Messages
               PROVE  Copies(m)' <= Copies(m) /\ (InBroker(m)' => InBroker(m))
    BY DEF Moved
  <2>1. Busy(m)' = Busy(m)
    BY DEF Busy, Held
  <2>2. AtConsumer(m)' = AtConsumer(m)
    BY DEF AtConsumer, Held
  <2>3. Copies(m)' <= Copies(m)
    BY <2>1, <2>2, CopiesSum, NextParts DEF CountInv
  <2>4. InBroker(m)' => InBroker(m)
    BY NextParts DEF InBroker, Held
  <2> QED
    BY <2>3, <2>4
<1>2. Climbs
  BY DEF Climbs, Ladder, Charged
<1> QED
  BY <1>1, <1>2

(* An operator's request takes nothing yet. *)
LEMMA RequestMoves == ASSUME CountInv, NEW n \in Operators, Request(n) PROVE Moved /\ Climbs
<1>1. /\ UNCHANGED <<queue, retry, parking, consumer, failed, crashes>>
      /\ operator[n].pc = "idle" /\ operator[n].copy = None
      /\ operator'[n].pc = "get" /\ operator'[n].copy = None
      /\ \A o \in Operators : o # n => operator'[o] = operator[o]
  BY DEF CountInv, Inv, Shape, TypeOK, Request
<1> QED
  BY <1>1, IdleMoves

(* An operator takes the head of the parking queue. *)
LEMMA GetMoves == ASSUME CountInv, NEW n \in Operators, Get(n) PROVE Moved /\ Climbs
<1>1. /\ operator \in [Operators -> Operator] /\ operator[n] \in Operator
      /\ operator[n].pc = "get" /\ operator[n].copy = None /\ parking \in Seq(Parked)
      /\ UNCHANGED <<queue, retry, consumer, failed, crashes>>
  BY DEF CountInv, Inv, Shape, TypeOK, Get
<1>2. CASE operator[n].left = 0 \/ parking = <<>>
  <2>1. operator' = [operator EXCEPT ![n] = IdleOperator] /\ UNCHANGED parking
    BY <1>2, <1>1 DEF Get, Operator
  <2>2. /\ operator'[n].pc = "idle" /\ operator'[n].copy = None
        /\ \A o \in Operators : o # n => operator'[o] = operator[o]
    BY <2>1, <1>1 DEF IdleOperator
  <2> QED
    BY <1>1, <2>1, <2>2, IdleMoves
<1>3. CASE operator[n].left > 0 /\ parking # <<>>
  <2> PICK c : c = Head(parking)
    OBVIOUS
  <2>1. /\ operator' = [operator EXCEPT
             ![n].pc = IF operator[n].op = "peek" THEN "requeue" ELSE "replay",
             ![n].copy = c]
        /\ parking' = Tail(parking)
    BY <1>3, <1>1 DEF Get, Operator
  <2>2. /\ c \in Parked /\ CopiesIn(parking) = CopiesIn(parking') \cup {c}
        /\ parking' \in Seq(Parked)
    BY <2>1, <1>1, <1>3, CopiesInPop
  <2>3. c # None
    BY <2>2, Shapes, NoneIsNoCopy
  <2>4. /\ operator'[n].pc \in {"requeue", "replay"} /\ operator'[n].copy = c
        /\ \A o \in Operators : o # n => operator'[o] = operator[o]
    BY <2>1, <1>1 DEF Operator
  <2>5. Moved
    <3> SUFFICES ASSUME NEW m \in Messages
                 PROVE  Copies(m)' <= Copies(m) /\ (InBroker(m)' => InBroker(m))
      BY DEF Moved
    <3>1. Count(parking, m) = Count(parking', m) + IF c.m = m THEN 1 ELSE 0
      BY <1>1, <1>3, <2>1, CountPop
    <3>2. n \notin Busy(m) /\ (n \in Busy(m)' <=> c.m = m)
      BY <1>1, <2>3, <2>4 DEF Busy, Held
    <3>3. /\ Cardinality(Busy(m)) \in Nat /\ Cardinality(Busy(m)') \in Nat
          /\ Cardinality(Busy(m)') = Cardinality(Busy(m)) + IF c.m = m THEN 1 ELSE 0
      BY <2>4, <3>2, BusyMove
    <3>4. AtConsumer(m)' = AtConsumer(m)
      BY <1>1 DEF AtConsumer, Held
    <3>5. Count(parking', m) \in Nat
      BY <2>2, CountNone
    <3>6. EventsIn(parking) = EventsIn(parking') \cup {c.m}
      BY <2>2, EventsOfCopies
    <3>7. Copies(m)' <= Copies(m)
      <4>1. Count(queue', m) = Count(queue, m) /\ Count(retry', m) = Count(retry, m)
        BY <1>1
      <4> QED
        BY <3>1, <3>3, <3>4, <3>5, <4>1, CopiesSum, NextParts DEF CountInv
    <3>8. InBroker(m)' => InBroker(m)
      BY <1>1, <2>4, <3>6, NextParts DEF InBroker, Held
    <3> QED
      BY <3>7, <3>8
  <2>6. Climbs
    BY <1>1, <2>2, <2>4 DEF Climbs, Ladder, Charged
  <2> QED
    BY <2>5, <2>6
<1> QED
  BY <1>1, <1>2, <1>3 DEF Get

(* What was peeked at is parked again. *)
LEMMA PutBackMoves == ASSUME CountInv, NEW n \in Operators, PutBack(n) PROVE Moved /\ Climbs
<1> PICK c : c = operator[n].copy
  OBVIOUS
<1>1. /\ c \in Parked /\ parking \in Seq(Parked) /\ operator \in [Operators -> Operator]
      /\ operator[n].pc = "requeue" /\ parking' = <<c>> \o parking
      /\ UNCHANGED <<queue, retry, consumer, failed, crashes>>
  BY DEF CountInv, Inv, Shape, TypeOK, PutBack
<1>2. CopiesIn(parking') = CopiesIn(parking) \cup {c}
  BY <1>1, CopiesInPush
<1>3. /\ operator'[n].pc = "get" /\ operator'[n].copy = None
      /\ \A o \in Operators : o # n => operator'[o] = operator[o]
  BY <1>1, NextTurnHoldsNothing DEF PutBack
<1>4. c # None
  BY <1>1, Shapes, NoneIsNoCopy
<1>5. Moved
  <2> SUFFICES ASSUME NEW m \in Messages
               PROVE  Copies(m)' <= Copies(m) /\ (InBroker(m)' => InBroker(m))
    BY DEF Moved
  <2>1. Count(parking', m) = Count(parking, m) + IF c.m = m THEN 1 ELSE 0
    BY <1>1, CountPush
  <2>2. (n \in Busy(m) <=> c.m = m) /\ n \notin Busy(m)'
    BY <1>1, <1>3, <1>4 DEF Busy, Held
  <2>3. /\ Cardinality(Busy(m)) \in Nat /\ Cardinality(Busy(m)') \in Nat
        /\ Cardinality(Busy(m)') + (IF c.m = m THEN 1 ELSE 0) = Cardinality(Busy(m))
    BY <1>3, <2>2, BusyMove
  <2>4. AtConsumer(m)' = AtConsumer(m)
    BY <1>1 DEF AtConsumer, Held
  <2>5. EventsIn(parking') = EventsIn(parking) \cup {c.m}
    BY <1>2, EventsOfCopies
  <2>6. Copies(m)' <= Copies(m)
    <3>1. Count(queue', m) = Count(queue, m) /\ Count(retry', m) = Count(retry, m)
      BY <1>1
    <3> QED
      BY <2>1, <2>3, <2>4, <3>1, CopiesSum, NextParts DEF CountInv
  <2>7. InBroker(m)' => InBroker(m)
    <3>1. m \in EventsIn(parking)' => m \in EventsIn(parking) \/ Held(operator[n], m)
      BY <1>4, <2>5, NextParts DEF Held
    <3>2. EventsIn(queue)' = EventsIn(queue) /\ EventsIn(retry)' = EventsIn(retry)
      BY <1>1, NextParts
    <3>3. Held(consumer, m)' => Held(consumer, m)
      BY <1>1 DEF Held
    <3>4. \A o \in Operators : Held(operator[o], m)' => Held(operator[o], m)
      BY <1>3 DEF Held
    <3> QED
      BY <3>1, <3>2, <3>3, <3>4 DEF InBroker
  <2> QED
    BY <2>6, <2>7
<1>6. Climbs
  BY <1>1, <1>2, <1>3 DEF Climbs, Ladder, Charged
<1> QED
  BY <1>5, <1>6

(* A replayed copy starts again, and its event with no failure charged:    *)
(* there is no other copy whose deaths would not be.                       *)
LEMMA ReplayMoves == ASSUME CountInv, NEW n \in Operators, Replay(n) PROVE Moved /\ Climbs
<1> PICK c : c = operator[n].copy
  OBVIOUS
<1> PICK d : d = Replayed(c)
  OBVIOUS
<1>1. /\ c \in Parked /\ queue \in Seq(Waiting) /\ operator \in [Operators -> Operator]
      /\ operator[n] \in Operator /\ operator[n].pc = "replay"
      /\ queue' = Routed(queue, d) /\ failed \in [Messages -> Nat]
      /\ failed' = [failed EXCEPT ![c.m] = 0]
      /\ UNCHANGED <<retry, parking, consumer, crashes>>
  BY DEF CountInv, Inv, Shape, TypeOK, Replay
<1>2. d \in Waiting /\ d.m = c.m /\ c # None /\ c.m \in Messages
  BY <1>1, Shapes, ShapesKeepEvent, NoneIsNoCopy DEF Parked, Copy
<1>3. d.deaths = 0
  BY <1>1, Shapes DEF Replayed, Parked, Copy
<1>4. queue' = Append(queue, d) /\ CopiesIn(queue') = CopiesIn(queue) \cup {d}
  BY <1>1, <1>2, CopiesInAppend DEF Routed, Waiting
<1>5. /\ operator'[n].pc = "ack" /\ operator'[n].copy = c
      /\ \A o \in Operators : o # n => operator'[o] = operator[o]
  BY <1>1 DEF Replay, Operator
<1>6. Moved
  <2> SUFFICES ASSUME NEW m \in Messages
               PROVE  Copies(m)' <= Copies(m) /\ (InBroker(m)' => InBroker(m))
    BY DEF Moved
  <2>1. Count(queue', m) = Count(queue, m) + IF c.m = m THEN 1 ELSE 0
    <3>1. queue \in Seq(Waiting) /\ d \in Waiting
      BY <1>1, <1>2
    <3>2. Count(Append(queue, d), m) = Count(queue, m) + IF d.m = m THEN 1 ELSE 0
      BY <3>1, CountAppend
    <3> QED
      BY <1>2, <1>4, <3>2
  <2>2. (n \in Busy(m) <=> c.m = m) /\ n \notin Busy(m)'
    BY <1>1, <1>2, <1>5 DEF Busy, Held
  <2>3. /\ Cardinality(Busy(m)) \in Nat /\ Cardinality(Busy(m)') \in Nat
        /\ Cardinality(Busy(m)') + (IF c.m = m THEN 1 ELSE 0) = Cardinality(Busy(m))
    BY <1>5, <2>2, BusyMove
  <2>4. AtConsumer(m)' = AtConsumer(m)
    BY <1>1 DEF AtConsumer, Held
  <2>5. EventsIn(queue') = EventsIn(queue) \cup {c.m}
    BY <1>2, <1>4, EventsOfCopies
  <2>6. Copies(m)' <= Copies(m)
    <3>1. Count(retry', m) = Count(retry, m) /\ Count(parking', m) = Count(parking, m)
      BY <1>1
    <3> QED
      BY <2>1, <2>3, <2>4, <3>1, CopiesSum, NextParts DEF CountInv
  <2>7. InBroker(m)' => InBroker(m)
    BY <1>1, <1>2, <1>5, <2>5, NextParts DEF InBroker, Held
  <2> QED
    BY <2>6, <2>7
<1>7. ASSUME crashes = 0, Ladder PROVE Ladder'
  <2>1. n \in Busy(c.m)
    BY <1>1, <1>2 DEF Busy, Held
  <2>2. /\ c.m \notin EventsIn(queue) \cup EventsIn(retry) \cup EventsIn(parking)
        /\ AtConsumer(c.m) = 0 /\ Busy(c.m) = {n}
    BY <1>2, <1>7, <2>1, OnlyCopy
  <2>3. \A e, k : e.m # c.m /\ e.m \in Messages /\ Charged(e, k) => Charged(e, k)'
    BY <1>1 DEF Charged
  <2>4. /\ \A e \in CopiesIn(queue) : e.m # c.m /\ e.m \in Messages
        /\ \A e \in CopiesIn(retry) : e.m # c.m /\ e.m \in Messages
        /\ \A e \in CopiesIn(parking) : e.m # c.m /\ e.m \in Messages
    <3>1. /\ CopiesIn(queue) \subseteq Copy /\ CopiesIn(retry) \subseteq Copy
          /\ CopiesIn(parking) \subseteq Copy
      BY DEF CountInv, Inv, Shape, TypeOK, CopiesIn
    <3> QED
      BY <2>2, <3>1, EventsOfCopies DEF Copy
  <2>5. \A o \in Operators : o # n /\ operator[o].pc \in {"requeue", "replay"} =>
          operator[o].copy.m # c.m /\ operator[o].copy.m \in Messages
    <3> SUFFICES ASSUME NEW o \in Operators, o # n, operator[o].pc \in {"requeue", "replay"}
                 PROVE  operator[o].copy.m # c.m /\ operator[o].copy.m \in Messages
      OBVIOUS
    <3>1. operator[o].copy \in Copy
      BY Shapes DEF CountInv, Inv, Shape
    <3>2. operator[o].copy # None /\ o \notin Busy(c.m)
      BY <2>2, <3>1, NoneIsNoCopy
    <3> QED
      BY <3>1, <3>2 DEF Busy, Held, Copy
  <2>6. consumer.pc \in {"first", "second", "retry", "park"} =>
          consumer.copy.m # c.m /\ consumer.copy.m \in Messages
    <3>1. consumer.pc # "idle" => consumer.copy \in Copy /\ consumer.copy # None
      BY Shapes, NoneIsNoCopy DEF CountInv, Inv, Shape
    <3> QED
      BY <2>2, <3>1 DEF AtConsumer, Held, Copy
  <2>7. Charged(d, d.deaths)'
    BY <1>1, <1>2, <1>3 DEF Charged
  <2>8. /\ \A e \in CopiesIn(queue') : Charged(e, e.deaths)'
        /\ \A e \in CopiesIn(retry') : Charged(e, e.deaths + 1)'
        /\ \A e \in CopiesIn(parking') : Charged(e, MaxRetries + 1)'
    BY <1>1, <1>4, <1>7, <2>3, <2>4, <2>7 DEF Ladder
  <2>9. ASSUME NEW o \in Operators, operator'[o].pc \in {"requeue", "replay"}
        PROVE  Charged(operator[o].copy, MaxRetries + 1)'
    <3>1. o # n /\ operator'[o] = operator[o]
      BY <1>5, <2>9
    <3>2. Charged(operator[o].copy, MaxRetries + 1)
      BY <1>7, <2>9, <3>1 DEF Ladder
    <3> QED
      BY <1>1, <2>5, <2>9, <3>1, <3>2 DEF Charged
  <2>10. /\ consumer'.pc \in {"first", "second"} => Charged(consumer.copy, consumer.copy.deaths)'
         /\ consumer'.pc = "retry" => Charged(consumer.copy, consumer.copy.deaths + 1)'
         /\ consumer'.pc = "park" => Charged(consumer.copy, MaxRetries + 1)'
         /\ consumer'.pc # "requeue"
    BY <1>1, <1>7, <2>6 DEF Ladder, Charged
  <2> QED
    BY <2>8, <2>9, <2>10 DEF Ladder, CopiesIn, Charged
<1> QED
  BY <1>6, <1>7 DEF Climbs

(* The copy that this ack removes had been counted elsewhere. *)
LEMMA AckReplayedMoves ==
  ASSUME CountInv, NEW n \in Operators, AckReplayed(n) PROVE Moved /\ Climbs
<1>1. /\ UNCHANGED <<queue, retry, parking, consumer, failed, crashes>>
      /\ operator[n].pc = "ack" /\ operator \in [Operators -> Operator]
  BY DEF CountInv, Inv, Shape, TypeOK, AckReplayed
<1>2. /\ operator'[n].pc = "get" /\ operator'[n].copy = None
      /\ \A o \in Operators : o # n => operator'[o] = operator[o]
  BY <1>1, NextTurnHoldsNothing DEF AckReplayed
<1> QED
  BY <1>1, <1>2, IdleMoves

(* What is purged is gone. *)
LEMMA PurgeMoves == ASSUME CountInv, Purge PROVE Moved /\ Climbs
<1>1. /\ parking' = <<>>
      /\ UNCHANGED <<queue, retry, consumer, operator, failed, crashes>>
  BY DEF Purge
<1>2. Moved
  <2> SUFFICES ASSUME NEW m \in Messages
               PROVE  Copies(m)' <= Copies(m) /\ (InBroker(m)' => InBroker(m))
    BY DEF Moved
  <2>1. Count(parking', m) = 0 /\ EventsIn(parking') = {}
    BY <1>1, CountNothing, EventsInNothing
  <2>2. Busy(m)' = Busy(m) /\ AtConsumer(m)' = AtConsumer(m)
    BY <1>1 DEF Busy, AtConsumer, Held
  <2>3. Copies(m)' <= Copies(m)
    BY <1>1, <2>1, <2>2, CopiesSum, NextParts DEF CountInv
  <2>4. InBroker(m)' => InBroker(m)
    BY <1>1, <2>1, NextParts DEF InBroker, Held
  <2> QED
    BY <2>3, <2>4
<1>3. CopiesIn(parking') = {}
  BY <1>1, EventsInNothing
<1>4. Climbs
  BY <1>1, <1>3 DEF Climbs, Ladder, Charged
<1> QED
  BY <1>2, <1>4

(* A publish makes the first copy of an event of which there is none. *)
LEMMA PublishCounts ==
  ASSUME CountInv, NEW n \in Messages, Publish(n)
  PROVE  /\ \A m \in Messages : Copies(m)' <= Copies(m) + (IF m = n THEN 1 ELSE 0)
         /\ \A m \in Messages : InBroker(m)' => InBroker(m) \/ m = n
         /\ Copies(n) = 0 /\ Climbs
<1> PICK c : c = Fresh(n)
  OBVIOUS
<1>1. /\ c \in Waiting /\ c.m = n /\ c.key = "event" /\ c.deaths = 0
      /\ queue \in Seq(Waiting)
      /\ UNCHANGED <<retry, parking, consumer, operator, failed, crashes>>
  BY Shapes, ShapesKeepEvent DEF Fresh, CountInv, Inv, Shape, Publish
<1>2. queue' = Append(queue, c) /\ CopiesIn(queue') = CopiesIn(queue) \cup {c}
  BY <1>1, CopiesInAppend DEF Publish, Routed
<1>3. ~InBroker(n) /\ failed[n] = 0
  BY DEF CountInv, Unpublished, Publish
<1>4. ASSUME NEW m \in Messages
      PROVE  /\ Copies(m)' <= Copies(m) + (IF m = n THEN 1 ELSE 0)
             /\ InBroker(m)' => InBroker(m) \/ m = n
  <2>1. Count(queue', m) = Count(queue, m) + IF m = n THEN 1 ELSE 0
    <3>1. queue \in Seq(Waiting) /\ c \in Waiting
      BY <1>1
    <3>2. Count(Append(queue, c), m) = Count(queue, m) + IF c.m = m THEN 1 ELSE 0
      BY <3>1, CountAppend
    <3> QED
      BY <1>1, <1>2, <3>2
  <2>2. Busy(m)' = Busy(m) /\ AtConsumer(m)' = AtConsumer(m)
    BY <1>1 DEF Busy, AtConsumer, Held
  <2>3. EventsIn(queue') = EventsIn(queue) \cup {n}
    BY <1>1, <1>2, EventsOfCopies
  <2>4. Count(retry', m) = Count(retry, m) /\ Count(parking', m) = Count(parking, m)
    BY <1>1
  <2>5. Copies(m)' <= Copies(m) + (IF m = n THEN 1 ELSE 0)
    BY <2>1, <2>2, <2>4, CopiesSum, NextParts DEF CountInv
  <2>6. InBroker(m)' => InBroker(m) \/ m = n
    BY <1>1, <2>3, NextParts DEF InBroker, Held
  <2> QED
    BY <2>5, <2>6
<1>5. Copies(n) = 0
  <2>1. Inv /\ queue \in Seq(Waiting) /\ retry \in Seq(Retrying) /\ parking \in Seq(Parked)
    BY DEF CountInv, Inv, Shape
  <2>2. Count(queue, n) = 0 /\ Count(retry, n) = 0 /\ Count(parking, n) = 0
    BY <1>3, <2>1, CountNone DEF InBroker
  <2>3. AtConsumer(n) = 0 /\ Busy(n) = {}
    BY <1>3 DEF InBroker, AtConsumer, Busy
  <2> QED
    BY <2>1, <2>2, <2>3, CopiesSum, FS_EmptySet
<1>6. Climbs
  BY <1>1, <1>2, <1>3 DEF Climbs, Ladder, Charged
<1> QED
  BY <1>4, <1>5, <1>6

(* A crash makes a copy again of each whose ack was pending: one with the  *)
(* consumer and one with each operator at most.                            *)
LEMMA CrashCounts ==
  ASSUME CountInv, Crash
  PROVE  \A m \in Messages : /\ Copies(m)' <= Copies(m) + 1 + Cardinality(Operators)
                             /\ InBroker(m)' => InBroker(m)
<1> SUFFICES ASSUME NEW m \in Messages
             PROVE  /\ Copies(m)' <= Copies(m) + 1 + Cardinality(Operators)
                    /\ InBroker(m)' => InBroker(m)
  OBVIOUS
<1>1. /\ UNCHANGED <<queue, retry, parking>>
      /\ consumer'.copy = consumer.copy
      /\ \A o \in Operators : operator'[o].copy = operator[o].copy
  BY DEF CountInv, Inv, Shape, TypeOK, Crash, Consumer, Operator, IdleOperator
<1>2. Busy(m)' \subseteq Operators
  BY DEF Busy
<1>3. /\ Cardinality(Operators) \in Nat /\ Cardinality(Busy(m)') \in Nat
      /\ Cardinality(Busy(m)') <= Cardinality(Operators)
  BY <1>2, OperatorsAssumption, FS_Subset, FS_CardinalityType
<1>4. AtConsumer(m)' \in 0..1
  BY DEF AtConsumer
<1>5. /\ Count(queue', m) = Count(queue, m) /\ Count(retry', m) = Count(retry, m)
      /\ Count(parking', m) = Count(parking, m)
  BY <1>1
<1>6. Copies(m)' <= Copies(m) + 1 + Cardinality(Operators)
  BY <1>3, <1>4, <1>5, CopiesSum, NextParts DEF CountInv
<1>7. InBroker(m)' => InBroker(m)
  BY <1>1, NextParts DEF InBroker, Held
<1> QED
  BY <1>6, <1>7

(* Only a failed send of the consumer's own copy changes the failures of   *)
(* an event for the worse, and only Publish what is published.             *)
LEMMA UnpublishedStep ==
  ASSUME CountInv, [Next]_vars,
         \A m \in Messages : InBroker(m)' => InBroker(m) \/ m \in published'
  PROVE  Unpublished'
<1> SUFFICES ASSUME NEW m \in Messages, m \notin published' PROVE ~InBroker(m)' /\ failed'[m] = 0
  BY DEF Unpublished, InBroker, Held, EventsIn
<1>1. m \notin published /\ failed \in [Messages -> Nat]
  BY DEF CountInv, Inv, Shape, TypeOK, Next, vars, Publish, ConsumerStep, Deliver, Send,
         SendFails, RetryLater, Park, Ack, Requeue, Expire, Request, OperatorStep, Get, PutBack,
         Replay, AckReplayed, Purge, Crash
<1>2. ~InBroker(m) /\ failed[m] = 0
  BY <1>1 DEF CountInv, Unpublished
<1>3. CASE SendFails
  <2>1. consumer.copy # None
    BY <1>3, Shapes, NoneIsNoCopy DEF CountInv, Inv, Shape, SendFails
  <2>2. consumer.copy.m # m
    BY <1>2, <2>1 DEF InBroker, Held
  <2> QED
    BY <1>1, <1>2, <1>3, <2>2 DEF SendFails
<1>4. CASE \E o \in Operators : Replay(o)
  BY <1>1, <1>2, <1>4 DEF Replay
<1>5. CASE failed' = failed
  BY <1>1, <1>2, <1>5
<1> QED
  BY <1>3, <1>4, <1>5
  DEF Next, vars, Publish, ConsumerStep, Deliver, Send,
      RetryLater, Park, Ack, Requeue, Expire, Request, OperatorStep, Get, PutBack,
      AckReplayed, Purge, Crash

(* Every step but the two keeps both. *)
LEMMA OtherMoves ==
  ASSUME CountInv, ConsumerStep \/ Expire \/ Purge
                   \/ \E o \in Operators : Request(o) \/ OperatorStep(o)
  PROVE  Moved /\ Climbs
BY DeliverMoves, SendMoves, SendFailsMoves, RetryLaterMoves, ParkMoves, AckMoves, RequeueMoves,
   ExpireMoves, PurgeMoves, RequestMoves, GetMoves, PutBackMoves, ReplayMoves, AckReplayedMoves
DEF ConsumerStep, OperatorStep

(* The next state's copies are numbers too. *)
LEMMA CopiesAreNumbers == Inv' => \A m \in Messages : Copies(m)' \in Nat
<1> SUFFICES ASSUME Inv', NEW m \in Messages PROVE Copies(m)' \in Nat
  OBVIOUS
<1>1. queue' \in Seq(Waiting) /\ retry' \in Seq(Retrying) /\ parking' \in Seq(Parked)
  BY DEF Inv, Shape, Waiting, Retrying, Parked
<1>2. Count(queue', m) \in Nat /\ Count(retry', m) \in Nat /\ Count(parking', m) \in Nat
  BY <1>1, CountNone
<1>3. IsFiniteSet(Busy(m)')
  BY OperatorsAssumption, FS_Subset DEF Busy
<1>4. Cardinality(Busy(m)') \in Nat /\ AtConsumer(m)' \in 0..1
  BY <1>3, FS_CardinalityType DEF AtConsumer
<1> QED
  BY <1>2, <1>4, NextParts

(* One crash more allows a copy more for each ack that can be pending. *)
LEMMA OneCrashMore ==
  ASSUME NEW n \in Nat, NEW k \in Nat
  PROVE  (n + 1) * k = n * k + k /\ n * k \in Nat
OBVIOUS

LEMMA CountStep == ASSUME CountInv, [Next]_vars PROVE CountInv'
<1> DEFINE Bound(n) == 1 + n * (1 + Cardinality(Operators))
<1>0. /\ Inv /\ Inv' /\ crashes \in Nat /\ 1 + Cardinality(Operators) \in Nat
      /\ Cardinality(Operators) \in Nat
  BY NextKeeps, OperatorsAssumption, FS_CardinalityType, BoundsAssumption
  DEF CountInv, Inv, Shape, TypeOK
<1>1. \A m \in Messages : Copies(m) \in Nat /\ Copies(m) <= Bound(crashes)
  BY <1>0, CopiesSum DEF CountInv, DuplicatesNeedCrash
<1>2. Bound(crashes) \in Nat /\ Bound(crashes) >= 1
      /\ Bound(crashes + 1) = Bound(crashes) + 1 + Cardinality(Operators)
  BY <1>0, OneCrashMore
<1>3. \A m \in Messages : Copies(m)' \in Nat
  BY <1>0, CopiesAreNumbers
<1> HIDE DEF Bound
<1>4. /\ \A m \in Messages : Copies(m)' <= Bound(crashes')
      /\ \A m \in Messages : InBroker(m)' => InBroker(m) \/ m \in published'
  <2>1. ASSUME NEW n \in Messages, Publish(n)
        PROVE  /\ \A m \in Messages : Copies(m)' <= Bound(crashes')
               /\ \A m \in Messages : InBroker(m)' => InBroker(m) \/ m \in published'
    <3>1. crashes' = crashes /\ n \in published'
      BY <2>1 DEF Publish
    <3> QED
      BY <1>1, <1>2, <1>3, <2>1, <3>1, PublishCounts
  <2>2. CASE Crash
    <3>1. crashes' = crashes + 1
      BY <2>2 DEF Crash
    <3> QED
      BY <1>0, <1>1, <1>2, <1>3, <2>2, <3>1, CrashCounts
  <2>3. CASE ConsumerStep \/ Expire \/ Purge \/ \E o \in Operators : Request(o) \/ OperatorStep(o)
    <3>1. crashes' = crashes
      BY <2>3 DEF ConsumerStep, Deliver, Send, SendFails, RetryLater, Park, Ack, Requeue, Expire,
                  Request, OperatorStep, Get, PutBack, Replay, AckReplayed, Purge
    <3> QED
      BY <1>1, <1>2, <1>3, <2>3, <3>1, OtherMoves DEF Moved
  <2>4. CASE UNCHANGED vars
    <3>1. crashes' = crashes /\ \A m \in Messages : Copies(m)' = Copies(m) /\ (InBroker(m)' <=> InBroker(m))
      BY <2>4 DEF vars, Copies, Count, Held, InBroker, EventsIn
    <3> QED
      BY <1>1, <3>1
  <2> QED
    BY <2>1, <2>2, <2>3, <2>4 DEF Next
<1>5. Unpublished'
  BY <1>4, UnpublishedStep
<1>6. DuplicatesNeedCrash'
  BY <1>4 DEF DuplicatesNeedCrash, Bound
<1> QED
  BY <1>0, <1>5, <1>6 DEF CountInv

LEMMA CountInit == Init => CountInv
<1> SUFFICES ASSUME Init PROVE CountInv
  OBVIOUS
<1>1. Inv
  BY InitInv
<1>2. Unpublished
  BY EventsInNothing DEF Init, Unpublished, InBroker, Held, IdleConsumer, IdleOperator
<1>3. ASSUME NEW m \in Messages PROVE Copies(m) = 0
  <2>1. AtConsumer(m) = 0 /\ Busy(m) = {}
    BY DEF Init, AtConsumer, Busy, Held, IdleConsumer, IdleOperator
  <2>2. Count(queue, m) = 0 /\ Count(retry, m) = 0 /\ Count(parking, m) = 0
    BY CountNothing DEF Init
  <2> QED
    BY <1>1, <2>1, <2>2, CopiesSum, FS_EmptySet
<1>4. DuplicatesNeedCrash
  <2>1. crashes = 0 /\ Cardinality(Operators) \in Nat
    BY OperatorsAssumption, FS_CardinalityType DEF Init
  <2>2. 1 + crashes * (1 + Cardinality(Operators)) = 1
    BY <2>1
  <2> QED
    BY <1>3, <2>2 DEF DuplicatesNeedCrash
<1> QED
  BY <1>1, <1>2, <1>4 DEF CountInv

LEMMA CountCorrect == Spec => []CountInv
BY CountInit, CountStep, PTL DEF Spec

(* A copy is made only by a publish, and moved by the ladder, by peeking   *)
(* and by replaying (consumer.js 21-84, dlqService.js 11-56): the copies   *)
(* of an event are more than one only after a crash, and one more at most  *)
(* for each ack that was pending.                                          *)
THEOREM DuplicatesOnlyByCrash == Spec => []DuplicatesNeedCrash
<1>1. CountInv => DuplicatesNeedCrash
  BY DEF CountInv
<1> QED
  BY <1>1, CountCorrect, PTL

LEMMA LadderStep == ASSUME LadderInv, [Next]_vars PROVE LadderInv'
<1>1. CountInv /\ CountInv' /\ crashes \in Nat
  BY CountStep DEF LadderInv, CountInv, Inv, Shape, TypeOK
<1>2. ASSUME crashes' = 0 PROVE Ladder'
  <2>1. CASE Crash
    <3>1. crashes' = crashes + 1
      BY <2>1 DEF Crash
    <3> QED
      BY <1>1, <1>2, <3>1
  <2>2. CASE UNCHANGED vars
    BY <1>2, <2>2 DEF vars, LadderInv, Ladder, Charged
  <2>3. CASE ~Crash /\ Next
    <3>1. Climbs
      BY <1>1, <2>3, PublishCounts, OtherMoves DEF Next
    <3>2. crashes' = crashes
      BY <2>3 DEF Next, Publish, ConsumerStep, Deliver, Send, SendFails, RetryLater, Park, Ack,
                  Requeue, Expire, Request, OperatorStep, Get, PutBack, Replay, AckReplayed, Purge
    <3> QED
      BY <1>2, <3>1, <3>2 DEF LadderInv, Climbs
  <2> QED
    BY <2>1, <2>2, <2>3
<1> QED
  BY <1>1, <1>2 DEF LadderInv

(* "Four attempts logged as 1/4 through 4/4, then the message parked", and *)
(* "a replayed message gets a full fresh retry budget" (README.md:793,     *)
(* 806): for any retry limit, however often operators replay the event,    *)
(* and whatever is published, parked, peeked at and purged meanwhile.      *)
THEOREM LadderIsFull == Spec => []FullLadder
<1>1. Init => LadderInv
  BY CountInit, EventsInNothing DEF Init, LadderInv, Ladder, IdleConsumer, IdleOperator
<1>2. LadderInv => FullLadder
  BY EventsOfCopies DEF LadderInv, Ladder, FullLadder, Charged
<1> QED
  BY <1>1, <1>2, LadderStep, PTL DEF Spec

-----------------------------------------------------------------------------
(* Notifications implements Delivery.                                      *)
InHand == {m \in Messages : InBroker(m)}

(* Needed and open, as the instance writes them. *)
LEMMA MailboxParts ==
  /\ Mailbox!deliveryVars = <<published, InHand, notified, purged>>
  /\ \A m \in Messages : Mailbox!Settled(m) <=> Delivered(m) \/ m \in purged
BY DEF Mailbox!deliveryVars, InHand, Mailbox!Settled, Delivered

(* What leaves the broker leaves it settled, or it would have been lost.   *)
LEMMA CloseMaps ==
  ASSUME CountInv, CountInv', UNCHANGED <<published, notified, purged>>,
         \A m \in Messages : InBroker(m)' => InBroker(m)
  PROVE  Mailbox!Close
<1>1. InHand' \subseteq InHand
  BY DEF InHand
<1>2. ASSUME NEW m \in InHand, m \notin InHand' PROVE Delivered(m) \/ m \in purged
  <2>1. m \in Messages /\ InBroker(m) /\ ~InBroker(m)'
    BY <1>2 DEF InHand
  <2>2. m \in published'
    BY <2>1 DEF CountInv, Unpublished
  <2>3. Safe(m)' /\ ~Secured(m)'
    BY <2>1, <2>2 DEF CountInv, Inv, Secured, InBroker
  <2> QED
    BY <2>3 DEF Safe, Delivered
<1> QED
  BY <1>1, <1>2, MailboxParts DEF Mailbox!Close, Mailbox!Settled, Delivered, InHand

LEMMA StepMaps ==
  ASSUME CountInv, CountInv', [Next]_vars
  PROVE  [Mailbox!Next]_(Mailbox!deliveryVars)
<1> SUFFICES Mailbox!Next \/ UNCHANGED <<published, InHand, notified, purged>>
  BY MailboxParts DEF Mailbox!deliveryVars, InHand
<1>1. ASSUME NEW n \in Messages, Publish(n) PROVE Mailbox!Publish(n)
  <2>1. /\ n \notin published /\ published' = published \cup {n}
        /\ UNCHANGED <<retry, parking, consumer, operator, notified, purged>>
        /\ queue' = Append(queue, Fresh(n))
    BY <1>1 DEF Publish, Routed, Fresh
  <2>2. EventsIn(queue') = EventsIn(queue) \cup {n}
    BY <2>1, Shapes, ShapesKeepEvent, EventsInAppend DEF CountInv, Inv, Shape
  <2>3. \A m \in Messages : InBroker(m)' <=> InBroker(m) \/ m = n
    BY <2>1, <2>2, NextParts DEF InBroker
  <2> QED
    BY <2>1, <2>3 DEF Mailbox!Publish
<1>2. CASE Send
  <2>1. /\ consumer.pc \in {"first", "second"} /\ consumer.copy \in Waiting
        /\ consumer'.copy = consumer.copy
        /\ notified' = [notified EXCEPT ![consumer.copy.m] = @ \cup {consumer.pc}]
        /\ consumer.pc = "second" => consumer.copy.m \in Double
        /\ UNCHANGED <<published, queue, retry, parking, operator, purged>>
    BY <1>2 DEF CountInv, Inv, Shape, TypeOK, Consumer, Send, Become
  <2>2. InHand' = InHand
    BY <2>1, NextParts DEF InBroker, InHand, Held
  <2>3. consumer.copy.m \in Messages /\ InBroker(consumer.copy.m)
    BY <2>1, Shapes, NoneIsNoCopy DEF InBroker, Held, Copy
  <2>4. consumer.pc \in Sends(consumer.copy.m)
    BY <2>1 DEF Sends
  <2>5. Mailbox!Notify(consumer.copy.m)
    BY <2>1, <2>2, <2>3, <2>4 DEF Mailbox!Notify, InHand
  <2> QED
    BY <2>3, <2>5 DEF Mailbox!Next
<1>3. CASE Purge
  <2>1. /\ purged' = purged \cup EventsIn(parking) /\ parking' = <<>>
        /\ UNCHANGED <<published, queue, retry, consumer, operator, notified>>
    BY <1>3 DEF Purge
  <2>2. EventsIn(parking') = {}
    BY <2>1, EventsInNothing
  <2>3. EventsIn(parking) \subseteq InHand
    <3>1. CopiesIn(parking) \subseteq Copy
      BY DEF CountInv, Inv, Shape, TypeOK, CopiesIn
    <3> QED
      BY <3>1, EventsOfCopies DEF InHand, InBroker, Copy
  <2>4. InHand \ EventsIn(parking) \subseteq InHand' /\ InHand' \subseteq InHand
    BY <2>1, <2>2, NextParts DEF InHand, InBroker
  <2>5. Mailbox!Discard
    BY <2>1, <2>3, <2>4 DEF Mailbox!Discard, InHand
  <2> QED
    BY <2>5 DEF Mailbox!Next
<1>4. CASE Crash
  <2>1. Mailbox!Close
    BY <1>4, CrashCounts, CloseMaps DEF Crash
  <2> QED
    BY <2>1 DEF Mailbox!Next
<1>5. CASE (ConsumerStep /\ ~Send) \/ Expire \/ \E o \in Operators : Request(o) \/ OperatorStep(o)
  <2>1. UNCHANGED <<published, notified, purged>>
    BY <1>5 DEF ConsumerStep, Deliver, SendFails, RetryLater, Park, Ack, Requeue, Expire,
                Request, OperatorStep, Get, PutBack, Replay, AckReplayed
  <2>2. Moved
    BY <1>5, OtherMoves
  <2>3. Mailbox!Close
    BY <2>1, <2>2, CloseMaps DEF Moved
  <2> QED
    BY <2>3 DEF Mailbox!Next
<1>6. CASE UNCHANGED vars
  BY <1>6, NextParts DEF vars, InHand, InBroker
<1> QED
  BY <1>1, <1>2, <1>3, <1>4, <1>5, <1>6 DEF Next, Mailbox!Next

(* The retry ladder, the parking queue with its operators, and the acks    *)
(* that a death of the process interrupts implement Delivery: every step   *)
(* publishes, notifies, discards or closes an event, or changes nothing    *)
(* that Delivery speaks of.                                                *)
THEOREM ImplementsDelivery == Spec => DeliversAtLeastOnce
<1>1. Init => Mailbox!Init
  BY CountInit, EventsInNothing
  DEF Init, Mailbox!Init, InBroker, Held, IdleConsumer, IdleOperator
<1>2. CountInv /\ CountInv' /\ [Next]_vars => [Mailbox!Next]_(Mailbox!deliveryVars)
  BY StepMaps
<1> QED
  BY <1>1, <1>2, CountCorrect, PTL DEF Spec, DeliversAtLeastOnce, Mailbox!Spec
=============================================================================
