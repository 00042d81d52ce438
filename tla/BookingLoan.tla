---------------------------- MODULE BookingLoan -----------------------------
(***************************************************************************)
(* booking-service with the inventory-service it calls: the bookings       *)
(* collection in MongoDB, the requests of booking-service's event loop,    *)
(* their HTTP calls (each a handler of Inventory), and what reaches the    *)
(* topic exchange.                                                         *)
(*                                                                         *)
(* A request r is suspended at an await, named by pc:                      *)
(*   create:  getItem -> insert -> publish -> reply                        *)
(*   change:  find -> save -> [sendLoan -> loan ->] publish -> reply       *)
(* Its HTTP call runs in the inventory slot r; the slots Direct serve the  *)
(* users' own requests to inventory-service.                               *)
(***************************************************************************)
EXTENDS Inventory, BookingState, Naturals, FiniteSets

CONSTANTS
  Bookings,     \* the ids a booking can get
  Admins,       \* the users with role ADMIN
  Requests,     \* booking-service's requests
  Direct,       \* requests of users to inventory-service itself
  MaxInFlight   \* bound: client requests in flight at once

ASSUME SlotsAssumption == Handlers = Requests \cup Direct /\ Requests \cap Direct = {}
ASSUME AdminsAssumption == Admins \subseteq Staff
ASSUME NoBookingAssumption ==
  /\ None \notin Bookings /\ None \notin Statuses
  /\ None \notin [itemId : Items, userId : Users, ownerId : Users,
                  status : Statuses, stamps : SUBSET Targets]

VARIABLES
  booking,      \* the bookings collection: a record or None for each id
  req,          \* booking-service's requests
  channel,      \* its RabbitMQ channel: "open" or "closed"
  published     \* the events on the exchange, as <<booking, event>>

bookingVars == <<booking, req, channel, published>>

vars == <<item, cache, hdl, origin, booking, req, channel, published>>

(* stamps has a status when its date (approvedAt, ...) is set. *)
Booking ==
  [itemId : Items, userId : Users, ownerId : Users,
   status : Statuses, stamps : SUBSET Targets]

(* What a request is to do: create a booking, or change one's status. *)
Intents == {"none", "CREATE"} \cup Targets

Request ==
  [pc : {"idle", "getItem", "insert", "find", "save", "sendLoan", "loan", "publish", "reply"},
   op : Intents,
   b : Bookings \cup {None},
   user : Users \cup {None},
   item : Items \cup {None},
   owner : Users \cup {None},
   out : {"none", "ok", "notFound", "forbidden", "badRequest", "unavailable", "error"}]

IdleRequest ==
  [pc |-> "idle", op |-> "none", b |-> None, user |-> None, item |-> None,
   owner |-> None, out |-> "none"]

Init ==
  /\ InventoryInit
  /\ booking = [b \in Bookings |-> None]
  /\ req = [r \in Requests |-> IdleRequest]
  /\ channel = "open"
  /\ published = {}

-----------------------------------------------------------------------------
InFlight == {r \in Requests : req[r].pc # "idle"} \cup {h \in Direct : ~Idle(h)}

Admitted == Cardinality(InFlight) < MaxInFlight

(* No second handler can have the id Mongoose is to give a new booking. *)
Free(b) == booking[b] = None /\ \A r \in Requests : ~(req[r].op = "CREATE" /\ req[r].b = b)

Go(r, pc) == req' = [req EXCEPT ![r].pc = pc]

Reply(r, out) == req' = [req EXCEPT ![r] = [IdleRequest EXCEPT !.pc = "reply", !.out = out]]

(* POST /bookings: the item is asked of inventory-service before anything. *)
ArriveCreate(r) ==
  /\ Admitted
  /\ req[r].pc = "idle"
  /\ \E u \in Users, i \in Items, b \in Bookings :
       /\ Free(b)
       /\ req' = [req EXCEPT ![r] = [IdleRequest EXCEPT !.pc = "getItem", !.op = "CREATE",
                                                        !.b = b, !.user = u, !.item = i]]
       /\ Begin(r, GetCall(i))
  /\ UNCHANGED <<booking, channel, published>>

(* Mutant of Refused: one may book an item of one's own. *)
RefusedIgnoresOwner(row, user) == user # None /\ (~row.isListed \/ row.isOnLoan)

Refused(row, user) == row.ownerId = user \/ ~row.isListed \/ row.isOnLoan

(* createBooking from the answer on: 404 stays 404, any other failure is a *)
(* 503; an own, unlisted or lent item is refused.                          *)
ItemReceived(r) ==
  /\ req[r].pc = "getItem" /\ hdl[r].pc = "reply"
  /\ LET row == hdl[r].row IN
       \/ hdl[r].out = "notFound" /\ Reply(r, "notFound")
       \/ hdl[r].out \notin {"ok", "notFound"} /\ Reply(r, "unavailable")
       \/ hdl[r].out = "ok" /\ Refused(row, req[r].user) /\ Reply(r, "badRequest")
       \/ /\ hdl[r].out = "ok" /\ ~Refused(row, req[r].user)
          /\ req' = [req EXCEPT ![r].pc = "insert", ![r].owner = row.ownerId]
  /\ Respond(r)
  /\ UNCHANGED <<booking, channel, published>>

CreateBooking(r) ==
  /\ req[r].pc = "insert"
  /\ booking' = [booking EXCEPT ![req[r].b] =
                   [itemId |-> req[r].item, userId |-> req[r].user, ownerId |-> req[r].owner,
                    status |-> "PENDING", stamps |-> {}]]
  /\ req' = [req EXCEPT ![r].pc = "publish", ![r].user = None, ![r].owner = None]
  /\ UNCHANGED <<inventoryVars, channel, published>>

(* PATCH /bookings/:id/approve, reject, cancel, return *)
ArriveChange(r) ==
  /\ Admitted
  /\ req[r].pc = "idle"
  /\ Idle(r)
  /\ \E u \in Users, b \in Bookings, to \in Targets :
       req' = [req EXCEPT ![r] = [IdleRequest EXCEPT !.pc = "find", !.op = to,
                                                     !.b = b, !.user = u]]
  /\ UNCHANGED <<inventoryVars, booking, channel, published>>

(* assertCanTransition *)
MayDrive(bk, to, user) ==
  \/ user \in Admins
  \/ to = "CANCELLED" /\ bk.userId = user
  \/ to # "CANCELLED" /\ bk.ownerId = user

(* Mutant of FindBooking: canTransition is not asked. *)
FindBookingUnchecked(r) ==
  /\ req[r].pc = "find"
  /\ LET bk == booking[req[r].b] IN
       \/ bk = None /\ Reply(r, "notFound")
       \/ bk # None /\ ~MayDrive(bk, req[r].op, req[r].user) /\ Reply(r, "forbidden")
       \/ /\ bk # None /\ MayDrive(bk, req[r].op, req[r].user)
          /\ req' = [req EXCEPT ![r].pc = "save", ![r].user = None, ![r].item = bk.itemId]
  /\ UNCHANGED <<inventoryVars, booking, channel, published>>

(* The booking is read and both checks are made on what was read. *)
FindBooking(r) ==
  /\ req[r].pc = "find"
  /\ LET bk == booking[req[r].b]
         to == req[r].op
     IN \/ bk = None /\ Reply(r, "notFound")
        \/ bk # None /\ ~MayDrive(bk, to, req[r].user) /\ Reply(r, "forbidden")
        \/ /\ bk # None /\ MayDrive(bk, to, req[r].user)
           /\ ~CanTransition(bk.status, to)
           /\ Reply(r, "badRequest")
        \/ /\ bk # None /\ MayDrive(bk, to, req[r].user)
           /\ CanTransition(bk.status, to)
           /\ req' = [req EXCEPT ![r].pc = "save", ![r].user = None, ![r].item = bk.itemId]
  /\ UNCHANGED <<inventoryVars, booking, channel, published>>

AfterSave(to) == IF CallsInventory(to) THEN "sendLoan" ELSE "publish"

(* Mutant of SaveBooking: one date is forgotten. *)
SaveBookingUndated(r) ==
  /\ req[r].pc = "save"
  /\ booking' = [booking EXCEPT ![req[r].b].status = req[r].op,
                                ![req[r].b].stamps = @ \cup ({req[r].op} \ {"RETURNED"})]
  /\ Go(r, AfterSave(req[r].op))
  /\ UNCHANGED <<inventoryVars, channel, published>>

(* Mutant of SaveBooking: save() is not awaited and its failure not seen. *)
SaveBookingUnawaited(r) ==
  /\ req[r].pc = "save"
  /\ \/ booking' = booking
     \/ booking' = [booking EXCEPT ![req[r].b].status = req[r].op,
                                   ![req[r].b].stamps = @ \cup {req[r].op}]
  /\ Go(r, AfterSave(req[r].op))
  /\ UNCHANGED <<inventoryVars, channel, published>>

(* booking.save() sets the status and its date, unconditionally: neither   *)
(* the status nor a version of the document is in its filter.              *)
SaveBooking(r) ==
  /\ req[r].pc = "save"
  /\ booking' = [booking EXCEPT ![req[r].b].status = req[r].op,
                                ![req[r].b].stamps = @ \cup {req[r].op}]
  /\ Go(r, AfterSave(req[r].op))
  /\ UNCHANGED <<inventoryVars, channel, published>>

(* Mutant of SendLoan: the flag does not depend on the request. *)
SendLoanAlwaysLocks(r) ==
  /\ req[r].pc = "sendLoan"
  /\ Begin(r, LoanCall(req[r].item, TRUE))
  /\ Go(r, "loan")
  /\ UNCHANGED <<booking, channel, published>>

SendLoan(r) ==
  /\ req[r].pc = "sendLoan"
  /\ Begin(r, LoanCall(req[r].item, req[r].op = "APPROVED"))
  /\ Go(r, "loan")
  /\ UNCHANGED <<booking, channel, published>>

(* Mutant of LoanAnswered: a failed call is not caught. *)
LoanAnsweredHangs(r) ==
  /\ req[r].pc = "loan" /\ hdl[r].pc = "reply" /\ hdl[r].out = "ok"
  /\ Go(r, "publish")
  /\ Respond(r)
  /\ UNCHANGED <<booking, channel, published>>

(* Mutant of LoanAnswered: the request returns before it publishes. *)
LoanAnsweredSilent(r) ==
  /\ req[r].pc = "loan" /\ hdl[r].pc = "reply"
  /\ Reply(r, IF hdl[r].out = "ok" THEN "ok" ELSE "unavailable")
  /\ Respond(r)
  /\ UNCHANGED <<booking, channel, published>>

(* Every failure of the loan call, a 404 included, is a 503 to the caller. *)
LoanAnswered(r) ==
  /\ req[r].pc = "loan" /\ hdl[r].pc = "reply"
  /\ \/ hdl[r].out = "ok" /\ Go(r, "publish")
     \/ hdl[r].out # "ok" /\ Reply(r, "unavailable")
  /\ Respond(r)
  /\ UNCHANGED <<booking, channel, published>>

(* Mutant of EventFor: the event is the status itself. *)
EventForRaw(r) == req[r].op

(* Mutant of EventFor: approvals and rejections are swapped in eventMap. *)
EventForSwapped(r) ==
  CASE req[r].op = "CREATE"   -> EventOf["PENDING"]
    [] req[r].op = "APPROVED" -> EventOf["REJECTED"]
    [] req[r].op = "REJECTED" -> EventOf["APPROVED"]
    [] OTHER                  -> EventOf[req[r].op]

EventFor(r) == IF req[r].op = "CREATE" THEN EventOf["PENDING"] ELSE EventOf[req[r].op]

(* publisher.js tests that there is a channel, not that it is open: on a   *)
(* closed one channel.publish throws and the request ends in a 500.        *)
Publish(r) ==
  /\ req[r].pc = "publish"
  /\ \/ /\ channel = "open"
        /\ published' = published \cup {<<req[r].b, EventFor(r)>>}
        /\ Reply(r, "ok")
     \/ /\ channel = "closed"
        /\ Reply(r, "error")
        /\ UNCHANGED published
  /\ UNCHANGED <<inventoryVars, booking, channel>>

(* The response is sent. *)
Finish(r) ==
  /\ req[r].pc = "reply"
  /\ req' = [req EXCEPT ![r] = IdleRequest]
  /\ UNCHANGED <<inventoryVars, booking, channel, published>>

-----------------------------------------------------------------------------
(* Faults.  An operation of booking-service's MongoDB fails: a 500. *)
MongoFails(r) ==
  /\ "mongo" \in Faults
  /\ req[r].pc \in {"insert", "find", "save"}
  /\ Reply(r, "error")
  /\ UNCHANGED <<inventoryVars, booking, channel, published>>

(* booking-service dies and is started again, which needs the broker: all  *)
(* its requests are gone, but a call it has sent is still served.          *)
Crash ==
  /\ "crash" \in Faults
  /\ req' = [r \in Requests |-> IdleRequest]
  /\ channel' = "open"
  /\ UNCHANGED <<inventoryVars, booking, published>>

(* Nobody waits for the answer of a call whose sender is gone. *)
DiscardOrphan(r) ==
  /\ req[r].pc \notin {"getItem", "loan"}
  /\ Respond(r)
  /\ UNCHANGED bookingVars

(* The broker closes the connection; nothing in booking-service reopens it. *)
BrokerCloses ==
  /\ "broker" \in Faults
  /\ channel' = "closed"
  /\ UNCHANGED <<inventoryVars, booking, req, published>>

RequestStep(r) ==
  \/ ItemReceived(r) \/ CreateBooking(r) \/ FindBooking(r) \/ SaveBooking(r)
  \/ SendLoan(r) \/ LoanAnswered(r) \/ Publish(r) \/ Finish(r)
  \/ DiscardOrphan(r)

InventorySide ==
  \/ \E h \in Handlers : (HandlerStep(h) \/ Abort(h)) /\ UNCHANGED bookingVars
  \/ \E h \in Direct : Admitted /\ UserCall(h) /\ UNCHANGED bookingVars
  \/ \E h \in Direct : Respond(h) /\ UNCHANGED bookingVars
  \/ \E i \in Items : Expire(i) /\ UNCHANGED bookingVars

Next ==
  \/ \E r \in Requests : ArriveCreate(r) \/ ArriveChange(r) \/ RequestStep(r) \/ MongoFails(r)
  \/ InventorySide
  \/ Crash
  \/ BrokerCloses

Spec == Init /\ [][Next]_vars

(* Both event loops resume what can be resumed and MongoDB answers; no     *)
(* client has to send a request, no fault has to happen, no cache entry    *)
(* has to expire and no call to Redis has to settle.                       *)
Fairness ==
  /\ \A r \in Requests : WF_vars(RequestStep(r))
  /\ \A h \in Handlers : WF_vars(StoreStep(h) /\ UNCHANGED bookingVars)
  /\ \A h \in Direct : WF_vars(Respond(h) /\ UNCHANGED bookingVars)

FairSpec == Spec /\ Fairness

-----------------------------------------------------------------------------
(* The variables have their types, with Inventory's. *)
TypeOK ==
  /\ InventoryTypeOK
  /\ booking \in [Bookings -> Booking \cup {None}]
  /\ req \in [Requests -> Request]
  /\ channel \in {"open", "closed"}
  /\ published \subseteq Bookings \X Events

Exists(b) == booking[b] # None

(* The statuses a booking has had. *)
Past(b) == IF Exists(b) THEN {"PENDING"} \cup booking[b].stamps ELSE {}

StatusOf(b) == IF Exists(b) THEN booking[b].status ELSE None

(* The dates tell the history, however requests overlap and whatever       *)
(* fails: a booking has the date of its status, it was approved if it was  *)
(* ever returned, and one that was never taken anywhere is PENDING.        *)
StampsRecordHistory ==
  \A b \in Bookings : Exists(b) =>
    /\ booking[b].status \in Past(b)
    /\ booking[b].stamps # {} => booking[b].status # "PENDING"
    /\ "RETURNED" \in booking[b].stamps => "APPROVED" \in booking[b].stamps

HasStamp(i, status) ==
  \E b \in Bookings : Exists(b) /\ booking[b].itemId = i /\ status \in booking[b].stamps

Locked(i) == item[i] # None /\ item[i].isOnLoan

(* An item is locked only if a booking of it was approved, also when the   *)
(* request that approved it is long dead and only its loan call survives - *)
(* or if it was posted on loan and no loan call has reached it since.      *)
LockOnlyByApproval ==
  \A i \in Items : Locked(i) => HasStamp(i, "APPROVED") \/ origin[i].lent

(* ... and is released only if a booking of it was returned. *)
UnlockOnlyByReturn ==
  [][\A i \in Items : item[i] # None /\ item'[i] # None =>
       (item[i].isOnLoan /\ ~item'[i].isOnLoan => HasStamp(i, "RETURNED"))]_vars

(* Subscribers are told nothing that did not happen: the status an event   *)
(* announces is in MongoDB before the event is on the exchange, and stays  *)
(* in the booking's history.                                               *)
EventsAreTrue ==
  \A b \in Bookings, status \in Statuses :
    <<b, EventOf[status]>> \in published => status \in Past(b)

(* A booking's snapshot of the owner, taken from a possibly stale cache    *)
(* entry and used to authorise approvals ever after, names somebody who    *)
(* has owned the item, whatever is deleted and posted again meanwhile; and *)
(* nobody has booked an item of their own.                                 *)
OwnerSnapshotGenuine ==
  \A b \in Bookings : Exists(b) =>
    /\ booking[b].ownerId \in origin[booking[b].itemId].owners
    /\ booking[b].userId # booking[b].ownerId

(* What a request holds at each of its awaits. *)
RequestOK(r) ==
  LET q == req[r]
      bk == booking[q.b]
  IN
  /\ q.pc \notin {"idle", "reply"} => q.b \in Bookings
  /\ q.pc \in {"idle", "reply"} => q.op = "none"
  /\ q.pc \in {"getItem", "insert"} =>
       q.op = "CREATE" /\ bk = None /\ q.item \in Items /\ q.user \in Users
  /\ q.pc = "getItem" => hdl[r].op = "get" /\ hdl[r].id = q.item
  /\ q.pc = "insert" =>
       q.owner \in Users /\ q.owner # q.user /\ q.owner \in origin[q.item].owners
  /\ q.pc \in {"find", "save"} => q.op \in Targets
  /\ q.pc = "save" =>
       /\ bk # None /\ bk.itemId = q.item
       /\ q.op = "RETURNED" => "APPROVED" \in bk.stamps
  /\ q.pc \in {"sendLoan", "loan", "publish"} =>
       bk # None /\ (q.op = "CREATE" \/ q.op \in bk.stamps)
  /\ q.pc \in {"sendLoan", "loan"} => CallsInventory(q.op) /\ bk.itemId = q.item

(* The inductive invariant: what a request is about to write, call or      *)
(* publish is already true of the booking it holds, and a loan call, its   *)
(* sender alive or not, was caused by the stamp of a booking of its item.  *)
Inv ==
  /\ InventoryInv
  /\ TypeOK
  /\ StampsRecordHistory
  /\ LockOnlyByApproval
  /\ EventsAreTrue
  /\ OwnerSnapshotGenuine
  /\ \A r \in Requests : RequestOK(r)
  /\ \A r, s \in Requests :
       r # s /\ req[r].op = "CREATE" /\ req[s].op = "CREATE" => req[r].b # req[s].b
  /\ \A h \in Handlers : At(h, "loan", "write") =>
       HasStamp(hdl[h].id, IF hdl[h].arg THEN "APPROVED" ELSE "RETURNED")

(* What overlapping requests leave of the transition table, and the table  *)
(* itself when there is one request at a time.                             *)
Machine == INSTANCE BookingMachine WITH
             status <- [b \in Bookings |-> StatusOf(b)],
             past <- [b \in Bookings |-> Past(b)]

FollowsSomePast == Machine!LooseSpec

FollowsTable == Machine!StrictSpec

(* "Any transition not listed is rejected with a 400" (README.md:837). *)
TransitionsFollowTable ==
  [][\A b \in Bookings : Exists(b) /\ StatusOf(b)' # StatusOf(b) =>
       CanTransition(StatusOf(b), StatusOf(b)')]_vars

NobodyAtWork == InFlight = {} /\ \A h \in Handlers : Idle(h)

(* With one client request at a time and no faults, a locked item that was *)
(* not posted on loan has a booking that is still to be returned: no lock  *)
(* is left behind.                                                         *)
NoPhantomLock ==
  NobodyAtWork => \A i \in Items : Locked(i) =>
    \/ origin[i].lent
    \/ \E b \in Bookings : Exists(b) /\ booking[b].itemId = i /\ booking[b].status = "APPROVED"

(* With one client request at a time and no faults, a booking is created   *)
(* only while MongoDB has its item listed, not on loan and owned by whom   *)
(* the booking names, although what is asked is the cache: "the cache MUST *)
(* be invalidated to keep availability accurate" (inventoryService.js:121).*)
CreatedOnlyWhenBookable ==
  [][\A b \in Bookings : ~Exists(b) /\ Exists(b)' =>
       LET row == item[booking'[b].itemId] IN
         /\ row # None /\ row.isListed /\ ~row.isOnLoan
         /\ row.ownerId = booking'[b].ownerId]_vars

(* "PENDING -> APPROVED: isOnLoan set to true - item is locked"            *)
(* (README.md:845): with nothing in flight, an approved booking's item is  *)
(* locked.                                                                 *)
ApprovedItemIsLocked ==
  NobodyAtWork => \A b \in Bookings : Exists(b) /\ booking[b].status = "APPROVED" =>
    LET row == item[booking[b].itemId] IN row # None => row.isOnLoan

(* "A broker hiccup won't fail a booking that has already been persisted"  *)
(* (booking-service/README.md:191).                                        *)
BrokerHiccupIsHarmless ==
  [][\A r \in Requests :
       req[r].op = "CREATE" /\ req'[r].out = "error" => ~Exists(req[r].b)]_vars

Answers(r) == (req[r].pc # "idle") ~> (req[r].pc = "idle")

(* Every request is answered, or lost with the process that had it, unless *)
(* a call to Redis never settles in inventory-service, which booking-      *)
(* service then waits for.                                                 *)
EveryRequestAnswered == RedisAnswers => \A r \in Requests : Answers(r)

(* A request that has passed its checks ends in the event of its step or   *)
(* in an error to its caller: no change is made and reported but never     *)
(* announced, whichever service fails (a crash of this one and a call to   *)
(* Redis that never settles excepted).                                     *)
Carries(r, b, status) ==
  /\ req[r].pc \in {"insert", "save"}
  /\ req[r].b = b
  /\ req[r].op = IF status = "PENDING" THEN "CREATE" ELSE status

EveryChangeAnnounced ==
  RedisAnswers => \A r \in Requests, b \in Bookings, status \in Statuses :
    Carries(r, b, status) ~>
      (<<b, EventOf[status]>> \in published \/ req[r].out \in {"unavailable", "error"})
=============================================================================
