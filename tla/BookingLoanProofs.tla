------------------------- MODULE BookingLoanProofs --------------------------
(***************************************************************************)
(* Proofs about BookingLoan: for any number of bookings, items, users,     *)
(* overlapping requests and direct calls, and under every fault.           *)
(***************************************************************************)
EXTENDS BookingLoan, InventoryProofs

(* None is not a booking, so that a row and its absence differ. *)
LEMMA BookingNotNone == None \notin Booking
BY NoBookingAssumption DEF Booking

(* A free slot is a request that asks for nothing. *)
LEMMA IdleRequestOK == IdleRequest \in Request /\ IdleRequest.pc = "idle" /\ IdleRequest.op = "none"
BY DEF IdleRequest, Request, Intents

(* The initial states satisfy the invariant. *)
LEMMA InitInv == Init => Inv
<1> SUFFICES ASSUME Init PROVE Inv
  OBVIOUS
<1>1. InventoryInv
  BY InventoryInitInv DEF Init
<1>2. /\ \A r \in Requests : req[r] = IdleRequest
      /\ \A b \in Bookings : ~Exists(b)
  BY DEF Init, Exists
<1>3. TypeOK
  BY <1>1, IdleRequestOK DEF Init, InventoryInv, TypeOK
<1>4. /\ StampsRecordHistory /\ OwnerSnapshotGenuine /\ EventsAreTrue
  BY <1>2 DEF Init, StampsRecordHistory, OwnerSnapshotGenuine, EventsAreTrue
<1>5. LockOnlyByApproval
  BY DEF Init, InventoryInit, UnlockedRow, LockOnlyByApproval, Locked
<1>6. /\ \A r \in Requests : RequestOK(r)
      /\ \A r \in Requests : req[r].op # "CREATE"
  BY <1>2, IdleRequestOK DEF RequestOK
<1>7. \A h \in Handlers : ~At(h, "loan", "write")
  BY DEF Init, InventoryInit, IdleHandler, At
<1> QED
  BY <1>1, <1>3, <1>4, <1>5, <1>6, <1>7 DEF Inv

-----------------------------------------------------------------------------
(* Steps of inventory-service. *)

(* They are steps of Inventory. *)
LEMMA SideIsInventory ==
  ASSUME InventorySide
  PROVE  /\ [InventoryNext]_inventoryVars /\ UNCHANGED bookingVars
         /\ \/ \E h \in Handlers : HandlerStep(h) \/ Abort(h)
            \/ \E h \in Direct : UserCall(h) \/ Respond(h)
            \/ \E i \in Items : Expire(i)
BY SlotsAssumption DEF InventorySide, InventoryNext

(* None of them brings a handler to the write of a loan call, or takes a   *)
(* request's handler from its operation.                                   *)
LEMMA SideKeepsCalls ==
  ASSUME Inv, InventorySide
  PROVE  /\ \A h \in Handlers : At(h, "loan", "write")' => hdl'[h] = hdl[h]
         /\ \A r \in Requests : hdl'[r].op = hdl[r].op /\ hdl'[r].id = hdl[r].id
<1>1. InventoryInv /\ hdl \in [Handlers -> Handler]
  BY DEF Inv, InventoryInv, InventoryTypeOK
<1>2. CASE \E h \in Handlers : HandlerStep(h) \/ Abort(h)
  BY <1>1, <1>2, HandlerKeepsCall, SlotsAssumption DEF At
<1>3. ASSUME NEW h \in Direct, UserCall(h) \/ Respond(h)
      PROVE  /\ \A g \in Handlers \ {h} : hdl'[g] = hdl[g]
             /\ ~At(h, "loan", "write")'
             /\ h \notin Requests
  <2>1. h \in Handlers /\ h \notin Requests
    BY SlotsAssumption
  <2>2. /\ \A i : GetCall(i).op = "get"
        /\ \A op, i, arg, u : WriteCall(op, i, arg, u).pc = "find"
        /\ \A i, d, u : CreateCall(i, d, u).op = "create"
        /\ IdleHandler.op = "none"
    BY DEF GetCall, WriteCall, CreateCall, IdleHandler
  <2>3. \E call : hdl' = [hdl EXCEPT ![h] = call] /\ ~(call.op = "loan" /\ call.pc = "write")
    <3>1. CASE Respond(h)
      BY <2>2, <3>1 DEF Respond
    <3>2. CASE UserCall(h)
      BY <2>2, <3>2 DEF UserCall, Begin
    <3> QED
      BY <1>3, <3>1, <3>2
  <2> QED
    BY <1>1, <2>1, <2>3 DEF At
<1>4. CASE \E i \in Items : Expire(i)
  BY <1>4 DEF Expire, At
<1> QED
  BY <1>2, <1>3, <1>4, SideIsInventory, SlotsAssumption DEF At

(* A lock that a step of inventory-service sets has a loan call behind it. *)
LEMMA SideKeepsLocks ==
  ASSUME Inv, InventorySide PROVE LockOnlyByApproval'
<1>1. InventoryInv /\ LockOnlyByApproval /\ [InventoryNext]_inventoryVars /\ UNCHANGED bookingVars
  BY SideIsInventory DEF Inv
<1> SUFFICES ASSUME NEW i \in Items, item'[i] # None, item'[i].isOnLoan
             PROVE  HasStamp(i, "APPROVED")' \/ origin'[i].lent
  BY DEF LockOnlyByApproval, Locked
<1>2. /\ HasStamp(i, "APPROVED") => HasStamp(i, "APPROVED")'
      /\ item[i] # None /\ item[i].isOnLoan => HasStamp(i, "APPROVED") \/ origin[i].lent
  BY <1>1 DEF LockOnlyByApproval, Locked, HasStamp, Exists, bookingVars
<1>3. CASE item' = item /\ origin' = origin
  BY <1>2, <1>3
<1>4. CASE item' # item \/ origin' # origin
  <2>1. PICK h \in Handlers : HandlerStep(h)
    BY <1>1, <1>4, OnlyHandlersWrite
  <2>2. PICK row \in Row \cup {None} :
           LET old == item[hdl[h].id] IN
           /\ Write(h, row)
           /\ \A j \in Items \ {hdl[h].id} : origin'[j] = origin[j]
           /\ hdl[h].op = "create" => origin'[hdl[h].id].lent = row.isOnLoan
           /\ hdl[h].op = "delete" => row = None
           /\ hdl[h].op \in {"update", "listing"} =>
                origin' = origin /\ old # None /\ row.isOnLoan = old.isOnLoan
           /\ hdl[h].op = "loan" => old # None /\ row = [old EXCEPT !.isOnLoan = hdl[h].arg]
    BY <1>1, <1>4, <2>1, Writes
  <2>3. item \in [Items -> Row \cup {None}]
    BY <1>1 DEF InventoryInv, InventoryTypeOK
  <2>4. CASE hdl[h].id # i
    <3>1. item'[i] = item[i] /\ origin'[i] = origin[i]
      BY <2>2, <2>3, <2>4 DEF Write
    <3> QED
      BY <1>2, <3>1
  <2>5. CASE hdl[h].id = i /\ hdl[h].op # "loan"
    <3>1. item'[i] = row /\ hdl[h].op \in {"create", "update", "listing", "delete"}
      BY <2>2, <2>3, <2>5 DEF Write
    <3> QED
      BY <1>2, <2>2, <2>5, <3>1
  <2>6. CASE hdl[h].id = i /\ hdl[h].op = "loan"
    <3>1. item'[i] = [item[i] EXCEPT !.isOnLoan = hdl[h].arg] /\ item[i] \in Row
      BY <2>2, <2>3, <2>6 DEF Write
    <3>2. hdl[h].arg = TRUE
      BY <3>1, HandlerFacts, <1>1, <2>2, <2>6 DEF Row, Write, CallOK
    <3>3. At(h, "loan", "write")
      BY <2>2, <2>6 DEF Write, At
    <3>4. HasStamp(i, "APPROVED")
      BY <2>6, <3>2, <3>3 DEF Inv
    <3> QED
      BY <1>2, <3>4
  <2> QED
    BY <2>4, <2>5, <2>6
<1> QED
  BY <1>3, <1>4

(* A request that clients send to inventory-service themselves, and any    *)
(* step of its handlers, keeps the invariant.                              *)
LEMMA SideInv == ASSUME Inv, InventorySide PROVE Inv'
<1>1. /\ [InventoryNext]_inventoryVars /\ UNCHANGED bookingVars /\ InventoryInv
      /\ booking' = booking /\ req' = req /\ channel' = channel /\ published' = published
  BY SideIsInventory DEF Inv, bookingVars
<1>2. InventoryInv'
  BY <1>1, InventoryNextInv
<1>3. TypeOK'
  BY <1>1, <1>2 DEF Inv, TypeOK, InventoryInv
<1>4. StampsRecordHistory' /\ EventsAreTrue'
  BY <1>1 DEF Inv, StampsRecordHistory, EventsAreTrue, Exists, Past
<1>5. LockOnlyByApproval'
  BY SideKeepsLocks
<1>6. OwnerSnapshotGenuine'
  <2> SUFFICES ASSUME NEW b \in Bookings, booking[b] # None
               PROVE  /\ booking[b].ownerId \in origin'[booking[b].itemId].owners
                      /\ booking[b].userId # booking[b].ownerId
    BY <1>1 DEF OwnerSnapshotGenuine, Exists
  <2>1. booking[b].itemId \in Items
    BY DEF Inv, TypeOK, Booking
  <2> QED
    BY <1>1, <2>1, OwnersKept DEF Inv, OwnerSnapshotGenuine, Exists
<1>7. ASSUME NEW r \in Requests PROVE RequestOK(r)'
  <2>1. RequestOK(r) /\ hdl'[r].op = hdl[r].op /\ hdl'[r].id = hdl[r].id
    BY SideKeepsCalls DEF Inv
  <2>2. req[r].pc = "insert" => req[r].owner \in origin'[req[r].item].owners
    BY <1>1, <2>1, OwnersKept DEF RequestOK
  <2> QED
    BY <1>1, <2>1, <2>2 DEF RequestOK
<1>8. \A r, s \in Requests :
        r # s /\ req'[r].op = "CREATE" /\ req'[s].op = "CREATE" => req'[r].b # req'[s].b
  BY <1>1 DEF Inv
<1>9. \A h \in Handlers : At(h, "loan", "write")' =>
        HasStamp(hdl[h].id, IF hdl[h].arg THEN "APPROVED" ELSE "RETURNED")'
  BY <1>1, SideKeepsCalls DEF Inv, HasStamp, Exists, At
<1> QED
  BY <1>2, <1>3, <1>4, <1>5, <1>6, <1>7, <1>8, <1>9 DEF Inv

-----------------------------------------------------------------------------
(* Steps of a request that write no booking and publish nothing: the       *)
(* invariant holds after one if it holds of what the request then holds.   *)
LEMMA OneRequest ==
  ASSUME Inv, NEW r \in Requests, NEW q \in Request, req' = [req EXCEPT ![r] = q],
         UNCHANGED <<item, cache, origin, booking, channel, published>>,
         InventoryInv', \A h \in Handlers \ {r} : hdl'[h] = hdl[h],
         RequestOK(r)',
         q.op = "CREATE" =>
           \A s \in Requests \ {r} : req[s].op = "CREATE" => req[s].b # q.b,
         At(r, "loan", "write")' =>
           HasStamp(hdl'[r].id, IF hdl'[r].arg THEN "APPROVED" ELSE "RETURNED")
  PROVE  Inv'
<1>1. req \in [Requests -> Request] /\ r \in Handlers
  BY SlotsAssumption DEF Inv, TypeOK
<1>2. req'[r] = q /\ \A s \in Requests \ {r} : req'[s] = req[s] /\ hdl'[s] = hdl[s]
  BY <1>1, SlotsAssumption
<1>3. TypeOK'
  BY <1>1 DEF Inv, TypeOK, InventoryInv
<1>4. StampsRecordHistory' /\ EventsAreTrue' /\ LockOnlyByApproval' /\ OwnerSnapshotGenuine'
  BY DEF Inv, StampsRecordHistory, EventsAreTrue, LockOnlyByApproval, OwnerSnapshotGenuine,
         Locked, Exists, Past, HasStamp
<1>5. \A s \in Requests : RequestOK(s)'
  <2> SUFFICES ASSUME NEW s \in Requests \ {r} PROVE RequestOK(s)'
    OBVIOUS
  <2> QED
    BY <1>2 DEF Inv, RequestOK
<1>6. \A t, s \in Requests :
        t # s /\ req'[t].op = "CREATE" /\ req'[s].op = "CREATE" => req'[t].b # req'[s].b
  BY <1>2 DEF Inv
<1>7. \A h \in Handlers : At(h, "loan", "write")' =>
        HasStamp(hdl[h].id, IF hdl[h].arg THEN "APPROVED" ELSE "RETURNED")'
  BY DEF Inv, HasStamp, Exists, At
<1> QED
  BY <1>3, <1>4, <1>5, <1>6, <1>7 DEF Inv

(* A request that has been answered holds nothing. *)
LEMMA ReplyInv ==
  ASSUME Inv, NEW r \in Requests,
         NEW out \in {"ok", "notFound", "forbidden", "badRequest", "unavailable", "error"},
         Reply(r, out), UNCHANGED <<item, cache, origin, booking, channel, published>>,
         InventoryInv', \A h \in Handlers \ {r} : hdl'[h] = hdl[h],
         At(r, "loan", "write")' =>
           HasStamp(hdl'[r].id, IF hdl'[r].arg THEN "APPROVED" ELSE "RETURNED")
  PROVE  Inv'
<1> DEFINE q == [IdleRequest EXCEPT !.pc = "reply", !.out = out]
<1>1. q \in Request /\ q.pc = "reply" /\ q.op = "none" /\ req' = [req EXCEPT ![r] = q]
  BY DEF IdleRequest, Request, Intents, Reply
<1> HIDE DEF q
<1>2. req'[r] = q
  BY <1>1 DEF Inv, TypeOK
<1>3. RequestOK(r)'
  BY <1>1, <1>2 DEF RequestOK
<1> QED
  BY <1>1, <1>3, OneRequest

(* Taking the reply of a call leaves a slot that is no loan call. *)
LEMMA RespondFrame ==
  ASSUME Inv, NEW r \in Requests, Respond(r)
  PROVE  /\ InventoryInv' /\ UNCHANGED <<item, cache, origin>>
         /\ \A h \in Handlers \ {r} : hdl'[h] = hdl[h]
         /\ ~At(r, "loan", "write")'
<1>1. r \in Handlers /\ InventoryInv /\ hdl \in [Handlers -> Handler]
  BY SlotsAssumption DEF Inv, InventoryInv, InventoryTypeOK
<1>2. InventoryInv'
  BY <1>1, RespondInv
<1> QED
  BY <1>1, <1>2 DEF Respond, At, IdleHandler

(* A request that calls nobody leaves inventory-service alone. *)
LEMMA NoCallFrame ==
  ASSUME Inv, NEW r \in Requests, UNCHANGED inventoryVars
  PROVE  /\ InventoryInv' /\ UNCHANGED <<item, cache, origin, hdl>>
         /\ \A h \in Handlers : hdl'[h] = hdl[h]
         /\ At(r, "loan", "write")' =>
              HasStamp(hdl'[r].id, IF hdl'[r].arg THEN "APPROVED" ELSE "RETURNED")
<1>1. InventoryInv' /\ UNCHANGED <<item, cache, origin, hdl>>
  BY StutterInv DEF Inv, inventoryVars
<1>2. r \in Handlers
  BY SlotsAssumption
<1> QED
  BY <1>1, <1>2 DEF Inv, At

(* A create request has its arguments when it arrives, and no booking. *)
LEMMA ArriveCreateInv ==
  ASSUME Inv, NEW r \in Requests, ArriveCreate(r) PROVE Inv'
<1>1. PICK u \in Users, i \in Items, b \in Bookings :
        /\ Free(b) /\ Begin(r, GetCall(i))
        /\ req' = [req EXCEPT ![r] = [IdleRequest EXCEPT !.pc = "getItem", !.op = "CREATE",
                                                         !.b = b, !.user = u, !.item = i]]
  BY DEF ArriveCreate
<1> DEFINE q == [IdleRequest EXCEPT !.pc = "getItem", !.op = "CREATE",
                                    !.b = b, !.user = u, !.item = i]
<1>2. /\ q \in Request /\ q.pc = "getItem" /\ q.op = "CREATE" /\ q.b = b
      /\ q.user = u /\ q.item = i
  BY DEF IdleRequest, Request, Intents
<1>3. req' = [req EXCEPT ![r] = q]
  BY <1>1
<1> HIDE DEF q
<1>4. /\ r \in Handlers /\ InventoryInv /\ hdl \in [Handlers -> Handler]
      /\ req \in [Requests -> Request]
  BY SlotsAssumption DEF Inv, InventoryInv, InventoryTypeOK, TypeOK
<1>5. InventoryInv'
  BY <1>1, <1>4, GetCallInv
<1>6. GetCall(i).op = "get" /\ GetCall(i).id = i
  BY DEF GetCall, IdleHandler
<1>7. /\ hdl'[r] = GetCall(i) /\ \A h \in Handlers \ {r} : hdl'[h] = hdl[h]
      /\ UNCHANGED <<item, cache, origin>>
  BY <1>1, <1>4 DEF Begin
<1>8. req'[r] = q /\ UNCHANGED <<booking, channel, published>>
  BY <1>3, <1>4 DEF ArriveCreate
<1>9. RequestOK(r)'
  BY <1>1, <1>2, <1>6, <1>7, <1>8 DEF RequestOK, Free
<1>10. \A s \in Requests \ {r} : req[s].op = "CREATE" => req[s].b # q.b
  BY <1>1, <1>2 DEF Free
<1> QED
  BY <1>2, <1>3, <1>5, <1>6, <1>7, <1>8, <1>9, <1>10, OneRequest DEF At

(* The answer of inventory-service is a row with an owner that the item    *)
(* has had.                                                                *)
LEMMA ItemReceivedInv ==
  ASSUME Inv, NEW r \in Requests, ItemReceived(r) PROVE Inv'
<1> DEFINE row == hdl[r].row
<1>1. /\ req[r].pc = "getItem" /\ hdl[r].pc = "reply" /\ Respond(r)
      /\ UNCHANGED <<booking, channel, published>>
      /\ \/ \E out \in {"notFound", "unavailable", "badRequest"} : Reply(r, out)
         \/ /\ hdl[r].out = "ok" /\ ~Refused(row, req[r].user)
            /\ req' = [req EXCEPT ![r].pc = "insert", ![r].owner = row.ownerId]
  BY DEF ItemReceived
<1>2. CASE \E out \in {"notFound", "unavailable", "badRequest"} : Reply(r, out)
  BY <1>1, <1>2, RespondFrame, ReplyInv
<1>3. CASE /\ hdl[r].out = "ok" /\ ~Refused(row, req[r].user)
           /\ req' = [req EXCEPT ![r].pc = "insert", ![r].owner = row.ownerId]
  <2> DEFINE q == [req[r] EXCEPT !.pc = "insert", !.owner = row.ownerId]
  <2>1. /\ req[r] \in Request /\ RequestOK(r) /\ r \in Handlers
        /\ req \in [Requests -> Request]
    BY SlotsAssumption DEF Inv, TypeOK
  <2>2. /\ hdl[r].op = "get" /\ hdl[r].id = req[r].item /\ req[r].op = "CREATE"
        /\ booking[req[r].b] = None /\ req[r].b \in Bookings /\ req[r].user \in Users
        /\ req[r].item \in Items
    BY <1>1, <2>1 DEF RequestOK
  <2>3. row \in Row /\ Genuine(req[r].item, row)
    BY <1>1, <1>3, <2>1, <2>2, HandlerFacts DEF Inv, CallOK, Handler
  <2>4. row.ownerId \in Users /\ row.ownerId # req[r].user
    BY <1>3, <2>3 DEF Refused, Row
  <2>5. /\ q \in Request /\ q.pc = "insert" /\ q.op = "CREATE" /\ q.b = req[r].b
        /\ q.item = req[r].item /\ q.user = req[r].user /\ q.owner = row.ownerId
    BY <2>1, <2>2, <2>4 DEF Request
  <2>6. req' = [req EXCEPT ![r] = q]
    BY <1>3, <2>1
  <2> HIDE DEF q
  <2>7. req'[r] = q
    BY <2>1, <2>6
  <2>8. RequestOK(r)'
    BY <1>1, <2>2, <2>3, <2>4, <2>5, <2>7, RespondFrame, RowNotNone DEF RequestOK, Genuine
  <2>9. \A s \in Requests \ {r} : req[s].op = "CREATE" => req[s].b # q.b
    BY <2>2, <2>5 DEF Inv
  <2> QED
    BY <1>1, <2>5, <2>6, <2>8, <2>9, RespondFrame, OneRequest
<1> QED
  BY <1>1, <1>2, <1>3

(* An approve, reject, cancel or return request arrives with the booking   *)
(* it names.                                                               *)
LEMMA ArriveChangeInv ==
  ASSUME Inv, NEW r \in Requests, ArriveChange(r) PROVE Inv'
<1>1. PICK u \in Users, b \in Bookings, to \in Targets :
        req' = [req EXCEPT ![r] = [IdleRequest EXCEPT !.pc = "find", !.op = to,
                                                     !.b = b, !.user = u]]
  BY DEF ArriveChange
<1> DEFINE q == [IdleRequest EXCEPT !.pc = "find", !.op = to, !.b = b, !.user = u]
<1>2. q \in Request /\ q.pc = "find" /\ q.op = to /\ q.b = b /\ q.op # "CREATE"
  BY DEF IdleRequest, Request, Intents, Targets
<1>3. req' = [req EXCEPT ![r] = q] /\ UNCHANGED <<inventoryVars, booking, channel, published>>
  BY <1>1 DEF ArriveChange
<1> HIDE DEF q
<1>4. req'[r] = q
  BY <1>3 DEF Inv, TypeOK
<1>5. RequestOK(r)'
  BY <1>2, <1>4 DEF RequestOK, Targets
<1> QED
  BY <1>2, <1>3, <1>5, NoCallFrame, OneRequest

(* A booking that can go to a status has had every status it needs. *)
LEMMA ReadBooking ==
  ASSUME Inv, NEW b \in Bookings, booking[b] # None, NEW to \in Targets,
         CanTransition(booking[b].status, to)
  PROVE  /\ booking[b] \in Booking
         /\ to = "RETURNED" => "APPROVED" \in booking[b].stamps
<1>1. booking[b] \in Booking /\ booking[b].status \in Past(b)
  BY DEF Inv, TypeOK, StampsRecordHistory, Exists
<1> QED
  BY <1>1 DEF CanTransition, transitions, Past, Exists, Booking, Statuses, Targets

(* changeStatus goes on with a booking it has read and an actor who may    *)
(* drive it.                                                               *)
LEMMA FindBookingInv ==
  ASSUME Inv, NEW r \in Requests, FindBooking(r) PROVE Inv'
<1> DEFINE bk == booking[req[r].b]
           to == req[r].op
<1>1. /\ req[r].pc = "find" /\ UNCHANGED <<inventoryVars, booking, channel, published>>
      /\ \/ \E out \in {"notFound", "forbidden", "badRequest"} : Reply(r, out)
         \/ /\ bk # None /\ CanTransition(bk.status, to)
            /\ req' = [req EXCEPT ![r].pc = "save", ![r].user = None, ![r].item = bk.itemId]
  BY DEF FindBooking
<1>2. CASE \E out \in {"notFound", "forbidden", "badRequest"} : Reply(r, out)
  BY <1>1, <1>2, NoCallFrame, ReplyInv
<1>3. CASE /\ bk # None /\ CanTransition(bk.status, to)
           /\ req' = [req EXCEPT ![r].pc = "save", ![r].user = None, ![r].item = bk.itemId]
  <2> DEFINE q == [req[r] EXCEPT !.pc = "save", !.user = None, !.item = bk.itemId]
  <2>1. req[r] \in Request /\ req \in [Requests -> Request] /\ to \in Targets /\ req[r].b \in Bookings
    BY <1>1 DEF Inv, TypeOK, RequestOK
  <2>2. bk \in Booking /\ (to = "RETURNED" => "APPROVED" \in bk.stamps)
    BY <1>3, <2>1, ReadBooking
  <2>3. /\ q \in Request /\ q.pc = "save" /\ q.op = to /\ q.b = req[r].b /\ q.item = bk.itemId
        /\ q.op # "CREATE"
    BY <2>1, <2>2 DEF Request, Booking, Targets
  <2>4. req' = [req EXCEPT ![r] = q]
    BY <1>3, <2>1
  <2> HIDE DEF q
  <2>5. req'[r] = q
    BY <2>1, <2>4
  <2>6. RequestOK(r)'
    BY <1>1, <1>3, <2>1, <2>2, <2>3, <2>5 DEF RequestOK
  <2> QED
    BY <1>1, <2>3, <2>4, <2>6, NoCallFrame, OneRequest
<1> QED
  BY <1>1, <1>2, <1>3

(* The loan call is sent only for a booking that has been saved as         *)
(* approved or returned.                                                   *)
LEMMA SendLoanInv ==
  ASSUME Inv, NEW r \in Requests, SendLoan(r) PROVE Inv'
<1> DEFINE flag == req[r].op = "APPROVED"
           i == req[r].item
           bk == booking[req[r].b]
           q == [req[r] EXCEPT !.pc = "loan"]
<1>1. /\ req[r].pc = "sendLoan" /\ Begin(r, LoanCall(i, flag)) /\ req' = [req EXCEPT ![r].pc = "loan"]
      /\ UNCHANGED <<booking, channel, published>>
  BY DEF SendLoan, Go
<1>2. /\ r \in Handlers /\ InventoryInv /\ hdl \in [Handlers -> Handler]
      /\ req \in [Requests -> Request] /\ req[r] \in Request
      /\ booking \in [Bookings -> Booking \cup {None}]
  BY SlotsAssumption DEF Inv, InventoryInv, InventoryTypeOK, TypeOK
<1>3. /\ req[r].b \in Bookings /\ bk # None /\ bk.itemId = i /\ req[r].op \in bk.stamps
      /\ req[r].op \in {"APPROVED", "RETURNED"} /\ RequestOK(r)
  BY <1>1 DEF Inv, RequestOK, CallsInventory
<1>4. i \in Items
  BY <1>2, <1>3 DEF Booking
<1>5. InventoryInv'
  BY <1>1, <1>2, <1>4, LoanCallInv
<1>6. LoanCall(i, flag).id = i /\ LoanCall(i, flag).arg = flag
  BY DEF LoanCall, IdleHandler
<1>7. /\ hdl'[r] = LoanCall(i, flag) /\ \A h \in Handlers \ {r} : hdl'[h] = hdl[h]
      /\ UNCHANGED <<item, cache, origin>>
  BY <1>1, <1>2 DEF Begin
<1>8. HasStamp(i, IF flag THEN "APPROVED" ELSE "RETURNED")
  BY <1>3 DEF HasStamp, Exists
<1>9. /\ q \in Request /\ q.pc = "loan" /\ q.op = req[r].op /\ q.b = req[r].b
      /\ q.item = req[r].item /\ q.op # "CREATE"
  BY <1>2, <1>3 DEF Request
<1>10. req' = [req EXCEPT ![r] = q]
  BY <1>1, <1>2
<1> HIDE DEF q
<1>11. req'[r] = q
  BY <1>2, <1>10
<1>12. RequestOK(r)'
  BY <1>1, <1>3, <1>9, <1>11 DEF RequestOK, CallsInventory
<1> QED
  BY <1>1, <1>5, <1>6, <1>7, <1>8, <1>9, <1>10, <1>12, OneRequest

(* Whatever setLoanStatus answers, the request goes on to its event or to  *)
(* its error.                                                              *)
LEMMA LoanAnsweredInv ==
  ASSUME Inv, NEW r \in Requests, LoanAnswered(r) PROVE Inv'
<1> DEFINE q == [req[r] EXCEPT !.pc = "publish"]
<1>1. /\ req[r].pc = "loan" /\ Respond(r) /\ UNCHANGED <<booking, channel, published>>
      /\ Reply(r, "unavailable") \/ req' = [req EXCEPT ![r].pc = "publish"]
  BY DEF LoanAnswered, Go
<1>2. CASE Reply(r, "unavailable")
  BY <1>1, <1>2, RespondFrame, ReplyInv
<1>3. CASE req' = [req EXCEPT ![r].pc = "publish"]
  <2>1. req \in [Requests -> Request] /\ req[r] \in Request /\ RequestOK(r)
    BY DEF Inv, TypeOK
  <2>2. /\ q \in Request /\ q.pc = "publish" /\ q.op = req[r].op /\ q.b = req[r].b
    BY <2>1 DEF Request
  <2>3. req' = [req EXCEPT ![r] = q]
    BY <1>3, <2>1
  <2> HIDE DEF q
  <2>4. req'[r] = q
    BY <2>1, <2>3
  <2>5. RequestOK(r)' /\ q.op # "CREATE"
    BY <1>1, <2>1, <2>2, <2>4 DEF RequestOK, CallsInventory
  <2> QED
    BY <1>1, <2>2, <2>3, <2>5, RespondFrame, OneRequest
<1> QED
  BY <1>1, <1>2, <1>3

(* A MongoDB call that throws ends the request and changes no booking. *)
LEMMA MongoFailsInv ==
  ASSUME Inv, NEW r \in Requests, MongoFails(r) PROVE Inv'
BY NoCallFrame, ReplyInv DEF MongoFails

(* A slot is free again when its request is answered. *)
LEMMA FinishInv ==
  ASSUME Inv, NEW r \in Requests, Finish(r) PROVE Inv'
<1>1. /\ req' = [req EXCEPT ![r] = IdleRequest] /\ req'[r] = IdleRequest
      /\ UNCHANGED <<inventoryVars, booking, channel, published>>
  BY DEF Finish, Inv, TypeOK
<1>2. RequestOK(r)'
  BY <1>1, IdleRequestOK DEF RequestOK
<1> QED
  BY <1>1, <1>2, IdleRequestOK, NoCallFrame, OneRequest

-----------------------------------------------------------------------------
(* Steps that write a booking or publish an event. *)

(* A write that adds to bookings and takes nothing away from their history *)
(* keeps what other requests and pending loan calls rely on.               *)
Grows ==
  \A b \in Bookings : booking[b] # None =>
    /\ booking'[b] # None
    /\ booking'[b].itemId = booking[b].itemId /\ booking'[b].userId = booking[b].userId
    /\ booking'[b].ownerId = booking[b].ownerId
    /\ booking[b].stamps \subseteq booking'[b].stamps

(* What the invariant says of calls, events and other requests survives    *)
(* when bookings are added or dated further: it mentions only what has     *)
(* been recorded.                                                          *)
LEMMA GrowInv ==
  ASSUME Inv, NEW r \in Requests, NEW q \in Request, req' = [req EXCEPT ![r] = q],
         UNCHANGED <<inventoryVars, channel, published>>,
         q.op = req[r].op, q.b = req[r].b,
         Grows, booking' \in [Bookings -> Booking \cup {None}],
         StampsRecordHistory', OwnerSnapshotGenuine', RequestOK(r)',
         \A s \in Requests \ {r} :
           req[s].pc \in {"getItem", "insert"} /\ req[s].b \in Bookings =>
             booking'[req[s].b] = booking[req[s].b]
  PROVE  Inv'
<1>1. /\ req \in [Requests -> Request] /\ InventoryInv' /\ hdl' = hdl /\ item' = item
      /\ origin' = origin /\ cache' = cache /\ published' = published
  BY StutterInv DEF Inv, TypeOK, inventoryVars
<1>2. req'[r] = q /\ \A s \in Requests \ {r} : req'[s] = req[s]
  BY <1>1
<1>3. TypeOK'
  BY <1>1 DEF Inv, TypeOK, InventoryInv
<1>4. \A i \in Items, status \in Statuses : HasStamp(i, status) => HasStamp(i, status)'
  BY DEF HasStamp, Exists, Grows
<1>5. LockOnlyByApproval'
  BY <1>1, <1>4 DEF Inv, LockOnlyByApproval, Locked, Statuses
<1>6. EventsAreTrue'
  BY <1>1 DEF Inv, EventsAreTrue, Past, Exists, Grows
<1>7. ASSUME NEW s \in Requests \ {r} PROVE RequestOK(s)'
  <2>1. RequestOK(s) /\ req'[s] = req[s]
    BY <1>2 DEF Inv
  <2> QED
    BY <1>1, <2>1 DEF RequestOK, Grows
<1>8. \A t, s \in Requests :
        t # s /\ req'[t].op = "CREATE" /\ req'[s].op = "CREATE" => req'[t].b # req'[s].b
  BY <1>2 DEF Inv
<1>9. ASSUME NEW h \in Handlers, At(h, "loan", "write")'
      PROVE  HasStamp(hdl[h].id, IF hdl[h].arg THEN "APPROVED" ELSE "RETURNED")'
  <2>1. At(h, "loan", "write") /\ hdl[h].id \in Items
    BY <1>1, <1>9, HandlerFacts DEF Inv, At
  <2> QED
    BY <1>1, <1>4, <2>1 DEF Inv, Statuses
<1> QED
  BY <1>1, <1>3, <1>5, <1>6, <1>7, <1>8, <1>9 DEF Inv

(* A booking is stored PENDING under a fresh id, with an owner its item    *)
(* has had.                                                                *)
LEMMA CreateBookingInv ==
  ASSUME Inv, NEW r \in Requests, CreateBooking(r) PROVE Inv'
<1> DEFINE b == req[r].b
           new == [itemId |-> req[r].item, userId |-> req[r].user, ownerId |-> req[r].owner,
                   status |-> "PENDING", stamps |-> {}]
           q == [req[r] EXCEPT !.pc = "publish", !.user = None, !.owner = None]
<1>1. /\ req[r].pc = "insert" /\ booking' = [booking EXCEPT ![b] = new]
      /\ req' = [req EXCEPT ![r].pc = "publish", ![r].user = None, ![r].owner = None]
      /\ UNCHANGED <<inventoryVars, channel, published>>
  BY DEF CreateBooking
<1>2. /\ req \in [Requests -> Request] /\ req[r] \in Request /\ RequestOK(r)
      /\ booking \in [Bookings -> Booking \cup {None}] /\ origin' = origin
  BY <1>1 DEF Inv, TypeOK, inventoryVars
<1>3. /\ b \in Bookings /\ booking[b] = None /\ req[r].op = "CREATE" /\ new \in Booking
      /\ new.userId # new.ownerId /\ new.ownerId \in origin[new.itemId].owners
  BY <1>1, <1>2 DEF RequestOK, Booking, Statuses
<1>4. /\ q \in Request /\ q.pc = "publish" /\ q.op = "CREATE" /\ q.b = b
  BY <1>2, <1>3 DEF Request
<1>5. req' = [req EXCEPT ![r] = q]
  BY <1>1, <1>2
<1>6. new.status = "PENDING" /\ new.stamps = {}
  OBVIOUS
<1> HIDE DEF q, new
<1>7. booking'[b] = new /\ \A c \in Bookings \ {b} : booking'[c] = booking[c]
  BY <1>1, <1>2, <1>3
<1>8. Grows /\ booking' \in [Bookings -> Booking \cup {None}]
  BY <1>1, <1>2, <1>3, <1>7 DEF Grows
<1>9. StampsRecordHistory'
  BY <1>3, <1>6, <1>7 DEF Inv, StampsRecordHistory, Past, Exists
<1>10. OwnerSnapshotGenuine'
  BY <1>2, <1>3, <1>7 DEF Inv, OwnerSnapshotGenuine, Exists
<1>11. RequestOK(r)'
  BY <1>2, <1>3, <1>4, <1>5, <1>7, BookingNotNone DEF RequestOK
<1>12. \A s \in Requests \ {r} :
         req[s].pc \in {"getItem", "insert"} /\ req[s].b \in Bookings =>
           booking'[req[s].b] = booking[req[s].b]
  BY <1>3, <1>7 DEF Inv, RequestOK
<1> QED
  BY <1>1, <1>3, <1>4, <1>5, <1>8, <1>9, <1>10, <1>11, <1>12, GrowInv

(* A saved status is dated, and its date is what later steps rely on. *)
LEMMA SaveBookingInv ==
  ASSUME Inv, NEW r \in Requests, SaveBooking(r) PROVE Inv'
<1> DEFINE b == req[r].b
           to == req[r].op
           bk == booking[b]
           new == [bk EXCEPT !.status = to, !.stamps = @ \cup {to}]
           pc == AfterSave(to)
           q == [req[r] EXCEPT !.pc = pc]
<1>1. /\ req[r].pc = "save" /\ req' = [req EXCEPT ![r].pc = pc]
      /\ booking' = [booking EXCEPT ![b].status = to, ![b].stamps = @ \cup {to}]
      /\ UNCHANGED <<inventoryVars, channel, published>>
  BY DEF SaveBooking, Go
<1> USE DEF AfterSave
<1>2. /\ req \in [Requests -> Request] /\ req[r] \in Request /\ RequestOK(r)
      /\ booking \in [Bookings -> Booking \cup {None}] /\ origin' = origin
  BY <1>1 DEF Inv, TypeOK, inventoryVars
<1>3. /\ b \in Bookings /\ to \in Targets /\ bk # None /\ bk \in Booking
      /\ bk.itemId = req[r].item /\ (to = "RETURNED" => "APPROVED" \in bk.stamps)
  BY <1>1, <1>2 DEF RequestOK
<1>4. /\ new \in Booking /\ new.status = to /\ new.stamps = bk.stamps \cup {to}
      /\ new.itemId = bk.itemId /\ new.userId = bk.userId /\ new.ownerId = bk.ownerId
  BY <1>3 DEF Booking, Statuses, Targets
<1>5. /\ q \in Request /\ q.pc = pc /\ q.op = to /\ q.b = b /\ q.item = req[r].item
  BY <1>2 DEF Request
<1>6. req' = [req EXCEPT ![r] = q] /\ booking' = [booking EXCEPT ![b] = new]
  BY <1>1, <1>2, <1>3
<1> HIDE DEF q, new
<1>7. booking'[b] = new /\ \A c \in Bookings \ {b} : booking'[c] = booking[c]
  BY <1>2, <1>3, <1>6
<1>8. Grows /\ booking' \in [Bookings -> Booking \cup {None}]
  BY <1>2, <1>3, <1>4, <1>6, <1>7, BookingNotNone DEF Grows
<1>9. StampsRecordHistory'
  BY <1>3, <1>4, <1>7 DEF Inv, StampsRecordHistory, Past, Exists, Targets
<1>10. OwnerSnapshotGenuine'
  BY <1>2, <1>3, <1>4, <1>7 DEF Inv, OwnerSnapshotGenuine, Exists
<1>11. RequestOK(r)'
  BY <1>2, <1>3, <1>4, <1>5, <1>6, <1>7, BookingNotNone DEF RequestOK
<1>12. \A s \in Requests \ {r} :
         req[s].pc \in {"getItem", "insert"} /\ req[s].b \in Bookings =>
           booking'[req[s].b] = booking[req[s].b]
  BY <1>3, <1>7 DEF Inv, RequestOK
<1> QED
  BY <1>1, <1>5, <1>6, <1>8, <1>9, <1>10, <1>11, <1>12, GrowInv

(* Distinct statuses have distinct events, so an event names its status. *)
LEMMA EventNamesStatus ==
  /\ \A s \in Statuses : EventOf[s] \in Events
  /\ \A s, t \in Statuses : EventOf[s] = EventOf[t] => s = t
BY DEF EventOf, Statuses, Events

(* The event that is published tells of a status that has been stored. *)
LEMMA PublishInv ==
  ASSUME Inv, NEW r \in Requests, Publish(r) PROVE Inv'
<1> DEFINE b == req[r].b
           status == IF req[r].op = "CREATE" THEN "PENDING" ELSE req[r].op
           q(out) == [IdleRequest EXCEPT !.pc = "reply", !.out = out]
<1>1. /\ req[r].pc = "publish" /\ UNCHANGED <<inventoryVars, booking, channel>>
      /\ \/ published' = published \cup {<<b, EventFor(r)>>} /\ Reply(r, "ok")
         \/ published' = published /\ Reply(r, "error")
  BY DEF Publish
<1>2. CASE published' = published /\ Reply(r, "error")
  BY <1>1, <1>2, NoCallFrame, ReplyInv
<1>3. CASE published' = published \cup {<<b, EventFor(r)>>} /\ Reply(r, "ok")
  <2>1. /\ RequestOK(r) /\ req[r] \in Request /\ req \in [Requests -> Request]
        /\ booking \in [Bookings -> Booking \cup {None}]
    BY DEF Inv, TypeOK
  <2>2. b \in Bookings /\ booking[b] # None /\ status \in Past(b) /\ status \in Statuses
    BY <1>1, <2>1, BookingNotNone DEF RequestOK, Past, Exists, Booking, Targets, Statuses
  <2>3. EventFor(r) = EventOf[status]
    BY DEF EventFor
  <2> HIDE DEF status
  <2>4. TypeOK'
    <3>1. q("ok") \in Request
      BY DEF IdleRequest, Request, Intents
    <3>2. req' \in [Requests -> Request]
      BY <1>3, <2>1, <3>1 DEF Reply
    <3> QED
      BY <1>1, <1>3, <2>2, <2>3, <3>2, EventNamesStatus DEF Inv, TypeOK, InventoryTypeOK, inventoryVars
  <2>5. EventsAreTrue'
    BY <1>1, <1>3, <2>2, <2>3, EventNamesStatus DEF Inv, EventsAreTrue, Past, Exists
  <2>6. /\ req'[r].op = "none" /\ req'[r].pc = "reply"
        /\ \A s \in Requests \ {r} : req'[s] = req[s]
    BY <1>3, <2>1 DEF Reply, IdleRequest
  <2>7. \A s \in Requests : RequestOK(s)'
    BY <1>1, <2>6 DEF Inv, RequestOK, inventoryVars
  <2>8. \A t, s \in Requests :
          t # s /\ req'[t].op = "CREATE" /\ req'[s].op = "CREATE" => req'[t].b # req'[s].b
    BY <2>6 DEF Inv
  <2>9. /\ InventoryInv' /\ StampsRecordHistory' /\ LockOnlyByApproval' /\ OwnerSnapshotGenuine'
        /\ \A h \in Handlers : At(h, "loan", "write")' =>
             HasStamp(hdl[h].id, IF hdl[h].arg THEN "APPROVED" ELSE "RETURNED")'
    BY <1>1, StutterInv DEF Inv, inventoryVars, StampsRecordHistory, LockOnlyByApproval,
                            OwnerSnapshotGenuine, Locked, Exists, Past, HasStamp, At
  <2> QED
    BY <2>4, <2>5, <2>7, <2>8, <2>9 DEF Inv
<1> QED
  BY <1>1, <1>2, <1>3

-----------------------------------------------------------------------------
(* Crashes, orphans and the broker. *)

(* A death of booking-service forgets its requests and nothing else;       *)
(* calls it has sent may still be pending.                                 *)
LEMMA CrashInv == ASSUME Inv, Crash PROVE Inv'
<1>1. /\ req' = [r \in Requests |-> IdleRequest] /\ channel' = "open"
      /\ UNCHANGED <<inventoryVars, booking, published>>
  BY DEF Crash
<1>2. \A r \in Requests : req'[r] = IdleRequest
  BY <1>1
<1>3. TypeOK'
  BY <1>1, IdleRequestOK DEF Inv, TypeOK, InventoryTypeOK, inventoryVars
<1>4. /\ InventoryInv' /\ StampsRecordHistory' /\ LockOnlyByApproval' /\ OwnerSnapshotGenuine'
      /\ EventsAreTrue'
      /\ \A h \in Handlers : At(h, "loan", "write")' =>
           HasStamp(hdl[h].id, IF hdl[h].arg THEN "APPROVED" ELSE "RETURNED")'
  BY <1>1, StutterInv DEF Inv, inventoryVars, StampsRecordHistory, LockOnlyByApproval,
                          EventsAreTrue, OwnerSnapshotGenuine, Locked, Exists, Past, HasStamp, At
<1>5. /\ \A r \in Requests : RequestOK(r)'
      /\ \A r \in Requests : req'[r].op # "CREATE"
  BY <1>2, IdleRequestOK DEF RequestOK
<1> QED
  BY <1>3, <1>4, <1>5 DEF Inv

(* The broker closes the channel: only publishing changes. *)
LEMMA BrokerInv == ASSUME Inv, BrokerCloses PROVE Inv'
<1>1. channel' = "closed" /\ UNCHANGED <<inventoryVars, booking, req, published>>
  BY DEF BrokerCloses
<1>2. TypeOK'
  BY <1>1 DEF Inv, TypeOK, InventoryTypeOK, inventoryVars
<1>3. InventoryInv'
  BY <1>1, StutterInv DEF Inv
<1> QED
  BY <1>1, <1>2, <1>3 DEF Inv, inventoryVars, StampsRecordHistory, LockOnlyByApproval,
     EventsAreTrue, OwnerSnapshotGenuine, Locked, Exists, Past, HasStamp, At, RequestOK

(* A call whose request died is answered into nothing. *)
LEMMA OrphanInv ==
  ASSUME Inv, NEW r \in Requests, DiscardOrphan(r) PROVE Inv'
<1>1. /\ req[r].pc \notin {"getItem", "loan"} /\ Respond(r) /\ UNCHANGED bookingVars
  BY DEF DiscardOrphan
<1>2. /\ req[r] \in Request /\ req \in [Requests -> Request] /\ RequestOK(r)
      /\ UNCHANGED <<req, booking, channel, published>>
  BY <1>1 DEF Inv, TypeOK, bookingVars
<1>3. req' = [req EXCEPT ![r] = req[r]]
  BY <1>2
<1>4. RequestOK(r)'
  BY <1>1, <1>2, RespondFrame DEF RequestOK
<1>5. req[r].op = "CREATE" =>
        \A s \in Requests \ {r} : req[s].op = "CREATE" => req[s].b # req[r].b
  BY DEF Inv
<1> QED
  BY <1>1, <1>2, <1>3, <1>4, <1>5, RespondFrame, OneRequest

(* Every step keeps the invariant. *)
LEMMA NextInv == Inv /\ [Next]_vars => Inv'
<1> SUFFICES ASSUME Inv, [Next]_vars PROVE Inv'
  OBVIOUS
<1>1. CASE UNCHANGED vars
  <2>1. /\ UNCHANGED inventoryVars /\ InventoryInv'
        /\ UNCHANGED <<item, cache, hdl, origin, booking, req, channel, published>>
    BY <1>1, StutterInv DEF Inv, vars, inventoryVars
  <2>2. TypeOK'
    BY <2>1 DEF Inv, TypeOK, InventoryTypeOK
  <2> QED
    BY <2>1, <2>2 DEF Inv, StampsRecordHistory, LockOnlyByApproval,
       EventsAreTrue, OwnerSnapshotGenuine, Locked, Exists, Past, HasStamp, At, RequestOK
<1>2. ASSUME NEW r \in Requests,
             ArriveCreate(r) \/ ArriveChange(r) \/ RequestStep(r) \/ MongoFails(r)
      PROVE  Inv'
  BY <1>2, ArriveCreateInv, ArriveChangeInv, ItemReceivedInv, CreateBookingInv, FindBookingInv,
     SaveBookingInv, SendLoanInv, LoanAnsweredInv, PublishInv, FinishInv, OrphanInv, MongoFailsInv
     DEF RequestStep
<1>3. CASE InventorySide \/ Crash \/ BrokerCloses
  BY <1>3, SideInv, CrashInv, BrokerInv
<1> QED
  BY <1>1, <1>2, <1>3 DEF Next

-----------------------------------------------------------------------------
(* The theorems. *)

(* The inductive invariant holds of every behaviour. *)
THEOREM Correct == Spec => []Inv
BY InitInv, NextInv, PTL DEF Spec

(* Every variable of both services keeps its type. *)
THEOREM Types == Spec => []TypeOK
<1>1. Inv => TypeOK
  BY DEF Inv
<1> QED
  BY <1>1, Correct, PTL

(* The dates of a booking tell its history (bookingService.js:73-82).      *)
THEOREM HistoryIsRecorded == Spec => []StampsRecordHistory
<1>1. Inv => StampsRecordHistory
  BY DEF Inv
<1> QED
  BY <1>1, Correct, PTL

(* An item is on loan only if a booking of it was approved, or it was      *)
(* posted on loan and has had no loan call since, whatever requests        *)
(* overlap, die or leave their loan calls behind.                          *)
THEOREM LocksAreApproved == Spec => []LockOnlyByApproval
<1>1. Inv => LockOnlyByApproval
  BY DEF Inv
<1> QED
  BY <1>1, Correct, PTL

(* No event announces what is not stored (bookingService.js:82-101).       *)
THEOREM NoFalseEvent == Spec => []EventsAreTrue
<1>1. Inv => EventsAreTrue
  BY DEF Inv
<1> QED
  BY <1>1, Correct, PTL

(* The owner a booking was created with, possibly from a stale cache entry *)
(* and whatever has been deleted and posted again since, is somebody who   *)
(* has owned the item, and not the borrower.                               *)
THEOREM OwnersAreGenuine == Spec => []OwnerSnapshotGenuine
<1>1. Inv => OwnerSnapshotGenuine
  BY DEF Inv
<1> QED
  BY <1>1, Correct, PTL

(* An item is released only if a booking of it was returned. *)
LEMMA UnlockStep ==
  ASSUME Inv, [Next]_vars, NEW i \in Items, item[i] # None, item'[i] # None,
         item[i].isOnLoan, ~item'[i].isOnLoan
  PROVE  HasStamp(i, "RETURNED")
<1>1. item' # item
  OBVIOUS
<1>2. InventorySide
  BY <1>1 DEF Next, vars, inventoryVars, ArriveCreate, ArriveChange, RequestStep, MongoFails,
     Crash, BrokerCloses, ItemReceived, CreateBooking, FindBooking, SaveBooking, SendLoan,
     LoanAnswered, Publish, Finish, DiscardOrphan, Begin, Respond
<1>3. InventoryInv /\ [InventoryNext]_inventoryVars
  BY <1>2, SideIsInventory DEF Inv
<1>4. item'[i].isOnLoan # item[i].isOnLoan
  OBVIOUS
<1>5. PICK h \in Handlers : Pending(h, {"loan"}, i) /\ hdl[h].arg = item'[i].isOnLoan
  BY <1>3, <1>4, FlagsStep
<1>6. At(h, "loan", "write") /\ hdl[h].id = i /\ ~hdl[h].arg
  BY <1>5 DEF Pending, At
<1> QED
  BY <1>6 DEF Inv

(* An item is unlocked only by a loan call of a booking that was           *)
(* returned: changeStatus sends no other (bookingService.js 84-92).        *)
THEOREM UnlocksAreReturned == Spec => UnlockOnlyByReturn
<1>1. Inv /\ [Next]_vars =>
        [\A i \in Items : item[i] # None /\ item'[i] # None =>
           (item[i].isOnLoan /\ ~item'[i].isOnLoan => HasStamp(i, "RETURNED"))]_vars
  BY UnlockStep
<1> QED
  BY <1>1, Correct, PTL DEF Spec, UnlockOnlyByReturn

-----------------------------------------------------------------------------
(* BookingLoan implements the machine of BookingMachine in which a status  *)
(* change need only follow the table from a status the booking has had.    *)

(* A step that leaves the bookings alone is a stutter of the machine. *)
LEMMA SameBookings ==
  ASSUME booking' = booking
  PROVE  UNCHANGED <<[b \in Bookings |-> StatusOf(b)], [b \in Bookings |-> Past(b)]>>
BY DEF StatusOf, Past, Exists

(* The initial states of BookingLoan are initial states of                 *)
(* BookingMachine.                                                         *)
LEMMA InitRefines == Init => Machine!Init
BY DEF Init, Machine!Init, StatusOf, Past, Exists

(* Writing one booking writes its status and its past in the machine. *)
LEMMA OneBooking ==
  ASSUME NEW b \in Bookings, NEW new \in Booking, booking' = [booking EXCEPT ![b] = new],
         booking \in [Bookings -> Booking \cup {None}]
  PROVE  /\ [c \in Bookings |-> StatusOf(c)]' =
               [[c \in Bookings |-> StatusOf(c)] EXCEPT ![b] = new.status]
         /\ [c \in Bookings |-> Past(c)]' =
               [[c \in Bookings |-> Past(c)] EXCEPT ![b] = {"PENDING"} \cup new.stamps]
<1>1. booking'[b] = new /\ \A c \in Bookings \ {b} : booking'[c] = booking[c]
  OBVIOUS
<1>2. StatusOf(b)' = new.status /\ Past(b)' = {"PENDING"} \cup new.stamps
  BY <1>1, BookingNotNone DEF StatusOf, Past, Exists
<1>3. \A c \in Bookings \ {b} : StatusOf(c)' = StatusOf(c) /\ Past(c)' = Past(c)
  BY <1>1 DEF StatusOf, Past, Exists
<1> QED
  BY <1>2, <1>3

(* Storing a booking is a step of BookingMachine. *)
LEMMA CreateRefines ==
  ASSUME Inv, NEW r \in Requests, CreateBooking(r)
  PROVE  \E b \in Bookings : Machine!Create(b)
<1> DEFINE new == [itemId |-> req[r].item, userId |-> req[r].user, ownerId |-> req[r].owner,
                   status |-> "PENDING", stamps |-> {}]
<1>1. PICK b : b = req[r].b
  OBVIOUS
<1>2. /\ req[r].pc = "insert" /\ booking' = [booking EXCEPT ![b] = new]
      /\ booking \in [Bookings -> Booking \cup {None}] /\ RequestOK(r)
  BY <1>1 DEF CreateBooking, Inv, TypeOK
<1>3. /\ b \in Bookings /\ booking[b] = None
      /\ req[r].item \in Items /\ req[r].user \in Users /\ req[r].owner \in Users
  BY <1>1, <1>2 DEF RequestOK
<1>4. new \in Booking /\ new.status = "PENDING" /\ new.stamps = {}
  BY <1>3 DEF Booking, Statuses
<1> HIDE DEF new
<1>5. {"PENDING"} \cup new.stamps = {"PENDING"}
  BY <1>4
<1>6. /\ [c \in Bookings |-> StatusOf(c)]' =
            [[c \in Bookings |-> StatusOf(c)] EXCEPT ![b] = new.status]
      /\ [c \in Bookings |-> Past(c)]' =
            [[c \in Bookings |-> Past(c)] EXCEPT ![b] = {"PENDING"} \cup new.stamps]
  BY <1>2, <1>3, <1>4, OneBooking
<1>7. [c \in Bookings |-> StatusOf(c)][b] = None
  BY <1>3 DEF StatusOf, Exists
<1> QED
  BY <1>3, <1>4, <1>5, <1>6, <1>7 DEF Machine!Create

(* Saving a status writes it, and adds it to the past, in the machine. *)
LEMMA SaveMoves ==
  ASSUME Inv, NEW r \in Requests, SaveBooking(r),
         NEW b, b = req[r].b, NEW to, to = req[r].op
  PROVE  /\ b \in Bookings /\ to \in Targets /\ booking[b] \in Booking
         /\ to = "RETURNED" => "APPROVED" \in booking[b].stamps
         /\ Past(b) = {"PENDING"} \cup booking[b].stamps
         /\ StatusOf(b) = booking[b].status
         /\ Machine!MoveTo(b, to)
<1> DEFINE bk == booking[b]
           new == [bk EXCEPT !.status = to, !.stamps = @ \cup {to}]
<1>2. /\ req[r].pc = "save"
      /\ booking' = [booking EXCEPT ![b].status = to, ![b].stamps = @ \cup {to}]
      /\ booking \in [Bookings -> Booking \cup {None}] /\ RequestOK(r)
  BY DEF SaveBooking, Inv, TypeOK
<1>3. /\ b \in Bookings /\ to \in Targets /\ bk # None /\ bk \in Booking
      /\ to = "RETURNED" => "APPROVED" \in bk.stamps
  BY <1>2 DEF RequestOK
<1>4. new \in Booking /\ new.status = to /\ new.stamps = bk.stamps \cup {to}
  BY <1>3 DEF Booking, Statuses, Targets
<1>5. booking' = [booking EXCEPT ![b] = new]
  BY <1>2, <1>3
<1> HIDE DEF new
<1>6. StatusOf(b) = bk.status /\ Past(b) = {"PENDING"} \cup bk.stamps
  BY <1>3 DEF StatusOf, Past, Exists
<1>7. /\ [c \in Bookings |-> StatusOf(c)]' =
            [[c \in Bookings |-> StatusOf(c)] EXCEPT ![b] = new.status]
      /\ [c \in Bookings |-> Past(c)]' =
            [[c \in Bookings |-> Past(c)] EXCEPT ![b] = {"PENDING"} \cup new.stamps]
  BY <1>2, <1>3, <1>4, <1>5, OneBooking
<1>8. /\ [c \in Bookings |-> StatusOf(c)]' = [[c \in Bookings |-> StatusOf(c)] EXCEPT ![b] = to]
      /\ [c \in Bookings |-> Past(c)]' = [[c \in Bookings |-> Past(c)] EXCEPT ![b] = Past(b) \cup {to}]
  BY <1>4, <1>6, <1>7
<1>9. Machine!MoveTo(b, to)
  BY <1>3, <1>8 DEF Machine!MoveTo
<1> QED
  BY <1>3, <1>6, <1>9

(* The transition table of the machine is the one of the service. *)
LEMMA SameTable ==
  /\ Machine!Targets = Targets /\ Machine!Statuses = Statuses
  /\ Machine!transitions = transitions
BY DEF Machine!Targets, Targets, Machine!transitions, transitions, Machine!Statuses, Statuses

(* Saving a status, on whatever earlier read, is a step of                 *)
(* BookingMachine.                                                         *)
LEMMA SaveRefines ==
  ASSUME Inv, NEW r \in Requests, SaveBooking(r)
  PROVE  \E b \in Bookings, to \in Targets : Machine!MoveLate(b, to)
<1>1. PICK b, to : b = req[r].b /\ to = req[r].op
  OBVIOUS
<1>2. /\ b \in Bookings /\ to \in Targets /\ booking[b] \in Booking
      /\ to = "RETURNED" => "APPROVED" \in booking[b].stamps
      /\ Past(b) = {"PENDING"} \cup booking[b].stamps /\ StatusOf(b) = booking[b].status
      /\ Machine!MoveTo(b, to)
  BY <1>1, SaveMoves
<1>3. \E from \in Past(b) : to \in transitions[from]
  <2>1. CASE to = "RETURNED"
    <3>1. "APPROVED" \in Past(b) /\ to \in transitions["APPROVED"]
      BY <1>2, <2>1 DEF transitions, Statuses
    <3> QED
      BY <3>1
  <2>2. CASE to # "RETURNED"
    <3>1. "PENDING" \in Past(b) /\ to \in transitions["PENDING"]
      BY <1>2, <2>2 DEF transitions, Statuses, Targets
    <3> QED
      BY <3>1
  <2> QED
    BY <2>1, <2>2
<1>4. StatusOf(b) \in Statuses
  BY <1>2 DEF Booking
<1>5. Machine!MoveLate(b, to)
  BY <1>2, <1>3, <1>4, SameTable DEF Machine!MoveLate, Machine!CanTransition
<1> QED
  BY <1>2, <1>5

(* The two writes are all that changes a booking. *)
LEMMA OnlyTwoWrites ==
  ASSUME [Next]_vars, booking' # booking
  PROVE  \E r \in Requests : CreateBooking(r) \/ SaveBooking(r)
BY DEF Next, vars, InventorySide, bookingVars, ArriveCreate, ArriveChange, RequestStep, MongoFails,
   Crash, BrokerCloses, ItemReceived, FindBooking, SendLoan, LoanAnswered, Publish, Finish,
   DiscardOrphan

(* Every step is a step of the machine or a stutter. *)
LEMMA StepRefines ==
  ASSUME Inv, [Next]_vars PROVE [Machine!LooseNext]_(Machine!machineVars)
<1>1. ASSUME NEW r \in Requests, CreateBooking(r) \/ SaveBooking(r)
      PROVE  Machine!LooseNext
  BY <1>1, SameTable, CreateRefines, SaveRefines DEF Machine!LooseNext
<1>2. (\E r \in Requests : CreateBooking(r) \/ SaveBooking(r)) \/ booking' = booking
  BY OnlyTwoWrites
<1> QED
  BY <1>1, <1>2, SameBookings DEF Machine!machineVars

(* However its requests overlap and whatever fails, booking-service moves  *)
(* a booking only to what the table allows from a status it has had.       *)
THEOREM ImplementsLooseMachine == Spec => FollowsSomePast
BY InitRefines, StepRefines, Correct, PTL
DEF Spec, FollowsSomePast, Machine!LooseSpec
=============================================================================
