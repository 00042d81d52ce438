----------------------------- MODULE CalmProofs -----------------------------
(***************************************************************************)
(* Proofs about BookingLoan when its clients send one request at a time    *)
(* and neither Redis nor the calls between the services fail: the cache,   *)
(* the loan locks and the bookings then agree with each other, for any     *)
(* number of items, bookings, users and slots.                             *)
(***************************************************************************)
EXTENDS SerialProofs

(* What may still fail is MongoDB under booking-service, and its broker. *)
Calm == Faults \cap {"redis", "inventory", "crash"} = {}

(* A call that booking-service has sent has a request that waits for it. *)
Attended(r) == ~Idle(r) => req[r].pc \in {"getItem", "loan"}

(* What a read holds, or has answered, is the row as it is now. *)
ReadsCurrent(h) ==
  hdl[h].op = "get" /\ (hdl[h].pc = "cacheSet" \/ (hdl[h].pc = "reply" /\ hdl[h].out = "ok")) =>
    hdl[h].row = item[hdl[h].id]

(* A stale entry is about to be deleted. *)
Fresh(i) == Coherent(i) \/ \E h \in Handlers : hdl[h].pc = "cacheDel" /\ hdl[h].id = i

(* A request about to insert a booking has an item that can be booked. *)
Bookable(r) ==
  req[r].pc = "insert" =>
    LET row == item[req[r].item] IN
      row # None /\ row.isListed /\ ~row.isOnLoan /\ row.ownerId = req[r].owner

(* Request r has returned a booking of i and has still to release i. *)
Releasing(r, i) ==
  /\ req[r].op = "RETURNED" /\ req[r].item = i
  /\ req[r].pc = "sendLoan" \/ (req[r].pc = "loan" /\ hdl[r].pc = "write")

Approved(i) == \E b \in Bookings : Exists(b) /\ booking[b].itemId = i /\ booking[b].status = "APPROVED"

(* A lock has an approved booking, or is about to be released, or its item *)
(* was posted with it.                                                     *)
Lawful(i) ==
  Locked(i) => origin[i].lent \/ Approved(i) \/ \E r \in Requests : Releasing(r, i)

(* The loan call of a request is the one its booking calls for. *)
Calls(r) ==
  /\ req[r].pc = "loan" => hdl[r].op = "loan"
  /\ req[r].pc = "loan" /\ hdl[r].pc = "write" =>
       hdl[r].id = req[r].item /\ hdl[r].arg = (req[r].op = "APPROVED")
  /\ req[r].pc \in {"sendLoan", "loan"} /\ req[r].op = "APPROVED" =>
       booking[req[r].b].status = "APPROVED"

CalmInv ==
  /\ TableInv
  /\ \A r \in Requests : Attended(r)
  /\ \A h \in Direct : hdl[h].op # "loan"
  /\ \A h \in Handlers : ReadsCurrent(h)
  /\ \A i \in Items : Fresh(i) /\ Lawful(i)
  /\ \A r \in Requests : Bookable(r) /\ Calls(r)

-----------------------------------------------------------------------------
(* At most one handler is at work. *)
LEMMA OneBusy ==
  ASSUME CalmInv, NEW g \in Handlers, NEW h \in Handlers, ~Idle(g), ~Idle(h)
  PROVE  g = h
<1>1. ASSUME NEW x \in Handlers, ~Idle(x) PROVE x \in InFlight
  BY <1>1, SlotsAssumption DEF CalmInv, Attended, InFlight
<1> QED
  BY <1>1 DEF CalmInv, TableInv, Alone

(* While a request waits for no call, no handler is at work. *)
LEMMA NoCallAtWork ==
  ASSUME CalmInv, NEW r \in Requests, req[r].pc \notin {"idle", "getItem", "loan"},
         NEW h \in Handlers
  PROVE  Idle(h)
<1> SUFFICES ASSUME ~Idle(h) PROVE FALSE
  OBVIOUS
<1>1. r \in InFlight /\ h \in InFlight
  BY SlotsAssumption DEF CalmInv, Attended, InFlight
<1>2. h = r
  BY <1>1 DEF CalmInv, TableInv, Alone
<1> QED
  BY <1>2 DEF CalmInv, Attended

(* A user's call arrives only when nothing is in flight. *)
LEMMA UserCallsAlone ==
  ASSUME Serial, CalmInv, Admitted
  PROVE  /\ \A r \in Requests : req[r].pc = "idle"
         /\ \A h \in Handlers : Idle(h)
<1>1. InFlight = {}
  BY AdmittedAlone
<1> QED
  BY <1>1, SlotsAssumption DEF InFlight, CalmInv, Attended

(* What a step of a request does to its call: a busy one is left alone. *)
LEMMA RequestCall ==
  ASSUME CalmInv, NEW r \in Requests, OfRequest(r)
  PROVE  \/ ArriveCreate(r) /\ hdl[r].pc = "idle" /\ hdl'[r].op = "get" /\ hdl'[r].pc = "cacheGet"
         \/ /\ SendLoan(r) /\ hdl[r].pc = "idle" /\ hdl'[r].op = "loan" /\ hdl'[r].pc = "write"
            /\ hdl'[r].id = req[r].item /\ hdl'[r].arg = (req[r].op = "APPROVED")
         \/ /\ ItemReceived(r) \/ LoanAnswered(r)
            /\ hdl[r].pc = "reply" /\ hdl'[r].pc = "idle"
         \/ /\ \/ ArriveChange(r) \/ CreateBooking(r) \/ FindBooking(r) \/ SaveBooking(r)
               \/ Publish(r) \/ Finish(r) \/ MongoFails(r)
            /\ hdl' = hdl /\ Idle(r)
<1>1. r \in Handlers /\ hdl \in [Handlers -> Handler] /\ Attended(r) /\ Inv
  BY SlotsAssumption DEF CalmInv, TableInv, Inv, TypeOK, InventoryTypeOK
<1>2. CASE ArriveCreate(r)
  <2>1. PICK i \in Items : Begin(r, GetCall(i))
    BY <1>2 DEF ArriveCreate
  <2>2. GetCall(i).op = "get" /\ GetCall(i).pc = "cacheGet"
    BY DEF GetCall, IdleHandler
  <2> QED
    BY <1>1, <1>2, <2>1, <2>2 DEF Begin, Idle
<1>3. CASE SendLoan(r)
  <2> DEFINE call == LoanCall(req[r].item, req[r].op = "APPROVED")
  <2>1. call.op = "loan" /\ call.pc = "write" /\ call.id = req[r].item
        /\ call.arg = (req[r].op = "APPROVED")
    BY DEF LoanCall, IdleHandler
  <2>2. hdl[r].pc = "idle" /\ hdl'[r] = call
    BY <1>1, <1>3 DEF SendLoan, Begin, Idle
  <2> QED
    BY <1>3, <2>1, <2>2
<1>4. CASE ItemReceived(r) \/ LoanAnswered(r)
  BY <1>1, <1>4 DEF ItemReceived, LoanAnswered, Respond, IdleHandler
<1>5. ~DiscardOrphan(r)
  BY <1>1 DEF DiscardOrphan, Respond, Attended, Idle
<1>6. CASE ArriveChange(r)
  BY <1>6 DEF ArriveChange, inventoryVars
<1>7. CASE \/ CreateBooking(r) \/ FindBooking(r) \/ SaveBooking(r) \/ Publish(r) \/ Finish(r)
           \/ MongoFails(r)
  BY <1>1, <1>7 DEF CreateBooking, FindBooking, SaveBooking, Publish, Finish, MongoFails,
     Attended, inventoryVars
<1> QED
  BY <1>2, <1>3, <1>4, <1>5, <1>6, <1>7 DEF OfRequest, RequestStep

(* A step of inventory-service, nothing failing: the one busy handler      *)
(* goes on, a user's call comes or is answered, or an entry expires.       *)
LEMMA SideCases ==
  ASSUME Calm, InventorySide
  PROVE  /\ UNCHANGED bookingVars
         /\ \/ \E h \in Handlers : HandlerStep(h)
            \/ \E h \in Direct : Admitted /\ UserCall(h)
            \/ \E h \in Direct : Respond(h)
            \/ \E i \in Items : Expire(i)
BY DEF Calm, InventorySide, Abort

(* A handler that takes a step is at work. *)
LEMMA StepIsBusy ==
  ASSUME NEW h \in Handlers, HandlerStep(h) PROVE ~Idle(h)
BY DEF Idle, HandlerStep, CacheStep, StoreStep, CacheGet, DbGet, CacheSet, CreateItem, Find, SaveItem, DeleteItem,
   SetLoanStatus, CacheDel, At

(* What a user's call or its answer does to the slots. *)
LEMMA DirectFrame ==
  ASSUME CalmInv, NEW h \in Direct, UserCall(h) \/ Respond(h)
  PROVE  /\ UNCHANGED <<item, cache, origin>>
         /\ \A g \in Handlers \ {h} : hdl'[g] = hdl[g]
         /\ hdl'[h].pc \in {"idle", "cacheGet", "find", "write"} /\ hdl'[h].op # "loan"
         /\ hdl[h].pc \in {"idle", "reply"}
<1>1. h \in Handlers /\ hdl \in [Handlers -> Handler]
  BY SlotsAssumption DEF CalmInv, TableInv, Inv, TypeOK, InventoryTypeOK
<1>2. CASE Respond(h)
  BY <1>1, <1>2 DEF Respond, IdleHandler
<1>3. CASE UserCall(h)
  <2>1. \E call : /\ Begin(h, call)
                  /\ call.pc \in {"cacheGet", "find", "write"} /\ call.op # "loan"
    <3>1. PICK u \in Users, i \in Items :
            \/ Begin(h, GetCall(i))
            \/ \E op \in {"update", "listing", "delete"} : \E arg : Begin(h, WriteCall(op, i, arg, u))
            \/ \E arg : Begin(h, CreateCall(i, arg, u))
      BY <1>3 DEF UserCall
    <3>2. GetCall(i).pc = "cacheGet" /\ GetCall(i).op = "get"
      BY DEF GetCall, IdleHandler
    <3>3. \A op, arg : WriteCall(op, i, arg, u).pc = "find" /\ WriteCall(op, i, arg, u).op = op
      BY DEF WriteCall, IdleHandler
    <3>4. \A arg : CreateCall(i, arg, u).pc = "write" /\ CreateCall(i, arg, u).op = "create"
      BY DEF CreateCall, IdleHandler
    <3> QED
      BY <3>1, <3>2, <3>3, <3>4
  <2> QED
    BY <1>1, <2>1 DEF Begin, Idle
<1> QED
  BY <1>2, <1>3

-----------------------------------------------------------------------------
(* What each kind of step leaves alone. *)
LEMMA RequestLeaves ==
  ASSUME CalmInv, NEW r \in Requests, OfRequest(r)
  PROVE  /\ UNCHANGED <<item, cache, origin>>
         /\ \A s \in Requests \ {r} : req'[s] = req[s]
         /\ \A h \in Handlers \ {r} : hdl'[h] = hdl[h]
BY RequestFrame DEF CalmInv, TableInv

LEMMA HandlerLeaves ==
  ASSUME CalmInv, NEW h \in Handlers, HandlerStep(h)
  PROVE  /\ \A g \in Handlers \ {h} : hdl'[g] = hdl[g]
         /\ hdl'[h].op = hdl[h].op /\ hdl'[h].id = hdl[h].id
         /\ ~(hdl'[h].op = "loan" /\ hdl'[h].pc = "write")
         /\ ~Idle(h) /\ hdl[h].id \in Items /\ CallOK(hdl[h])
<1>1. InventoryInv /\ ~Idle(h)
  BY StepIsBusy DEF CalmInv, TableInv, Inv
<1> QED
  BY <1>1, HandlerKeepsCall, HandlerFacts DEF Idle

(* The kinds of steps, nothing failing but MongoDB and the broker. *)
LEMMA Steps ==
  ASSUME Calm, [Next]_vars
  PROVE  \/ \E r \in Requests : OfRequest(r)
         \/ UNCHANGED bookingVars /\ \E h \in Handlers : HandlerStep(h)
         \/ UNCHANGED bookingVars /\ \E h \in Direct : Admitted /\ UserCall(h)
         \/ UNCHANGED bookingVars /\ \E h \in Direct : Respond(h)
         \/ UNCHANGED bookingVars /\ \E i \in Items : Expire(i)
         \/ UNCHANGED <<item, cache, origin, hdl, booking, req>>
<1>1. ~Crash
  BY DEF Calm, Crash
<1> QED
  BY <1>1, SideCases DEF Next, OfRequest, BrokerCloses, vars, inventoryVars

(* Every call keeps a request that waits for it, and no user locks items. *)
LEMMA AttendedStep ==
  ASSUME Calm, CalmInv, [Next]_vars
  PROVE  /\ \A r \in Requests : Attended(r)'
         /\ \A h \in Direct : hdl'[h].op # "loan"
<1> USE SlotsAssumption
<1>0. (\A r \in Requests : Attended(r)) /\ (\A h \in Direct : hdl[h].op # "loan") /\ Inv
  BY DEF CalmInv, TableInv
<1>1. ASSUME NEW r \in Requests, OfRequest(r)
      PROVE  (\A s \in Requests : Attended(s)') /\ (\A h \in Direct : hdl'[h].op # "loan")
  <2>1. Attended(r)'
    BY <1>0, <1>1, RequestCall, NextPc DEF Attended, Idle
  <2> QED
    BY <1>0, <1>1, <2>1, RequestLeaves DEF Attended, Idle
<1>2. ASSUME UNCHANGED bookingVars, NEW h \in Handlers, HandlerStep(h)
      PROVE  (\A s \in Requests : Attended(s)') /\ (\A g \in Direct : hdl'[g].op # "loan")
  BY <1>0, <1>2, HandlerLeaves DEF Attended, Idle, bookingVars
<1>3. ASSUME UNCHANGED bookingVars, NEW h \in Direct, UserCall(h) \/ Respond(h)
      PROVE  (\A s \in Requests : Attended(s)') /\ (\A g \in Direct : hdl'[g].op # "loan")
  BY <1>0, <1>3, DirectFrame DEF Attended, Idle, bookingVars
<1>4. ASSUME UNCHANGED <<hdl, req>>
      PROVE  (\A s \in Requests : Attended(s)') /\ (\A g \in Direct : hdl'[g].op # "loan")
  BY <1>0, <1>4 DEF Attended, Idle
<1> QED
  BY <1>1, <1>2, <1>3, <1>4, Steps DEF Expire, bookingVars

(* A read is alone at work, so nothing changes the row that it has read. *)
LEMMA ReadsStep ==
  ASSUME Serial, Calm, CalmInv, [Next]_vars, NEW g \in Handlers
  PROVE  ReadsCurrent(g)'
<1> USE SlotsAssumption
<1>0. ReadsCurrent(g) /\ Inv /\ InventoryInv /\ hdl \in [Handlers -> Handler]
  BY DEF CalmInv, TableInv, Inv, TypeOK, InventoryTypeOK
<1>1. ASSUME item' = item, hdl'[g] = hdl[g] PROVE ReadsCurrent(g)'
  BY <1>0, <1>1 DEF ReadsCurrent
<1>2. ASSUME NEW r \in Requests, OfRequest(r) PROVE ReadsCurrent(g)'
  <2>1. item' = item /\ (g # r => hdl'[g] = hdl[g])
    BY <1>2, RequestLeaves
  <2>2. g = r => hdl'[g] = hdl[g] \/ hdl'[g].pc \in {"idle", "cacheGet", "write"}
    BY <1>2, RequestCall
  <2> QED
    BY <1>1, <2>1, <2>2 DEF ReadsCurrent
<1>3. ASSUME NEW h \in Handlers, HandlerStep(h) PROVE ReadsCurrent(g)'
  <2>1. CASE g # h
    <3>1. Idle(g) /\ hdl'[g] = hdl[g]
      BY <1>3, <2>1, OneBusy, HandlerLeaves
    <3> QED
      BY <3>1 DEF Idle, ReadsCurrent
  <2>2. CASE g = h
    <3> DEFINE i == hdl[h].id
    <3>1. SUFFICES ASSUME hdl'[h].op = "get",
                          hdl'[h].pc = "cacheSet" \/ (hdl'[h].pc = "reply" /\ hdl'[h].out = "ok")
                   PROVE  hdl'[h].row = item'[hdl'[h].id]
      BY <2>2 DEF ReadsCurrent
    <3>2. hdl[h].op = "get" /\ i \in Items /\ hdl'[h].id = i /\ CallOK(hdl[h])
      BY <1>3, <3>1, HandlerLeaves
    <3>3. CacheGet(h) \/ DbGet(h) \/ CacheSet(h)
      BY <1>3, <3>2 DEF HandlerStep, CacheStep, StoreStep, CreateItem, Find, SaveItem, DeleteItem, SetLoanStatus, CacheDel, At, CallOK
    <3>4. item' = item
      BY <3>3 DEF CacheGet, DbGet, CacheSet
    <3>5. \A out, row : Answer(h, out, row) => hdl'[h].row = row /\ hdl'[h].out = out
      BY <1>0 DEF Answer, Answered, IdleHandler
    <3>6. CASE CacheGet(h)
      <4>1. hdl[h].pc = "cacheGet"
        BY <3>6 DEF CacheGet, At
      <4>2. Coherent(i)
        BY <3>2, <4>1, OneBusy DEF CalmInv, Fresh, Idle
      <4>3. ~(hdl' = [hdl EXCEPT ![h].pc = "dbGet"])
        BY <1>0, <3>1 DEF Handler
      <4>4. cache[i] # None /\ Answer(h, "ok", cache[i])
        BY <3>6, <4>3 DEF CacheGet
      <4> QED
        BY <3>2, <3>4, <3>5, <4>2, <4>4 DEF Coherent
    <3>7. CASE DbGet(h)
      <4>1. \/ item[i] # None /\ hdl' = [hdl EXCEPT ![h].pc = "cacheSet", ![h].row = item[i]]
            \/ Answer(h, "notFound", None)
        BY <3>7 DEF DbGet
      <4>2. ~Answer(h, "notFound", None)
        BY <1>0, <3>1 DEF Answer, Answered, IdleHandler
      <4> QED
        BY <1>0, <3>2, <3>4, <4>1, <4>2 DEF Handler
    <3>8. CASE CacheSet(h)
      BY <1>0, <2>2, <3>2, <3>4, <3>5, <3>8 DEF CacheSet, At, ReadsCurrent
    <3> QED
      BY <3>3, <3>6, <3>7, <3>8
  <2> QED
    BY <2>1, <2>2
<1>4. ASSUME NEW h \in Direct, UserCall(h) \/ Respond(h) PROVE ReadsCurrent(g)'
  <2>1. item' = item /\ (g # h => hdl'[g] = hdl[g])
    BY <1>4, DirectFrame
  <2>2. g = h => hdl'[g].pc \in {"idle", "cacheGet", "find", "write"}
    BY <1>4, DirectFrame
  <2> QED
    BY <1>1, <2>1, <2>2 DEF ReadsCurrent
<1> QED
  BY <1>1, <1>2, <1>3, <1>4, Steps DEF Expire

(* An entry that a write has made stale is deleted before anything else    *)
(* happens, and no read stores a row that is not the current one.          *)
LEMMA FreshStep ==
  ASSUME Serial, Calm, CalmInv, [Next]_vars, NEW i \in Items
  PROVE  Fresh(i)'
<1> USE SlotsAssumption
<1>0. /\ Inv /\ InventoryInv /\ Fresh(i) /\ hdl \in [Handlers -> Handler]
      /\ cache \in [Items -> Row \cup {None}]
  BY DEF CalmInv, TableInv, Inv, TypeOK, InventoryTypeOK
<1>1. ASSUME UNCHANGED <<item, cache>>,
             \A h \in Handlers : hdl[h].pc = "cacheDel" => hdl'[h] = hdl[h]
      PROVE  Fresh(i)'
  BY <1>0, <1>1 DEF Fresh, Coherent
<1>2. ASSUME NEW r \in Requests, OfRequest(r) PROVE Fresh(i)'
  <2>1. hdl[r].pc = "cacheDel" => hdl'[r] = hdl[r]
    BY <1>2, RequestCall
  <2> QED
    BY <1>1, <1>2, <2>1, RequestLeaves
<1>3. ASSUME NEW h \in Handlers, HandlerStep(h) PROVE Fresh(i)'
  <2>1. CASE Coherent(i)
    <3>1. [InventoryNext]_inventoryVars
      BY <1>3 DEF InventoryNext
    <3>2. \A g \in Handlers : ~(At(g, "get", "cacheSet") /\ hdl[g].id = i /\ hdl[g].row # item[i])
      BY DEF CalmInv, ReadsCurrent, At
    <3> QED
      BY <1>0, <2>1, <3>1, <3>2, StaleStep DEF Fresh
  <2>2. CASE ~Coherent(i)
    <3>1. hdl[h].pc = "cacheDel" /\ hdl[h].id = i
      BY <1>0, <1>3, <2>2, OneBusy, StepIsBusy DEF Fresh, Idle
    <3>2. CacheDel(h)
      BY <1>3, <3>1 DEF HandlerStep, CacheStep, StoreStep, CacheGet, DbGet, CacheSet, CreateItem, Find, SaveItem,
         DeleteItem, SetLoanStatus, At
    <3>3. cache' = [cache EXCEPT ![i] = None]
      BY <3>1, <3>2 DEF CacheDel, Calm
    <3> QED
      BY <1>0, <3>3 DEF Fresh, Coherent
  <2> QED
    BY <2>1, <2>2
<1>4. ASSUME NEW h \in Direct, UserCall(h) \/ Respond(h) PROVE Fresh(i)'
  BY <1>1, <1>4, DirectFrame
<1>5. ASSUME NEW j \in Items, Expire(j) PROVE Fresh(i)'
  BY <1>0, <1>5 DEF Expire, Fresh, Coherent
<1> QED
  BY <1>1, <1>2, <1>3, <1>4, <1>5, Steps

-----------------------------------------------------------------------------
(* What booking-service decides on the row that it was sent still holds of *)
(* the row when it inserts the booking: nothing is at work in between.     *)
LEMMA BookableStep ==
  ASSUME Serial, Calm, CalmInv, [Next]_vars, NEW s \in Requests
  PROVE  Bookable(s)'
<1> USE SlotsAssumption
<1>0. /\ Inv /\ InventoryInv /\ Bookable(s) /\ req \in [Requests -> Request]
      /\ \A r \in Requests : RequestOK(r)
  BY DEF CalmInv, TableInv, Inv, TypeOK
<1>1. ASSUME item' = item, req'[s] = req[s] PROVE Bookable(s)'
  BY <1>0, <1>1 DEF Bookable
<1>2. ASSUME NEW r \in Requests, OfRequest(r) PROVE Bookable(s)'
  <2>1. item' = item /\ (s # r => req'[s] = req[s])
    BY <1>2, RequestLeaves
  <2>2. CASE s = r /\ ItemReceived(r)
    <3>1. SUFFICES ASSUME req'[r].pc = "insert"
                   PROVE  LET row == item[req'[r].item] IN
                            /\ row # None /\ row.isListed /\ ~row.isOnLoan
                            /\ row.ownerId = req'[r].owner
      BY <2>1, <2>2 DEF Bookable
    <3>2. \A out : ~Reply(r, out)
      BY <1>0, <3>1 DEF Reply, IdleRequest
    <3>3. /\ req[r].pc = "getItem" /\ hdl[r].pc = "reply" /\ hdl[r].out = "ok"
          /\ ~Refused(hdl[r].row, req[r].user)
          /\ req' = [req EXCEPT ![r].pc = "insert", ![r].owner = hdl[r].row.ownerId]
      BY <2>2, <3>2 DEF ItemReceived
    <3>4. hdl[r].op = "get" /\ hdl[r].id = req[r].item /\ CallOK(hdl[r]) /\ r \in Handlers
      BY <1>0, <3>3 DEF RequestOK, InventoryInv
    <3>5. hdl[r].row = item[req[r].item] /\ hdl[r].row # None
      BY <3>3, <3>4 DEF CalmInv, ReadsCurrent, CallOK
    <3>6. req'[r].item = req[r].item /\ req'[r].owner = hdl[r].row.ownerId
      BY <1>0, <3>3 DEF Request
    <3> QED
      BY <3>3, <3>5, <3>6 DEF Refused
  <2>3. CASE s = r /\ ~ItemReceived(r)
    <3>1. req'[r].pc # "insert"
      BY <1>0, <1>2, <2>3, RequestCall, NextPc
    <3> QED
      BY <2>3, <3>1 DEF Bookable
  <2> QED
    BY <1>1, <2>1, <2>2, <2>3
<1>3. ASSUME UNCHANGED bookingVars, NEW h \in Handlers, HandlerStep(h) PROVE Bookable(s)'
  <2>1. req[s].pc # "insert"
    BY <1>3, NoCallAtWork, StepIsBusy
  <2> QED
    BY <1>3, <2>1 DEF Bookable, bookingVars
<1>4. ASSUME UNCHANGED bookingVars, NEW h \in Direct, UserCall(h) \/ Respond(h) PROVE Bookable(s)'
  BY <1>1, <1>4, DirectFrame DEF bookingVars
<1> QED
  BY <1>1, <1>2, <1>3, <1>4, Steps DEF Expire, bookingVars

(* A booking is written only by the one request in flight. *)
LEMMA WriterAlone ==
  ASSUME CalmInv, NEW r \in Requests, NEW s \in Requests \ {r}, OfRequest(r), booking' # booking
  PROVE  req[s].pc = "idle"
<1>1. CreateBooking(r) \/ SaveBooking(r)
  BY DEF OfRequest, RequestStep, ArriveCreate, ArriveChange, ItemReceived, FindBooking, SendLoan,
     LoanAnswered, Publish, Finish, MongoFails, DiscardOrphan, bookingVars
<1> QED
  BY <1>1, OthersIdle DEF CreateBooking, SaveBooking, CalmInv, TableInv

(* A loan call carries what the booking of its request calls for. *)
LEMMA CallsStep ==
  ASSUME Serial, Calm, CalmInv, [Next]_vars, NEW s \in Requests
  PROVE  Calls(s)'
<1> USE SlotsAssumption
<1>0. /\ Inv /\ InventoryInv /\ Calls(s) /\ req \in [Requests -> Request] /\ RequestOK(s)
      /\ booking \in [Bookings -> Booking \cup {None}]
  BY DEF CalmInv, TableInv, Inv, TypeOK
<1>1. ASSUME req'[s] = req[s], hdl'[s] = hdl[s],
             booking' = booking \/ req[s].pc \notin {"sendLoan", "loan"}
      PROVE  Calls(s)'
  BY <1>0, <1>1 DEF Calls
<1>2. ASSUME NEW r \in Requests, OfRequest(r) PROVE Calls(s)'
  <2>1. CASE s # r
    BY <1>1, <1>2, <2>1, RequestLeaves, WriterAlone
  <2>2. CASE s = r /\ SendLoan(r)
    <3>1. /\ req[r].pc = "sendLoan" /\ booking' = booking
          /\ req' = [req EXCEPT ![r].pc = "loan"]
      BY <2>2 DEF SendLoan, Go
    <3>2. req'[r].op = req[r].op /\ req'[r].b = req[r].b /\ req'[r].item = req[r].item
      BY <1>0, <3>1 DEF Request
    <3>3. /\ hdl'[r].op = "loan" /\ hdl'[r].id = req[r].item
          /\ hdl'[r].arg = (req[r].op = "APPROVED")
      BY <1>2, <2>2, <3>1, RequestCall DEF ArriveCreate, ItemReceived, LoanAnswered, ArriveChange,
         CreateBooking, FindBooking, SaveBooking, Publish, Finish, MongoFails
    <3> QED
      BY <1>0, <2>2, <3>1, <3>2, <3>3 DEF Calls
  <2>3. CASE s = r /\ SaveBooking(r)
    <3>1. /\ req[r].pc = "save" /\ req' = [req EXCEPT ![r].pc = AfterSave(req[r].op)]
          /\ booking' = [booking EXCEPT ![req[r].b].status = req[r].op,
                                        ![req[r].b].stamps = @ \cup {req[r].op}]
      BY <2>3 DEF SaveBooking, Go
    <3>2. /\ req[r].b \in Bookings /\ booking[req[r].b] \in Booking
      BY <1>0, <2>3, <3>1 DEF RequestOK
    <3>3. booking'[req[r].b].status = req[r].op
      BY <1>0, <3>1, <3>2 DEF Booking
    <3>4. req'[r].op = req[r].op /\ req'[r].b = req[r].b /\ req'[r].pc # "loan"
      BY <1>0, <3>1 DEF Request, AfterSave
    <3> QED
      BY <2>3, <3>3, <3>4 DEF Calls
  <2>4. CASE s = r /\ ~SendLoan(r) /\ ~SaveBooking(r)
    <3>1. req'[r].pc \notin {"sendLoan", "loan"}
      BY <1>0, <1>2, <2>4, RequestCall, NextPc
    <3> QED
      BY <2>4, <3>1 DEF Calls
  <2> QED
    BY <2>1, <2>2, <2>3, <2>4
<1>3. ASSUME UNCHANGED bookingVars, NEW h \in Handlers, HandlerStep(h) PROVE Calls(s)'
  <2>1. CASE s # h
    BY <1>1, <1>3, <2>1, HandlerLeaves DEF bookingVars
  <2>2. CASE s = h
    BY <1>0, <1>3, <2>2, HandlerLeaves DEF Calls, bookingVars
  <2> QED
    BY <2>1, <2>2
<1>4. ASSUME UNCHANGED bookingVars, NEW h \in Direct, UserCall(h) \/ Respond(h) PROVE Calls(s)'
  BY <1>1, <1>4, DirectFrame DEF bookingVars
<1> QED
  BY <1>1, <1>2, <1>3, <1>4, Steps DEF Expire, bookingVars

-----------------------------------------------------------------------------
(* An approval and an owed release outlive the steps that write nothing.   *)
LEMMA LawfulKept ==
  ASSUME NEW i \in Items, Lawful(i), item' = item, origin' = origin, booking' = booking,
         \A r \in Requests : Releasing(r, i) => Releasing(r, i)'
  PROVE  Lawful(i)'
BY DEF Lawful, Locked, Approved, Exists

(* A request that owes a release keeps owing it until its loan call has    *)
(* written.                                                                *)
LEMMA ReleasingKept ==
  ASSUME CalmInv, NEW i \in Items, NEW s \in Requests, Releasing(s, i),
         NEW r \in Requests, OfRequest(r)
  PROVE  Releasing(s, i)' /\ booking' = booking
<1>0. /\ req \in [Requests -> Request] /\ s \in Handlers
      /\ req[s].pc \in {"sendLoan", "loan"} /\ Inv
  BY SlotsAssumption DEF CalmInv, TableInv, Inv, TypeOK, Releasing
<1>1. CASE r # s
  <2>1. booking' = booking
    BY <1>0, <1>1, WriterAlone
  <2> QED
    BY <1>0, <1>1, <2>1, RequestLeaves DEF Releasing
<1>2. CASE r = s
  <2>1. CASE SendLoan(r)
    <3>1. booking' = booking /\ req' = [req EXCEPT ![r].pc = "loan"] /\ hdl'[r].pc = "write"
      BY <2>1, RequestCall DEF SendLoan, Go, ArriveCreate, ItemReceived, LoanAnswered, ArriveChange,
         CreateBooking, FindBooking, SaveBooking, Publish, Finish, MongoFails
    <3> QED
      BY <1>0, <1>2, <3>1 DEF Releasing, Request
  <2>2. ~ArriveCreate(r) /\ ~ItemReceived(r) /\ ~ArriveChange(r) /\ ~CreateBooking(r)
        /\ ~FindBooking(r) /\ ~SaveBooking(r) /\ ~Publish(r) /\ ~Finish(r) /\ ~MongoFails(r)
    BY <1>0, <1>2 DEF ArriveCreate, ItemReceived, ArriveChange, CreateBooking, FindBooking,
       SaveBooking, Publish, Finish, MongoFails
  <2>3. ~LoanAnswered(r)
    BY <1>2 DEF LoanAnswered, Releasing
  <2> QED
    BY <2>1, <2>2, <2>3, RequestCall
<1> QED
  BY <1>1, <1>2

(* Only an approval leaves a lock, and a booking that stops being approved *)
(* is returned by a request that goes on to release the item.              *)
LEMMA LawfulStep ==
  ASSUME Serial, Calm, CalmInv, [Next]_vars, NEW i \in Items
  PROVE  Lawful(i)'
<1> USE SlotsAssumption
<1>0. /\ Inv /\ InventoryInv /\ Lawful(i) /\ req \in [Requests -> Request]
      /\ booking \in [Bookings -> Booking \cup {None}] /\ item \in [Items -> Row \cup {None}]
      /\ \A r \in Requests : RequestOK(r) /\ Calls(r) /\ Attended(r) /\ Ready(r)
  BY DEF CalmInv, TableInv, Inv, TypeOK, InventoryTypeOK
<1>1. ASSUME NEW r \in Requests, OfRequest(r) PROVE Lawful(i)'
  <2>1. item' = item /\ origin' = origin
    BY <1>1, RequestLeaves
  <2>2. CASE booking' = booking
    BY <1>0, <1>1, <2>1, <2>2, ReleasingKept, LawfulKept
  <2>3. CASE booking' # booking
    <3>1. SUFFICES ASSUME Locked(i), ~origin[i].lent
                   PROVE  Approved(i)' \/ \E s \in Requests : Releasing(s, i)'
      BY <2>1 DEF Lawful, Locked
    <3>2. PICK b \in Bookings : Exists(b) /\ booking[b].itemId = i /\ booking[b].status = "APPROVED"
      BY <1>0, <1>1, <2>3, <3>1, ReleasingKept DEF Lawful, Approved
    <3>3. CreateBooking(r) \/ SaveBooking(r)
      BY <1>1, <2>3 DEF OfRequest, RequestStep, ArriveCreate, ArriveChange, ItemReceived, FindBooking,
         SendLoan, LoanAnswered, Publish, Finish, MongoFails, DiscardOrphan, bookingVars
    <3>4. CASE booking'[b] = booking[b]
      BY <3>2, <3>4 DEF Approved, Exists
    <3>5. CASE booking'[b] # booking[b]
      <4>1. b = req[r].b
        BY <1>0, <3>3, <3>5 DEF CreateBooking, SaveBooking
      <4>2. SaveBooking(r)
        BY <1>0, <3>2, <3>3, <4>1 DEF CreateBooking, RequestOK, Exists
      <4>3. req[r].pc = "save" /\ req' = [req EXCEPT ![r].pc = AfterSave(req[r].op)]
        BY <4>2 DEF SaveBooking, Go
      <4>4. req[r].op = "RETURNED" /\ req[r].item = i
        <5>1. CanTransition("APPROVED", req[r].op) /\ booking[b].itemId = req[r].item
          BY <1>0, <3>2, <4>1, <4>3 DEF Ready, RequestOK
        <5> QED
          BY <3>2, <5>1 DEF CanTransition, transitions, Statuses
      <4>5. Releasing(r, i)'
        BY <1>0, <4>3, <4>4 DEF Releasing, AfterSave, CallsInventory, Request
      <4> QED
        BY <4>5
    <3> QED
      BY <3>4, <3>5
  <2> QED
    BY <2>2, <2>3
<1>2. ASSUME UNCHANGED bookingVars, NEW h \in Handlers, HandlerStep(h) PROVE Lawful(i)'
  <2>1. SUFFICES ASSUME item'[i] # None, item'[i].isOnLoan, ~origin'[i].lent
                 PROVE  Approved(i)' \/ \E s \in Requests : Releasing(s, i)'
    BY DEF Lawful, Locked
  <2>2. booking' = booking /\ req' = req /\ [InventoryNext]_inventoryVars
    BY <1>2 DEF bookingVars, InventoryNext
  <2>3. ASSUME At(h, "loan", "write"), hdl[h].id = i PROVE Approved(i)
    <3>1. h \in Requests
      BY <2>3 DEF CalmInv, At
    <3>2. req[h].pc = "loan"
      BY <1>0, <2>3, <3>1 DEF Attended, Idle, At, RequestOK
    <3>3. SetLoanStatus(h)
      BY <1>2, <2>3 DEF HandlerStep, CacheStep, StoreStep, CacheGet, DbGet, CacheSet, CreateItem, Find, SaveItem,
         DeleteItem, CacheDel, At
    <3>4. item'[i].isOnLoan = hdl[h].arg
      <4>1. item[i] # None /\ item' = [item EXCEPT ![i].isOnLoan = hdl[h].arg]
        BY <2>1, <2>3, <3>3 DEF SetLoanStatus
      <4> QED
        BY <1>0, <4>1 DEF Row
    <3>5. req[h].op = "APPROVED" /\ req[h].item = i
      BY <1>0, <2>1, <2>3, <3>1, <3>2, <3>4 DEF Calls, At
    <3> QED
      BY <1>0, <3>1, <3>2, <3>5 DEF Calls, RequestOK, Approved, Exists
  <2>4. CASE At(h, "loan", "write") /\ hdl[h].id = i
    BY <2>2, <2>3, <2>4 DEF Approved, Exists
  <2>5. CASE ~(At(h, "loan", "write") /\ hdl[h].id = i)
    <3>1. Locked(i) /\ ~origin[i].lent
      <4>1. CASE item' = item /\ origin' = origin
        BY <2>1, <4>1 DEF Locked
      <4>2. CASE item' # item \/ origin' # origin
        <5>1. PICK row \in Row \cup {None} :
                 /\ Write(h, row)
                 /\ \A j \in Items \ {hdl[h].id} : origin'[j] = origin[j]
                 /\ hdl[h].op = "create" => origin'[hdl[h].id].lent = row.isOnLoan
                 /\ hdl[h].op = "delete" => row = None
                 /\ hdl[h].op \in {"update", "listing"} =>
                      /\ origin' = origin /\ item[hdl[h].id] # None
                      /\ row.isOnLoan = item[hdl[h].id].isOnLoan
          BY <1>0, <1>2, <4>2, Writes
        <5>2. CASE hdl[h].id # i
          <6>1. item'[i] = item[i] /\ origin'[i] = origin[i]
            BY <1>0, <5>1, <5>2 DEF Write
          <6> QED
            BY <2>1, <6>1 DEF Locked
        <5>3. CASE hdl[h].id = i
          <6>1. item'[i] = row /\ hdl[h].op \in {"create", "update", "listing", "delete"}
            BY <1>0, <2>5, <5>1, <5>3 DEF Write, At
          <6> QED
            BY <2>1, <5>1, <5>3, <6>1 DEF Locked
        <5> QED
          BY <5>2, <5>3
      <4> QED
        BY <4>1, <4>2
    <3>2. ASSUME NEW s \in Requests, Releasing(s, i) PROVE Releasing(s, i)'
      <4>1. CASE s = h
        <5>1. ~Idle(h) /\ req[h].pc = "loan" /\ hdl[h].pc = "write"
          BY <1>0, <1>2, <3>2, <4>1, StepIsBusy DEF Attended, Releasing
        <5>2. hdl[h].op = "loan" /\ hdl[h].id = i
          BY <1>0, <3>2, <4>1, <5>1 DEF Calls, Releasing
        <5> QED
          BY <2>5, <5>1, <5>2 DEF At
      <4>2. CASE s # h
        BY <1>2, <2>2, <3>2, <4>2, HandlerLeaves DEF Releasing
      <4> QED
        BY <4>1, <4>2
    <3> QED
      BY <1>0, <2>2, <3>1, <3>2 DEF Lawful, Approved, Exists
  <2> QED
    BY <2>4, <2>5
<1>3. ASSUME UNCHANGED bookingVars, NEW h \in Direct, UserCall(h) \/ Respond(h) PROVE Lawful(i)'
  <2>1. \A s \in Requests : hdl'[s] = hdl[s]
    BY <1>3, DirectFrame
  <2> QED
    BY <1>0, <1>3, <2>1, DirectFrame, LawfulKept DEF Releasing, bookingVars
<1>4. ASSUME UNCHANGED <<item, origin, booking, req, hdl>> PROVE Lawful(i)'
  BY <1>0, <1>4, LawfulKept DEF Releasing
<1> QED
  BY <1>1, <1>2, <1>3, <1>4, Steps DEF Expire, bookingVars

-----------------------------------------------------------------------------
(* The invariant of serial use in calm conditions. *)
LEMMA CalmCorrect == ASSUME Serial, Calm PROVE Spec => []CalmInv
<1>1. Init => CalmInv
  <2> SUFFICES ASSUME Init PROVE CalmInv
    OBVIOUS
  <2>1. /\ \A h \in Handlers : hdl[h].pc = "idle" /\ hdl[h].op = "none"
        /\ \A r \in Requests : req[r].pc = "idle"
        /\ \A i \in Items : cache[i] = None /\ (item[i] # None => ~item[i].isOnLoan)
    BY SlotsAssumption, IdleRequestOK DEF Init, InventoryInit, IdleHandler, UnlockedRow
  <2>2. TableInv
    BY <2>1, InitInv, SlotsAssumption DEF TableInv, Alone, InFlight, Idle, Ready
  <2> QED
    BY <2>1, <2>2, SlotsAssumption DEF CalmInv, Attended, ReadsCurrent, Fresh, Coherent, Lawful, Locked,
       Bookable, Calls, Idle
<1>2. CalmInv /\ [Next]_vars => CalmInv'
  <2> SUFFICES ASSUME CalmInv, [Next]_vars PROVE CalmInv'
    OBVIOUS
  <2>1. TableInv'
    BY NextInv, AloneStep, ReadyStep DEF CalmInv, TableInv
  <2> QED
    BY <2>1, AttendedStep, ReadsStep, FreshStep, LawfulStep, BookableStep, CallsStep DEF CalmInv
<1> QED
  BY <1>1, <1>2, PTL DEF Spec

(* "The cache MUST be invalidated to keep availability accurate"           *)
(* (inventoryService.js:121): between requests that do not overlap, every  *)
(* cached item is what MongoDB holds, however many items there are.        *)
THEOREM SerialCacheCoherent == ASSUME Serial, Calm PROVE Spec => []CoherentWhenQuiet
<1>1. CalmInv => CoherentWhenQuiet
  BY DEF CalmInv, CoherentWhenQuiet, Fresh, Idle
<1> QED
  BY <1>1, CalmCorrect, PTL

(* Requests that do not overlap leave no lock without an approved booking  *)
(* (bookingService.js:88-94), but for the one an item was posted with.     *)
THEOREM SerialLeavesNoPhantomLock == ASSUME Serial, Calm PROVE Spec => []NoPhantomLock
<1>1. CalmInv => NoPhantomLock
  BY DEF CalmInv, NoPhantomLock, NobodyAtWork, InFlight, Lawful, Approved, Releasing
<1> QED
  BY <1>1, CalmCorrect, PTL

(* The one step that creates a booking has an item that can be booked. *)
LEMMA CreateStep ==
  ASSUME CalmInv, [Next]_vars, NEW b \in Bookings, ~Exists(b), Exists(b)'
  PROVE  LET row == item[booking'[b].itemId] IN
           /\ row # None /\ row.isListed /\ ~row.isOnLoan
           /\ row.ownerId = booking'[b].ownerId
<1>1. /\ booking \in [Bookings -> Booking \cup {None}]
      /\ \A r \in Requests : RequestOK(r) /\ Bookable(r)
  BY DEF CalmInv, TableInv, Inv, TypeOK
<1>2. PICK r \in Requests : CreateBooking(r) \/ SaveBooking(r)
  BY OnlyTwoWrites DEF Exists
<1>3. b = req[r].b
  BY <1>1, <1>2 DEF CreateBooking, SaveBooking, Exists
<1>4. CreateBooking(r)
  BY <1>1, <1>2, <1>3 DEF SaveBooking, RequestOK, Exists
<1>5. /\ req[r].pc = "insert"
      /\ booking'[b].itemId = req[r].item /\ booking'[b].ownerId = req[r].owner
  BY <1>1, <1>3, <1>4 DEF CreateBooking
<1> QED
  BY <1>1, <1>5 DEF Bookable

(* createBooking asks the cache (bookingService.js:14-31), and still a     *)
(* booking is created only while MongoDB has its item listed, free and     *)
(* with the owner that the booking names.                                  *)
THEOREM SerialBooksAvailableItems == ASSUME Serial, Calm PROVE Spec => CreatedOnlyWhenBookable
<1>1. CalmInv /\ [Next]_vars =>
        [\A b \in Bookings : ~Exists(b) /\ Exists(b)' =>
           LET row == item[booking'[b].itemId] IN
             /\ row # None /\ row.isListed /\ ~row.isOnLoan
             /\ row.ownerId = booking'[b].ownerId]_vars
  BY CreateStep
<1> QED
  BY <1>1, CalmCorrect, PTL DEF Spec, CreatedOnlyWhenBookable
=============================================================================
