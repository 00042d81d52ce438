---------------------------- MODULE SerialProofs ----------------------------
(***************************************************************************)
(* Proofs about BookingLoan when its clients send one request at a time,   *)
(* to whichever service: what the documentation promises then holds for    *)
(* any number of items, bookings, users and slots.                         *)
(***************************************************************************)
EXTENDS BookingLoanProofs, FiniteSetTheorems

(* One client request at a time. *)
Serial == MaxInFlight = 1 /\ IsFiniteSet(Handlers)

Alone == \A x, y \in InFlight : x = y

(* A request about to save has the status before it that it was checked on.*)
Ready(r) == req[r].pc = "save" => CanTransition(booking[req[r].b].status, req[r].op)

TableInv == Inv /\ Alone /\ \A r \in Requests : Ready(r)

-----------------------------------------------------------------------------
(* A request is admitted only when nothing else is in flight. *)
LEMMA AdmittedAlone ==
  ASSUME Serial, Admitted PROVE InFlight = {}
<1>1. InFlight \subseteq Handlers
  BY SlotsAssumption DEF InFlight
<1>2. IsFiniteSet(InFlight)
  BY <1>1, FS_Subset DEF Serial
<1>3. Cardinality(InFlight) \in Nat /\ Cardinality(InFlight) < 1
  BY <1>2, FS_CardinalityType DEF Serial, Admitted
<1> QED
  BY <1>2, <1>3, FS_EmptySet

(* A step of request r, or one that brings it in. *)
OfRequest(r) == ArriveCreate(r) \/ ArriveChange(r) \/ RequestStep(r) \/ MongoFails(r)

(* A step of a request leaves the others, their calls, the rows and the    *)
(* cache alone, and only an admitted one was not in flight before.         *)
LEMMA RequestFrame ==
  ASSUME Inv, NEW r \in Requests, OfRequest(r)
  PROVE  /\ \A s \in Requests \ {r} : req'[s] = req[s]
         /\ \A h \in Handlers \ {r} : hdl'[h] = hdl[h]
         /\ UNCHANGED <<item, cache, origin>>
         /\ req[r].pc # "idle" \/ Admitted \/ req' = req
<1>1. req \in [Requests -> Request] /\ hdl \in [Handlers -> Handler]
  BY DEF Inv, TypeOK, InventoryTypeOK
<1>2. CASE ArriveCreate(r)
  BY <1>1, <1>2 DEF ArriveCreate, Begin
<1>7. CASE ArriveChange(r)
  BY <1>1, <1>7 DEF ArriveChange, inventoryVars
<1>3. CASE ItemReceived(r)
  BY <1>1, <1>3 DEF ItemReceived, Reply, Respond
<1>4. CASE CreateBooking(r) \/ FindBooking(r) \/ SaveBooking(r) \/ Publish(r) \/ Finish(r) \/ MongoFails(r)
  BY <1>1, <1>4 DEF CreateBooking, FindBooking, SaveBooking, Publish, Finish, MongoFails, Go, Reply, inventoryVars
<1>5. CASE SendLoan(r) \/ LoanAnswered(r)
  BY <1>1, <1>5 DEF SendLoan, LoanAnswered, Begin, Respond, Go, Reply
<1>6. CASE DiscardOrphan(r)
  BY <1>1, <1>6 DEF DiscardOrphan, Respond, bookingVars
<1> QED
  BY <1>2, <1>3, <1>4, <1>5, <1>6, <1>7 DEF OfRequest, RequestStep

(* A step of inventory-service is one of a call in flight, or is admitted, *)
(* or only empties slots and entries.                                      *)
LEMMA SideFrame ==
  ASSUME Inv, InventorySide
  PROVE  /\ UNCHANGED bookingVars
         /\ \/ \E h \in Handlers : /\ ~Idle(h)
                                   /\ \A g \in Handlers \ {h} : hdl'[g] = hdl[g]
            \/ \E h \in Direct : Admitted /\ \A g \in Handlers \ {h} : hdl'[g] = hdl[g]
            \/ hdl' = hdl
<1>1. hdl \in [Handlers -> Handler]
  BY DEF Inv, TypeOK, InventoryTypeOK
<1>2. UNCHANGED bookingVars
  BY DEF InventorySide
<1>3. ASSUME NEW h \in Handlers, HandlerStep(h) \/ Abort(h)
      PROVE  ~Idle(h) /\ \A g \in Handlers \ {h} : hdl'[g] = hdl[g]
  <2>1. ~Idle(h)
    BY <1>3 DEF Idle, Abort, HandlerStep, CacheStep, StoreStep, CacheGet, DbGet, CacheSet, CreateItem, Find, SaveItem,
       DeleteItem, SetLoanStatus, CacheDel, At
  <2> QED
    BY <1>3, <2>1, HandlerKeepsCall DEF Inv
<1>4. ASSUME NEW h \in Direct, Admitted, UserCall(h)
      PROVE  \A g \in Handlers \ {h} : hdl'[g] = hdl[g]
  BY <1>1, <1>4, SlotsAssumption DEF UserCall, Begin
<1>5. ASSUME NEW h \in Direct, Respond(h)
      PROVE  ~Idle(h) /\ \A g \in Handlers \ {h} : hdl'[g] = hdl[g]
  BY <1>1, <1>5, SlotsAssumption DEF Respond, Idle
<1>6. ASSUME NEW i \in Items, Expire(i) PROVE hdl' = hdl
  BY <1>6 DEF Expire
<1> QED
  BY <1>2, <1>3, <1>4, <1>5, <1>6, SlotsAssumption DEF InventorySide

(* At most one client request is in flight, whatever fails. *)
LEMMA AloneStep ==
  ASSUME Serial, Inv, Alone, [Next]_vars PROVE Alone'
<1>1. ASSUME NEW r \in Requests, OfRequest(r)
      PROVE  InFlight' \subseteq InFlight \/ (InFlight = {} /\ InFlight' \subseteq {r})
  BY <1>1, RequestFrame, AdmittedAlone, SlotsAssumption DEF InFlight, Idle
<1>2. ASSUME InventorySide
      PROVE  InFlight' \subseteq InFlight \/ (InFlight = {} /\ \E x : InFlight' \subseteq {x})
  BY <1>2, SideFrame, AdmittedAlone, SlotsAssumption DEF InFlight, Idle, bookingVars
<1>3. ASSUME Crash \/ BrokerCloses \/ UNCHANGED vars PROVE InFlight' \subseteq InFlight
  BY <1>3, IdleRequestOK DEF Crash, BrokerCloses, InFlight, Idle, inventoryVars, vars
<1>4. InFlight' \subseteq InFlight \/ (InFlight = {} /\ \E x : InFlight' \subseteq {x})
  BY <1>1, <1>2, <1>3 DEF Next, OfRequest
<1> QED
  BY <1>4 DEF Alone

-----------------------------------------------------------------------------
(* The transition table. *)

(* A request that is not in flight alone is idle. *)
LEMMA OthersIdle ==
  ASSUME Alone, NEW r \in Requests, req[r].pc # "idle", NEW s \in Requests \ {r}
  PROVE  req[s].pc = "idle"
BY DEF Alone, InFlight

(* Where each step of a request comes from and takes it. *)
LEMMA NextPc ==
  ASSUME Inv, NEW r \in Requests
  PROVE  /\ ArriveCreate(r) => req'[r].pc = "getItem"
         /\ ArriveChange(r) => req'[r].pc = "find"
         /\ ItemReceived(r) => req[r].pc = "getItem" /\ req'[r].pc \in {"insert", "reply"}
         /\ CreateBooking(r) => req[r].pc = "insert" /\ req'[r].pc = "publish"
         /\ FindBooking(r) => req[r].pc = "find" /\ req'[r].pc \in {"save", "reply"}
         /\ SaveBooking(r) => req[r].pc = "save" /\ req'[r].pc \in {"sendLoan", "publish"}
         /\ SendLoan(r) => req[r].pc = "sendLoan" /\ req'[r].pc = "loan"
         /\ LoanAnswered(r) => req[r].pc = "loan" /\ req'[r].pc \in {"publish", "reply"}
         /\ Publish(r) => req[r].pc = "publish" /\ req'[r].pc = "reply"
         /\ Finish(r) => req[r].pc = "reply" /\ req'[r].pc = "idle"
         /\ MongoFails(r) => req'[r].pc = "reply"
<1>1. req \in [Requests -> Request]
  BY DEF Inv, TypeOK
<1>2. \A out : Reply(r, out) => req'[r].pc = "reply"
  BY <1>1 DEF Reply, IdleRequest
<1>3. \A pc : Go(r, pc) => req'[r].pc = pc
  BY <1>1 DEF Go
<1>4. ArriveCreate(r) => req'[r].pc = "getItem"
  BY <1>1 DEF ArriveCreate, IdleRequest
<1>5. ArriveChange(r) => req'[r].pc = "find"
  BY <1>1 DEF ArriveChange, IdleRequest
<1>6. ItemReceived(r) => req[r].pc = "getItem" /\ req'[r].pc \in {"insert", "reply"}
  <2>1. ASSUME NEW o, req' = [req EXCEPT ![r].pc = "insert", ![r].owner = o] PROVE req'[r].pc = "insert"
    BY <1>1, <2>1
  <2>2. ItemReceived(r) => \/ \E out : Reply(r, out)
                           \/ \E o : req' = [req EXCEPT ![r].pc = "insert", ![r].owner = o]
    BY ZenonT(30) DEF ItemReceived
  <2>3. ItemReceived(r) => req[r].pc = "getItem"
    BY DEF ItemReceived
  <2> QED
    BY <1>2, <2>1, <2>2, <2>3
<1>7. CreateBooking(r) => req[r].pc = "insert" /\ req'[r].pc = "publish"
  BY <1>1 DEF CreateBooking
<1>8. FindBooking(r) => req[r].pc = "find" /\ req'[r].pc \in {"save", "reply"}
  <2>1. ASSUME NEW i, req' = [req EXCEPT ![r].pc = "save", ![r].user = None, ![r].item = i]
        PROVE  req'[r].pc = "save"
    BY <1>1, <2>1
  <2>2. FindBooking(r) =>
          \/ \E out : Reply(r, out)
          \/ \E i : req' = [req EXCEPT ![r].pc = "save", ![r].user = None, ![r].item = i]
    BY ZenonT(30) DEF FindBooking
  <2>3. FindBooking(r) => req[r].pc = "find"
    BY DEF FindBooking
  <2> QED
    BY <1>2, <2>1, <2>2, <2>3
<1>9. SaveBooking(r) => req[r].pc = "save" /\ req'[r].pc \in {"sendLoan", "publish"}
  BY <1>3 DEF SaveBooking, AfterSave
<1>10. SendLoan(r) => req[r].pc = "sendLoan" /\ req'[r].pc = "loan"
  BY <1>3 DEF SendLoan
<1>11. LoanAnswered(r) => req[r].pc = "loan" /\ req'[r].pc \in {"publish", "reply"}
  BY <1>2, <1>3 DEF LoanAnswered
<1>12. Publish(r) => req[r].pc = "publish" /\ req'[r].pc = "reply"
  BY <1>2 DEF Publish
<1>13. Finish(r) => req[r].pc = "reply" /\ req'[r].pc = "idle"
  BY <1>1 DEF Finish, IdleRequest
<1>14. MongoFails(r) => req'[r].pc = "reply"
  BY <1>2 DEF MongoFails
<1> QED
  BY <1>4, <1>5, <1>6, <1>7, <1>8, <1>9, <1>10, <1>11, <1>12, <1>13, <1>14

(* A request is about to save only what it has checked, and while it is    *)
(* in flight nobody else writes the booking.                               *)
LEMMA ReadyStep ==
  ASSUME TableInv, [Next]_vars, NEW s \in Requests PROVE Ready(s)'
<1>1. Inv /\ Alone /\ Ready(s) /\ req \in [Requests -> Request]
  BY DEF TableInv, Inv, TypeOK
<1>2. SUFFICES ASSUME req'[s].pc = "save"
               PROVE  CanTransition(booking'[req'[s].b].status, req'[s].op)
  BY DEF Ready
<1>3. CASE \E r \in Requests : CreateBooking(r) \/ SaveBooking(r)
  <2>1. PICK r \in Requests : CreateBooking(r) \/ SaveBooking(r)
    BY <1>3
  <2>2. /\ req[r].pc \in {"insert", "save"} /\ req'[r].pc # "save"
        /\ \A t \in Requests \ {r} : req'[t] = req[t]
    BY <1>1, <2>1, NextPc, RequestFrame DEF OfRequest, RequestStep
  <2> QED
    BY <1>1, <1>2, <2>2, OthersIdle
<1>4. CASE booking' = booking /\ req'[s] = req[s]
  BY <1>1, <1>2, <1>4 DEF Ready
<1>5. CASE booking' = booking /\ req'[s] # req[s]
  <2>1. OfRequest(s) \/ Crash
    BY <1>1, <1>5, RequestFrame, SideFrame DEF Next, OfRequest, BrokerCloses, vars, bookingVars
  <2>2. ~Crash
    BY <1>2, IdleRequestOK DEF Crash
  <2>3. FindBooking(s)
    BY <1>1, <1>2, <1>5, <2>1, <2>2, NextPc DEF OfRequest, RequestStep, DiscardOrphan, bookingVars
  <2>4. \A out : ~Reply(s, out)
    BY <1>1, <1>2 DEF Reply, IdleRequest
  <2>5. /\ CanTransition(booking[req[s].b].status, req[s].op)
        /\ req' = [req EXCEPT ![s].pc = "save", ![s].user = None, ![s].item = booking[req[s].b].itemId]
    BY <2>3, <2>4 DEF FindBooking
  <2>6. req'[s].b = req[s].b /\ req'[s].op = req[s].op
    BY <1>1, <2>5
  <2> QED
    BY <1>5, <2>5, <2>6
<1> QED
  BY <1>3, <1>4, <1>5, OnlyTwoWrites

(* The invariant of serial use, faults of any kind included. *)
LEMMA TableCorrect == ASSUME Serial PROVE Spec => []TableInv
<1>1. Init => TableInv
  BY InitInv, SlotsAssumption, IdleRequestOK DEF Init, InventoryInit, IdleHandler, TableInv, Alone,
     InFlight, Idle, Ready
<1>2. TableInv /\ [Next]_vars => TableInv'
  BY NextInv, AloneStep, ReadyStep DEF TableInv
<1> QED
  BY <1>1, <1>2, PTL DEF Spec

(* Saving is then a step along the table from the status of the moment. *)
LEMMA SaveStrict ==
  ASSUME TableInv, NEW r \in Requests, SaveBooking(r)
  PROVE  \E b \in Bookings, to \in Targets : Machine!Move(b, to)
<1>1. PICK b, to : b = req[r].b /\ to = req[r].op
  OBVIOUS
<1>2. /\ b \in Bookings /\ to \in Targets /\ booking[b] \in Booking
      /\ StatusOf(b) = booking[b].status /\ Machine!MoveTo(b, to)
  BY <1>1, SaveMoves DEF TableInv
<1>3. CanTransition(StatusOf(b), to) /\ StatusOf(b) \in Statuses
  BY <1>1, <1>2 DEF TableInv, Ready, SaveBooking, Booking
<1>4. Machine!Move(b, to)
  BY <1>2, <1>3, SameTable DEF Machine!Move, Machine!CanTransition, CanTransition
<1> QED
  BY <1>2, <1>4

(* "Any transition not listed is rejected with a 400" (README.md:837):     *)
(* booking-service keeps this promise to clients that send one request at  *)
(* a time, whatever fails meanwhile and however often it is restarted.     *)
THEOREM SerialFollowsTable == ASSUME Serial PROVE Spec => FollowsTable
<1>1. TableInv /\ [Next]_vars => [Machine!StrictNext]_(Machine!machineVars)
  <2> SUFFICES ASSUME TableInv, [Next]_vars
               PROVE  [Machine!StrictNext]_(Machine!machineVars)
    OBVIOUS
  <2>1. ASSUME NEW r \in Requests, CreateBooking(r) \/ SaveBooking(r)
        PROVE  Machine!StrictNext
    BY <2>1, SameTable, CreateRefines, SaveStrict DEF Machine!StrictNext, TableInv
  <2> QED
    BY <2>1, OnlyTwoWrites, SameBookings DEF Machine!machineVars
<1> QED
  BY <1>1, InitRefines, TableCorrect, PTL DEF Spec, FollowsTable, Machine!StrictSpec
=============================================================================
