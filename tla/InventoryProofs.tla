-------------------------- MODULE InventoryProofs ---------------------------
(***************************************************************************)
(* Proofs about Inventory, for every set of items, users, slots and faults.*)
(* Each action preserves InventoryInv; these lemmas serve Inventory alone  *)
(* and its composition with booking-service.                               *)
(***************************************************************************)
EXTENDS Inventory, TLAPS

(* A row is not None, so a variable that holds a row or None tells which. *)
LEMMA RowNotNone == None \notin Row
BY NoneAssumption DEF Row

(* A slot that is freed is in order. *)
LEMMA IdleHandlerOK == IdleHandler \in Handler /\ CallOK(IdleHandler)
BY DEF IdleHandler, Handler, CallOK, Ops, Outcomes

(* The initial states satisfy the invariant. *)
LEMMA InventoryInitInv == InventoryInit => InventoryInv
<1> SUFFICES ASSUME InventoryInit PROVE InventoryInv
  OBVIOUS
<1>1. item \in [Items -> Row \cup {None}] /\ cache \in [Items -> Row \cup {None}]
  BY DEF InventoryInit, UnlockedRow
<1>2. origin \in [Items -> [owners : SUBSET Users, lent : BOOLEAN]]
  BY <1>1 DEF InventoryInit, Row
<1>3. hdl \in [Handlers -> Handler] /\ \A h \in Handlers : hdl[h] = IdleHandler
  BY IdleHandlerOK DEF InventoryInit
<1>4. \A i \in Items : Genuine(i, item[i]) /\ Genuine(i, cache[i])
  BY <1>1 DEF InventoryInit, Genuine
<1> QED
  BY <1>1, <1>2, <1>3, <1>4, IdleHandlerOK
  DEF InventoryInv, InventoryTypeOK, Genuine, IdleHandler

(* A step changes one handler, forgets no owner of an id and keeps every   *)
(* stored and cached row of somebody who has owned its id: the invariant   *)
(* holds after it if the new handler is in order.                          *)
LEMMA StepInv ==
  ASSUME InventoryInv, NEW h \in Handlers, NEW call \in Handler, CallOK(call),
         call.op # "create" /\ call.row # None =>
           call.row.ownerId \in origin'[call.id].owners,
         call.pc = "write" /\ call.op \in {"update", "listing", "delete"} =>
           CanManage(call.row, call.actor),
         hdl' = [hdl EXCEPT ![h] = call],
         item' \in [Items -> Row \cup {None}],
         cache' \in [Items -> Row \cup {None}],
         origin' \in [Items -> [owners : SUBSET Users, lent : BOOLEAN]],
         \A i \in Items : origin[i].owners \subseteq origin'[i].owners,
         \A i \in Items : Genuine(i, item[i])' /\ Genuine(i, cache[i])'
  PROVE  InventoryInv'
<1>1. InventoryTypeOK'
  BY DEF InventoryInv, InventoryTypeOK
<1>2. hdl'[h] = call /\ \A g \in Handlers \ {h} : hdl'[g] = hdl[g]
  BY DEF InventoryInv, InventoryTypeOK
<1>3. \A g \in Handlers : CallOK(hdl'[g])
  BY <1>2 DEF InventoryInv
<1>4. \A g \in Handlers : hdl[g].row # None => hdl[g].id \in Items
  BY DEF InventoryInv, CallOK
<1>5. \A g \in Handlers : (hdl[g].op # "create" => Genuine(hdl[g].id, hdl[g].row))'
  BY <1>2, <1>4 DEF InventoryInv, Genuine
<1>6. \A g \in Handlers : hdl'[g].pc = "write" /\ hdl'[g].op \in {"update", "listing", "delete"} =>
        CanManage(hdl'[g].row, hdl'[g].actor)
  BY <1>2 DEF InventoryInv
<1> QED
  BY <1>1, <1>3, <1>5, <1>6 DEF InventoryInv, CanManage, CallOK

(* In particular when the step changes neither the rows nor the cache. *)
LEMMA OneHandler ==
  ASSUME InventoryInv, NEW h \in Handlers, NEW call \in Handler, CallOK(call),
         call.op # "create" => Genuine(call.id, call.row),
         call.pc = "write" /\ call.op \in {"update", "listing", "delete"} =>
           CanManage(call.row, call.actor),
         hdl' = [hdl EXCEPT ![h] = call],
         UNCHANGED <<item, cache, origin>>
  PROVE  InventoryInv'
<1>1. /\ item' \in [Items -> Row \cup {None}] /\ cache' \in [Items -> Row \cup {None}]
      /\ origin' \in [Items -> [owners : SUBSET Users, lent : BOOLEAN]]
  BY DEF InventoryInv, InventoryTypeOK
<1>2. \A i \in Items : Genuine(i, item[i])' /\ Genuine(i, cache[i])'
  BY DEF InventoryInv, Genuine
<1>3. call.op # "create" /\ call.row # None => call.row.ownerId \in origin'[call.id].owners
  BY DEF Genuine
<1> QED
  BY <1>1, <1>2, <1>3, StepInv

-----------------------------------------------------------------------------
(* The arrival of a request. *)

(* Every request that is let in is one that the handlers can serve. *)
LEMMA GetCallInv ==
  ASSUME InventoryInv, NEW h \in Handlers, NEW i \in Items, Begin(h, GetCall(i))
  PROVE  InventoryInv'
<1>1. /\ GetCall(i) \in Handler /\ CallOK(GetCall(i)) /\ GetCall(i).row = None
      /\ GetCall(i).op = "get" /\ GetCall(i).pc = "cacheGet"
  BY DEF GetCall, IdleHandler, Handler, CallOK, Ops, Outcomes
<1> QED
  BY <1>1, OneHandler DEF Begin, Genuine

(* A loan call arrives with its id and flag, and no actor. *)
LEMMA LoanCallInv ==
  ASSUME InventoryInv, NEW h \in Handlers, NEW i \in Items, NEW flag \in BOOLEAN,
         Begin(h, LoanCall(i, flag))
  PROVE  InventoryInv'
<1>1. /\ LoanCall(i, flag) \in Handler /\ CallOK(LoanCall(i, flag))
      /\ LoanCall(i, flag).row = None /\ LoanCall(i, flag).op = "loan"
  BY DEF LoanCall, IdleHandler, Handler, CallOK, Ops, Outcomes
<1> QED
  BY <1>1, OneHandler DEF Begin, Genuine

(* A user's write arrives with its id, its actor and what it is to write. *)
LEMMA WriteCallInv ==
  ASSUME InventoryInv, NEW h \in Handlers, NEW i \in Items, NEW u \in Users,
         NEW op \in {"update", "listing", "delete"}, NEW arg,
         \/ op = "update" /\ arg \in Data
         \/ op = "listing" /\ arg \in BOOLEAN
         \/ op = "delete" /\ arg = None,
         Begin(h, WriteCall(op, i, arg, u))
  PROVE  InventoryInv'
<1> DEFINE call == WriteCall(op, i, arg, u)
<1>1. call = [IdleHandler EXCEPT !.op = op, !.pc = "find", !.id = i, !.arg = arg, !.actor = u]
  BY DEF WriteCall
<1>2. call \in Handler
  BY <1>1 DEF IdleHandler, Handler, Ops, Outcomes
<1>3. CallOK(call) /\ call.row = None /\ call.op = op /\ call.pc = "find"
  BY <1>1 DEF IdleHandler, CallOK
<1> QED
  BY <1>2, <1>3, OneHandler DEF Begin, Genuine

(* A create arrives with a row of its caller's, under any id. *)
LEMMA CreateCallInv ==
  ASSUME InventoryInv, NEW h \in Handlers, NEW i \in Items, NEW u \in Users, NEW body \in Row,
         Begin(h, CreateCall(i, body, u))
  PROVE  InventoryInv'
<1> DEFINE call == CreateCall(i, body, u)
           row == [body EXCEPT !.ownerId = u]
<1>1. call = [IdleHandler EXCEPT !.op = "create", !.pc = "write", !.id = i, !.actor = u, !.row = row]
  BY DEF CreateCall
<1>2. row \in Row /\ row # None /\ row.ownerId = u
  BY RowNotNone DEF Row
<1> HIDE DEF row
<1>3. call \in Handler
  BY <1>1, <1>2 DEF IdleHandler, Handler, Ops, Outcomes
<1>4. CallOK(call) /\ call.op = "create"
  BY <1>1, <1>2 DEF IdleHandler, CallOK
<1> QED
  BY <1>3, <1>4, OneHandler DEF Begin

(* Every request of a user keeps the invariant. *)
LEMMA UserCallInv ==
  ASSUME InventoryInv, NEW h \in Handlers, UserCall(h) PROVE InventoryInv'
BY GetCallInv, WriteCallInv, CreateCallInv DEF UserCall

(* Every request of booking-service keeps the invariant. *)
LEMMA SystemCallInv ==
  ASSUME InventoryInv, NEW h \in Handlers, SystemCall(h) PROVE InventoryInv'
BY LoanCallInv DEF SystemCall

(* The reply is taken. *)
LEMMA RespondInv ==
  ASSUME InventoryInv, NEW h \in Handlers, Respond(h) PROVE InventoryInv'
<1>1. IdleHandler.row = None /\ IdleHandler.op = "none"
  BY DEF IdleHandler
<1> QED
  BY <1>1, IdleHandlerOK, OneHandler DEF Respond, Genuine

-----------------------------------------------------------------------------
(* A handler that has answered is in order, and so is one that is about to *)
(* delete a cache entry.                                                   *)
LEMMA AnsweredOK ==
  ASSUME InventoryInv, NEW h \in Handlers, hdl[h].pc # "idle",
         NEW out \in Outcomes, NEW row \in Row \cup {None},
         hdl[h].op = "get" /\ out = "ok" => row # None
  PROVE  LET call == Answered(hdl[h], out, row)
         IN /\ call \in Handler /\ CallOK(call)
            /\ call.op = hdl[h].op /\ call.pc = "reply"
            /\ call.id = hdl[h].id /\ call.row = row
<1>1. hdl[h] \in Handler /\ CallOK(hdl[h]) /\ hdl[h].id \in Items
  BY DEF InventoryInv, InventoryTypeOK, CallOK
<1> DEFINE call == Answered(hdl[h], out, row)
<1>2. /\ call \in Handler /\ call.op = hdl[h].op /\ call.pc = "reply"
      /\ call.id = hdl[h].id /\ call.row = row /\ call.out = out
  BY <1>1 DEF Answered, IdleHandler, Handler
<1> HIDE DEF call
<1>3. CallOK(call)
  BY <1>1, <1>2 DEF CallOK
<1> QED
  BY <1>2, <1>3 DEF call

(* What is left of a handler after its write is well formed. *)
LEMMA WrittenOK ==
  ASSUME InventoryInv, NEW h \in Handlers, hdl[h].pc # "idle",
         hdl[h].op \in {"update", "listing", "delete", "loan"}
  PROVE  LET call == Written(hdl[h])
         IN /\ call \in Handler /\ CallOK(call)
            /\ call.op = hdl[h].op /\ call.pc = "cacheDel"
            /\ call.id = hdl[h].id /\ call.row = None
<1>1. hdl[h] \in Handler /\ CallOK(hdl[h]) /\ hdl[h].id \in Items
  BY DEF InventoryInv, InventoryTypeOK, CallOK
<1> QED
  BY <1>1 DEF Written, IdleHandler, Handler, CallOK, Outcomes

-----------------------------------------------------------------------------
(* The handlers' steps, one lemma each.  In all of them the handler h is   *)
(* at work on an id, and a reply it gives is of its own operation.         *)

(* What the invariant says of one handler, in the form the steps use. *)
LEMMA HandlerFacts ==
  ASSUME InventoryInv, NEW h \in Handlers, hdl[h].pc # "idle"
  PROVE  /\ hdl[h] \in Handler /\ CallOK(hdl[h]) /\ hdl[h].id \in Items
         /\ item[hdl[h].id] \in Row \cup {None} /\ cache[hdl[h].id] \in Row \cup {None}
         /\ hdl[h].op # "create" => Genuine(hdl[h].id, hdl[h].row)
         /\ Genuine(hdl[h].id, cache[hdl[h].id]) /\ Genuine(hdl[h].id, item[hdl[h].id])
BY DEF InventoryInv, InventoryTypeOK, CallOK

(* Reading, with a reply of what was read or of nothing. *)
LEMMA AnswerInv ==
  ASSUME InventoryInv, NEW h \in Handlers, hdl[h].pc # "idle", NEW out \in Outcomes,
         NEW row \in Row \cup {None}, Genuine(hdl[h].id, row),
         hdl[h].op = "get" /\ out = "ok" => row # None,
         Answer(h, out, row), UNCHANGED <<item, cache, origin>>
  PROVE  InventoryInv'
<1> DEFINE call == Answered(hdl[h], out, row)
<1>1. /\ call \in Handler /\ CallOK(call) /\ call.op = hdl[h].op /\ call.pc = "reply"
      /\ call.id = hdl[h].id /\ call.row = row
  BY AnsweredOK
<1>2. hdl' = [hdl EXCEPT ![h] = call]
  BY DEF Answer
<1> HIDE DEF call
<1> QED
  BY <1>1, <1>2, HandlerFacts, OneHandler

(* A hit answers with a row of the right owner, a miss reads on. *)
LEMMA CacheGetInv ==
  ASSUME InventoryInv, NEW h \in Handlers, CacheGet(h) PROVE InventoryInv'
<1> DEFINE i == hdl[h].id
<1>1. /\ hdl[h].op = "get" /\ hdl[h].pc = "cacheGet" /\ UNCHANGED <<item, cache, origin>>
      /\ \/ cache[i] # None /\ Answer(h, "ok", cache[i])
         \/ hdl' = [hdl EXCEPT ![h].pc = "dbGet"]
  BY DEF CacheGet, At
<1>2. CASE cache[i] # None /\ Answer(h, "ok", cache[i])
  BY <1>1, <1>2, HandlerFacts, AnswerInv DEF Outcomes
<1>3. CASE hdl' = [hdl EXCEPT ![h].pc = "dbGet"]
  <2> DEFINE call == [hdl[h] EXCEPT !.pc = "dbGet"]
  <2>1. hdl' = [hdl EXCEPT ![h] = call]
    BY <1>3
  <2>2. /\ call \in Handler /\ CallOK(call) /\ call.op = "get" /\ call.pc = "dbGet"
        /\ call.id = hdl[h].id /\ call.row = hdl[h].row
    BY <1>1, HandlerFacts DEF Handler, CallOK
  <2> HIDE DEF call
  <2> QED
    BY <1>1, <2>1, <2>2, HandlerFacts, OneHandler
<1> QED
  BY <1>1, <1>2, <1>3

(* A reader holds the stored row. *)
LEMMA DbGetInv ==
  ASSUME InventoryInv, NEW h \in Handlers, DbGet(h) PROVE InventoryInv'
<1> DEFINE row == item[hdl[h].id]
<1>1. /\ hdl[h].op = "get" /\ hdl[h].pc = "dbGet" /\ UNCHANGED <<item, cache, origin>>
      /\ \/ row = None /\ Answer(h, "notFound", None)
         \/ row # None /\ hdl' = [hdl EXCEPT ![h].pc = "cacheSet", ![h].row = row]
  BY DEF DbGet, At
<1>2. CASE row = None /\ Answer(h, "notFound", None)
  BY <1>1, <1>2, AnswerInv DEF Outcomes, Genuine
<1>3. CASE row # None /\ hdl' = [hdl EXCEPT ![h].pc = "cacheSet", ![h].row = row]
  <2> DEFINE call == [hdl[h] EXCEPT !.pc = "cacheSet", !.row = row]
  <2>1. hdl' = [hdl EXCEPT ![h] = call]
    BY <1>3, HandlerFacts, <1>1 DEF InventoryInv, InventoryTypeOK
  <2>2. /\ call \in Handler /\ CallOK(call) /\ call.op = "get" /\ call.pc = "cacheSet"
        /\ call.id = hdl[h].id /\ call.row = row
    BY <1>1, <1>3, HandlerFacts DEF Handler, CallOK
  <2> HIDE DEF call
  <2> QED
    BY <1>1, <2>1, <2>2, HandlerFacts, OneHandler
<1> QED
  BY <1>1, <1>2, <1>3

(* A writer goes on only with a row that its actor may manage. *)
LEMMA FindInv ==
  ASSUME InventoryInv, NEW h \in Handlers, Find(h) PROVE InventoryInv'
<1> DEFINE row == item[hdl[h].id]
<1>1. /\ hdl[h].pc = "find" /\ UNCHANGED <<item, cache, origin>>
      /\ \/ \E out \in {"notFound", "forbidden"} : Answer(h, out, None)
         \/ /\ row # None /\ CanManage(row, hdl[h].actor)
            /\ hdl' = [hdl EXCEPT ![h].pc = "write", ![h].row = row]
  BY DEF Find
<1>2. hdl[h].op \in {"update", "listing", "delete"}
  BY <1>1, HandlerFacts DEF CallOK
<1>3. CASE \E out \in {"notFound", "forbidden"} : Answer(h, out, None)
  BY <1>1, <1>2, <1>3, AnswerInv DEF Outcomes, Genuine
<1>4. CASE /\ row # None /\ CanManage(row, hdl[h].actor)
           /\ hdl' = [hdl EXCEPT ![h].pc = "write", ![h].row = row]
  <2> DEFINE call == [hdl[h] EXCEPT !.pc = "write", !.row = row]
  <2>1. hdl' = [hdl EXCEPT ![h] = call]
    BY <1>4, HandlerFacts, <1>1 DEF InventoryInv, InventoryTypeOK
  <2>2. /\ call \in Handler /\ CallOK(call) /\ call.op = hdl[h].op /\ call.pc = "write"
        /\ call.id = hdl[h].id /\ call.row = row /\ call.actor = hdl[h].actor
    BY <1>1, <1>2, <1>4, HandlerFacts DEF Handler, CallOK
  <2> HIDE DEF call
  <2> QED
    BY <1>1, <1>2, <1>4, <2>1, <2>2, HandlerFacts, OneHandler
<1> QED
  BY <1>1, <1>3, <1>4

(* A handler that dies keeps nothing. *)
LEMMA AbortInv ==
  ASSUME InventoryInv, NEW h \in Handlers, Abort(h) PROVE InventoryInv'
BY AnswerInv DEF Abort, Outcomes, Genuine

(* Writing to the cache. *)
LEMMA CacheSetInv ==
  ASSUME InventoryInv, NEW h \in Handlers, CacheSet(h) PROVE InventoryInv'
<1> DEFINE call == Answered(hdl[h], "ok", hdl[h].row)
<1>1. /\ hdl[h].op = "get" /\ hdl[h].pc = "cacheSet" /\ UNCHANGED <<item, origin>>
      /\ hdl' = [hdl EXCEPT ![h] = call]
      /\ cache' = [cache EXCEPT ![hdl[h].id] = hdl[h].row] \/ cache' = cache
  BY DEF CacheSet, At, Answer
<1>2. hdl[h].row \in Row
  BY <1>1, HandlerFacts DEF Handler, CallOK
<1>3. /\ call \in Handler /\ CallOK(call) /\ call.op = "get" /\ call.pc = "reply"
      /\ call.id = hdl[h].id /\ call.row = hdl[h].row
  BY <1>1, <1>2, RowNotNone, AnsweredOK DEF Outcomes
<1> HIDE DEF call
<1>4. cache' \in [Items -> Row \cup {None}] /\ item' = item /\ origin' = origin
  BY <1>1, <1>2 DEF InventoryInv, InventoryTypeOK
<1>5. Genuine(hdl[h].id, hdl[h].row)
  BY <1>1, HandlerFacts
<1>6. \A i \in Items : Genuine(i, item[i])' /\ Genuine(i, cache[i])'
  BY <1>1, <1>4, <1>5 DEF InventoryInv, InventoryTypeOK, Genuine
<1>7. call.row # None => call.row.ownerId \in origin'[call.id].owners
  BY <1>3, <1>4, <1>5 DEF Genuine
<1>8. /\ item' \in [Items -> Row \cup {None}]
      /\ origin' \in [Items -> [owners : SUBSET Users, lent : BOOLEAN]]
  BY <1>4 DEF InventoryInv, InventoryTypeOK
<1> QED
  BY <1>1, <1>3, <1>4, <1>6, <1>7, <1>8, StepInv

(* Deleting an entry makes no row disagree about its owner. *)
LEMMA CacheDelInv ==
  ASSUME InventoryInv, NEW h \in Handlers, CacheDel(h) PROVE InventoryInv'
<1> DEFINE call == Answered(hdl[h], "ok", None)
<1>1. /\ hdl[h].pc = "cacheDel" /\ UNCHANGED <<item, origin>>
      /\ hdl' = [hdl EXCEPT ![h] = call]
      /\ cache' = [cache EXCEPT ![hdl[h].id] = None] \/ cache' = cache
  BY DEF CacheDel, Answer
<1>2. hdl[h].op \in {"update", "listing", "delete", "loan"}
  BY <1>1, HandlerFacts DEF CallOK
<1>3. /\ call \in Handler /\ CallOK(call) /\ call.op = hdl[h].op /\ call.pc = "reply"
      /\ call.id = hdl[h].id /\ call.row = None
  BY <1>1, <1>2, AnsweredOK DEF Outcomes
<1> HIDE DEF call
<1>4. cache' \in [Items -> Row \cup {None}] /\ item' = item /\ origin' = origin
  BY <1>1 DEF InventoryInv, InventoryTypeOK
<1>5. \A i \in Items : Genuine(i, item[i])' /\ Genuine(i, cache[i])'
  BY <1>1, <1>4 DEF InventoryInv, InventoryTypeOK, Genuine
<1>6. /\ item' \in [Items -> Row \cup {None}]
      /\ origin' \in [Items -> [owners : SUBSET Users, lent : BOOLEAN]]
  BY <1>4 DEF InventoryInv, InventoryTypeOK
<1> QED
  BY <1>1, <1>2, <1>3, <1>4, <1>5, <1>6, StepInv

(* So does the expiry of an entry. *)
LEMMA ExpireInv ==
  ASSUME InventoryInv, NEW i \in Items, Expire(i) PROVE InventoryInv'
BY DEF InventoryInv, InventoryTypeOK, Expire, Genuine, At, CanManage, CallOK

(* Writing to MongoDB. *)
(* The row of one id is replaced by one whose owner has owned the id, or   *)
(* removed; the handler goes on with no row.                               *)
LEMMA RowWrittenInv ==
  ASSUME InventoryInv, NEW h \in Handlers, hdl[h].pc = "write",
         NEW call \in Handler, CallOK(call), call.row = None, call.pc # "write",
         NEW row \in Row \cup {None}, NEW new \in [owners : SUBSET Users, lent : BOOLEAN],
         origin[hdl[h].id].owners \subseteq new.owners,
         row # None => row.ownerId \in new.owners,
         item' = [item EXCEPT ![hdl[h].id] = row],
         origin' = [origin EXCEPT ![hdl[h].id] = new],
         hdl' = [hdl EXCEPT ![h] = call], UNCHANGED cache
  PROVE  InventoryInv'
<1> DEFINE id == hdl[h].id
<1>1. id \in Items
  BY HandlerFacts
<1>2. /\ item' \in [Items -> Row \cup {None}] /\ cache' \in [Items -> Row \cup {None}]
      /\ origin' \in [Items -> [owners : SUBSET Users, lent : BOOLEAN]]
  BY <1>1 DEF InventoryInv, InventoryTypeOK
<1>3. /\ \A i \in Items : origin[i].owners \subseteq origin'[i].owners
      /\ \A i \in Items \ {id} : item'[i] = item[i] /\ origin'[i] = origin[i]
      /\ item'[id] = row /\ origin'[id] = new
  BY <1>1 DEF InventoryInv, InventoryTypeOK
<1>4. \A i \in Items : Genuine(i, item[i])' /\ Genuine(i, cache[i])'
  BY <1>3 DEF InventoryInv, Genuine
<1> QED
  BY <1>2, <1>3, <1>4, StepInv

(* An insert adds its caller to the owners of the id, and fails if the id  *)
(* has a row.                                                              *)
LEMMA CreateItemInv ==
  ASSUME InventoryInv, NEW h \in Handlers, CreateItem(h) PROVE InventoryInv'
<1> DEFINE id == hdl[h].id
           row == hdl[h].row
           new == [owners |-> origin[id].owners \cup {row.ownerId}, lent |-> row.isOnLoan]
<1>1. /\ hdl[h].op = "create" /\ hdl[h].pc = "write" /\ UNCHANGED cache
      /\ \/ Answer(h, "error", None) /\ UNCHANGED <<item, origin>>
         \/ /\ item' = [item EXCEPT ![id] = row] /\ origin' = [origin EXCEPT ![id] = new]
            /\ Answer(h, "ok", None)
  BY DEF CreateItem, At
<1>2. CASE Answer(h, "error", None) /\ UNCHANGED <<item, origin>>
  BY <1>1, <1>2, AnswerInv DEF Outcomes, Genuine
<1>3. CASE /\ item' = [item EXCEPT ![id] = row] /\ origin' = [origin EXCEPT ![id] = new]
           /\ Answer(h, "ok", None)
  <2> DEFINE call == Answered(hdl[h], "ok", None)
  <2>1. /\ call \in Handler /\ CallOK(call) /\ call.pc = "reply" /\ call.row = None
        /\ hdl' = [hdl EXCEPT ![h] = call]
    BY <1>1, <1>3, AnsweredOK DEF Outcomes, Answer
  <2> HIDE DEF call
  <2>2. id \in Items /\ row \in Row
    BY <1>1, HandlerFacts DEF Handler, CallOK
  <2>3. new \in [owners : SUBSET Users, lent : BOOLEAN]
    BY <2>2 DEF InventoryInv, InventoryTypeOK, Row
  <2>4. origin[id].owners \subseteq new.owners /\ row.ownerId \in new.owners
    OBVIOUS
  <2> HIDE DEF row, new
  <2> QED
    BY <1>1, <1>3, <2>1, <2>2, <2>3, <2>4, RowWrittenInv
<1> QED
  BY <1>1, <1>2, <1>3

(* A stored row gives way to one of the same owner, or to none, and the    *)
(* handler goes on to the cache.                                           *)
LEMMA RowChangedInv ==
  ASSUME InventoryInv, NEW h \in Handlers, hdl[h].pc = "write",
         hdl[h].op \in {"update", "listing", "delete", "loan"},
         NEW row \in Row \cup {None},
         row # None => item[hdl[h].id] # None /\ row.ownerId = item[hdl[h].id].ownerId,
         item' = [item EXCEPT ![hdl[h].id] = row],
         origin' = origin \/ origin' = [origin EXCEPT ![hdl[h].id].lent = FALSE],
         Invalidate(h), UNCHANGED cache
  PROVE  InventoryInv'
<1> DEFINE call == Written(hdl[h])
           id == hdl[h].id
           new == origin'[id]
<1>1. hdl' = [hdl EXCEPT ![h] = call]
  BY DEF Invalidate
<1>2. /\ call \in Handler /\ CallOK(call) /\ call.pc = "cacheDel" /\ call.row = None
  BY WrittenOK
<1> HIDE DEF call
<1>3. id \in Items /\ Genuine(id, item[id])
  BY HandlerFacts
<1>4. /\ origin \in [Items -> [owners : SUBSET Users, lent : BOOLEAN]]
      /\ origin[id] \in [owners : SUBSET Users, lent : BOOLEAN]
  BY <1>3 DEF InventoryInv, InventoryTypeOK
<1>5. new = origin[id] \/ new = [origin[id] EXCEPT !.lent = FALSE]
  BY <1>3, <1>4
<1>6. new \in [owners : SUBSET Users, lent : BOOLEAN] /\ new.owners = origin[id].owners
  BY <1>4, <1>5
<1>7. origin' = [origin EXCEPT ![id] = new]
  BY <1>3, <1>4
<1>8. row # None => row.ownerId \in new.owners
  BY <1>3, <1>6 DEF Genuine
<1> HIDE DEF new
<1> QED
  BY <1>1, <1>2, <1>6, <1>7, <1>8, RowWrittenInv

(* What save() leaves in the database is a row of the same owner. *)
LEMMA SavedRow ==
  ASSUME NEW stored \in Row, NEW call \in Handler, CallOK(call), call.pc = "write",
         call.op \in {"update", "listing"}
  PROVE  /\ Saved(stored, call) \in Row /\ Saved(stored, call).ownerId = stored.ownerId
         /\ Saved(stored, call).isOnLoan = stored.isOnLoan
         /\ Saved(stored, call).isListed # stored.isListed =>
               call.op = "listing" /\ Saved(stored, call).isListed = call.arg
BY DEF Saved, Row, CallOK

(* A save changes neither the owner of a row nor whether there is one. *)
LEMMA SaveItemInv ==
  ASSUME InventoryInv, NEW h \in Handlers, SaveItem(h) PROVE InventoryInv'
<1> DEFINE id == hdl[h].id
<1>1. /\ hdl[h].pc = "write" /\ hdl[h].op \in {"update", "listing"} /\ UNCHANGED <<cache, origin>>
      /\ \/ item' = item /\ Answer(h, "error", None)
         \/ /\ item[id] # None /\ item' = [item EXCEPT ![id] = Saved(item[id], hdl[h])]
            /\ Invalidate(h)
  BY DEF SaveItem
<1>2. CASE item' = item /\ Answer(h, "error", None)
  BY <1>1, <1>2, AnswerInv DEF Outcomes, Genuine
<1>3. CASE /\ item[id] # None /\ item' = [item EXCEPT ![id] = Saved(item[id], hdl[h])]
           /\ Invalidate(h)
  <2>1. item[id] \in Row
    BY <1>1, <1>3, HandlerFacts
  <2>2. Saved(item[id], hdl[h]) \in Row /\ Saved(item[id], hdl[h]).ownerId = item[id].ownerId
    BY <1>1, <2>1, HandlerFacts, SavedRow
  <2> QED
    BY <1>1, <1>3, <2>2, RowChangedInv
<1> QED
  BY <1>1, <1>2, <1>3

(* A delete takes the row and forgets no owner. *)
LEMMA DeleteItemInv ==
  ASSUME InventoryInv, NEW h \in Handlers, DeleteItem(h) PROVE InventoryInv'
BY RowChangedInv DEF DeleteItem, At

(* A loan call changes one flag of a stored row. *)
LEMMA SetLoanStatusInv ==
  ASSUME InventoryInv, NEW h \in Handlers, SetLoanStatus(h) PROVE InventoryInv'
<1> DEFINE id == hdl[h].id
<1>1. /\ hdl[h].pc = "write" /\ hdl[h].op = "loan" /\ UNCHANGED cache
      /\ \/ UNCHANGED <<item, origin>> /\ Answer(h, "notFound", None)
         \/ /\ item[id] # None /\ item' = [item EXCEPT ![id].isOnLoan = hdl[h].arg]
            /\ origin' = [origin EXCEPT ![id].lent = FALSE]
            /\ Invalidate(h)
  BY DEF SetLoanStatus, At
<1>2. CASE UNCHANGED <<item, origin>> /\ Answer(h, "notFound", None)
  BY <1>1, <1>2, AnswerInv DEF Outcomes, Genuine
<1>3. CASE /\ item[id] # None /\ item' = [item EXCEPT ![id].isOnLoan = hdl[h].arg]
           /\ origin' = [origin EXCEPT ![id].lent = FALSE]
           /\ Invalidate(h)
  <2> DEFINE row == [item[id] EXCEPT !.isOnLoan = hdl[h].arg]
  <2>1. item[id] \in Row /\ hdl[h].arg \in BOOLEAN /\ id \in Items
    BY <1>1, <1>3, HandlerFacts DEF CallOK
  <2>2. row \in Row /\ row.ownerId = item[id].ownerId
    BY <2>1 DEF Row
  <2>3. item' = [item EXCEPT ![id] = row]
    BY <1>3, <2>1 DEF InventoryInv, InventoryTypeOK
  <2> HIDE DEF row
  <2> QED
    BY <1>1, <1>3, <2>2, <2>3, RowChangedInv
<1> QED
  BY <1>1, <1>2, <1>3

(* Every step of a handler. *)
LEMMA HandlerStepInv ==
  ASSUME InventoryInv, NEW h \in Handlers, HandlerStep(h) PROVE InventoryInv'
BY CacheGetInv, DbGetInv, CacheSetInv, CreateItemInv, FindInv, SaveItemInv, DeleteItemInv,
   SetLoanStatusInv, CacheDelInv
   DEF HandlerStep, CacheStep, StoreStep

(* A step that changes nothing keeps the invariant. *)
LEMMA StutterInv == InventoryInv /\ UNCHANGED inventoryVars => InventoryInv'
BY DEF InventoryInv, InventoryTypeOK, inventoryVars, Genuine, At, CanManage, CallOK

(* Every step keeps the invariant. *)
LEMMA InventoryNextInv == InventoryInv /\ [InventoryNext]_inventoryVars => InventoryInv'
<1> SUFFICES ASSUME InventoryInv, [InventoryNext]_inventoryVars PROVE InventoryInv'
  OBVIOUS
<1>1. CASE UNCHANGED inventoryVars
  BY <1>1, StutterInv
<1>2. CASE InventoryNext
  BY <1>2, UserCallInv, SystemCallInv, HandlerStepInv, AbortInv, RespondInv, ExpireInv
  DEF InventoryNext
<1> QED
  BY <1>1, <1>2

(* The invariant holds, and so does the type invariant the runs check. *)
THEOREM InventoryCorrect == InventorySpec => []InventoryInv
BY InventoryInitInv, InventoryNextInv, PTL DEF InventorySpec

(* Every variable of inventory-service keeps its type. *)
THEOREM InventoryTypes == InventorySpec => []InventoryTypeOK
<1>1. InventoryInv => InventoryTypeOK
  BY DEF InventoryInv
<1> QED
  BY <1>1, InventoryCorrect, PTL

-----------------------------------------------------------------------------
(* What the writes may do. *)

(* What one write does to the rows. *)
Write(h, row) ==
  /\ hdl[h].pc = "write" /\ hdl[h].op \in {"create", "update", "listing", "delete", "loan"}
  /\ item' = [item EXCEPT ![hdl[h].id] = row]

(* Only the four writes touch the items or what is remembered of them;     *)
(* each writes one row, and says what it may differ in from the row that   *)
(* was there.                                                              *)
LEMMA Writes ==
  ASSUME InventoryInv, NEW h \in Handlers, HandlerStep(h), item' # item \/ origin' # origin
  PROVE  \E row \in Row \cup {None} :
           LET old == item[hdl[h].id] IN
           /\ Write(h, row)
           /\ \A i \in Items \ {hdl[h].id} : origin'[i] = origin[i]
           /\ hdl[h].op = "create" =>
                /\ old = None /\ row # None /\ row = hdl[h].row
                /\ origin'[hdl[h].id].lent = row.isOnLoan
           /\ hdl[h].op \in {"update", "listing", "delete"} => origin' = origin
           /\ hdl[h].op = "delete" => old # None /\ row = None
           /\ hdl[h].op = "update" =>
                /\ old # None /\ row # None /\ row.ownerId = old.ownerId
                /\ row.isOnLoan = old.isOnLoan /\ row.isListed = old.isListed
           /\ hdl[h].op = "listing" =>
                /\ old # None /\ row # None /\ row.ownerId = old.ownerId
                /\ row.isOnLoan = old.isOnLoan
                /\ row.isListed = old.isListed \/ row.isListed = hdl[h].arg
           /\ hdl[h].op = "loan" =>
                old # None /\ row = [old EXCEPT !.isOnLoan = hdl[h].arg]
<1> DEFINE id == hdl[h].id
           old == item[id]
<1>1. CreateItem(h) \/ SaveItem(h) \/ DeleteItem(h) \/ SetLoanStatus(h)
  BY DEF HandlerStep, CacheStep, StoreStep, CacheGet, DbGet, CacheSet, Find, CacheDel
<1>2. hdl[h].pc = "write"
  BY <1>1 DEF CreateItem, SaveItem, DeleteItem, SetLoanStatus, At
<1>3. /\ hdl[h] \in Handler /\ CallOK(hdl[h]) /\ id \in Items /\ old \in Row \cup {None}
      /\ item \in [Items -> Row \cup {None}]
      /\ origin \in [Items -> [owners : SUBSET Users, lent : BOOLEAN]]
  BY <1>2, HandlerFacts DEF InventoryInv, InventoryTypeOK
<1>4. CASE CreateItem(h)
  <2> DEFINE new == hdl[h].row
  <2>1. /\ hdl[h].op = "create" /\ old = None /\ item' = [item EXCEPT ![id] = new]
        /\ origin' = [origin EXCEPT ![id] = [owners |-> origin[id].owners \cup {new.ownerId},
                                             lent |-> new.isOnLoan]]
    BY <1>4 DEF CreateItem, At
  <2>2. new \in Row
    BY <1>2, <1>3, <2>1 DEF CallOK, Handler
  <2>3. /\ \A i \in Items \ {id} : origin'[i] = origin[i]
        /\ origin'[id].lent = new.isOnLoan
    BY <1>3, <2>1
  <2>4. Write(h, new)
    BY <1>2, <2>1 DEF Write
  <2> QED
    BY <2>1, <2>2, <2>3, <2>4, RowNotNone
<1>5. CASE SaveItem(h)
  <2> DEFINE new == Saved(old, hdl[h])
  <2>1. /\ hdl[h].op \in {"update", "listing"} /\ old # None
        /\ item' = [item EXCEPT ![id] = new] /\ origin' = origin
    BY <1>5 DEF SaveItem
  <2>2. /\ new \in Row /\ new.ownerId = old.ownerId /\ new.isOnLoan = old.isOnLoan
        /\ new.isListed # old.isListed => hdl[h].op = "listing" /\ new.isListed = hdl[h].arg
    BY <1>2, <1>3, <2>1, SavedRow
  <2>3. Write(h, new)
    BY <1>2, <2>1 DEF Write
  <2> HIDE DEF new
  <2> QED
    BY <2>1, <2>2, <2>3, RowNotNone
<1>6. CASE DeleteItem(h)
  <2>1. /\ hdl[h].op = "delete" /\ item' = [item EXCEPT ![id] = None] /\ Write(h, None)
        /\ origin' = origin
    BY <1>2, <1>6 DEF DeleteItem, At, Write
  <2>2. old # None
    BY <1>3, <2>1
  <2> QED
    BY <2>1, <2>2
<1>7. CASE SetLoanStatus(h)
  <2> DEFINE new == [old EXCEPT !.isOnLoan = hdl[h].arg]
  <2>1. /\ hdl[h].op = "loan" /\ old # None /\ item' = [item EXCEPT ![id].isOnLoan = hdl[h].arg]
        /\ origin' = [origin EXCEPT ![id].lent = FALSE]
    BY <1>7 DEF SetLoanStatus, At
  <2>2. new \in Row
    BY <1>2, <1>3, <2>1 DEF CallOK, Row
  <2>3. Write(h, new) /\ \A i \in Items \ {id} : origin'[i] = origin[i]
    BY <1>2, <1>3, <2>1 DEF Write
  <2> QED
    BY <2>1, <2>2, <2>3
<1> QED
  BY <1>1, <1>4, <1>5, <1>6, <1>7

(* Whoever steps, the rows change by a handler's write or not at all. *)
LEMMA OnlyHandlersWrite ==
  ASSUME InventoryInv, [InventoryNext]_inventoryVars, item' # item \/ origin' # origin
  PROVE  \E h \in Handlers : HandlerStep(h)
BY DEF InventoryNext, inventoryVars, UserCall, SystemCall, Begin, Abort, Respond, Expire

(* A row appears only as the one that a create was sent with. *)
LEMMA RevivedStep ==
  ASSUME InventoryInv, [InventoryNext]_inventoryVars, NEW i \in Items,
         item[i] = None, item'[i] # None
  PROVE  \E h \in Handlers : /\ Pending(h, {"create"}, i)
                             /\ item'[i] = hdl[h].row
                             /\ item'[i].ownerId = hdl[h].actor
<1>1. PICK h \in Handlers : HandlerStep(h)
  BY OnlyHandlersWrite
<1>2. PICK row \in Row \cup {None} :
         LET old == item[hdl[h].id] IN
         /\ Write(h, row)
         /\ hdl[h].op = "create" => row = hdl[h].row
         /\ hdl[h].op # "create" => old # None
  BY <1>1, Writes DEF Write
<1>3. hdl[h].id = i /\ item'[i] = row
  BY <1>2 DEF Write, InventoryInv, InventoryTypeOK
<1>4. hdl[h].op = "create" /\ hdl[h].pc = "write" /\ row = hdl[h].row
  BY <1>2, <1>3 DEF Write
<1>5. row.ownerId = hdl[h].actor
  BY <1>4 DEF InventoryInv, CallOK
<1> QED
  BY <1>3, <1>4, <1>5 DEF Pending

(* No owner of an id is forgotten. *)
LEMMA OwnersKept ==
  ASSUME InventoryInv, [InventoryNext]_inventoryVars, NEW i \in Items
  PROVE  origin[i].owners \subseteq origin'[i].owners
<1>1. CASE origin' = origin
  BY <1>1
<1>2. CASE origin' # origin
  <2>1. PICK h \in Handlers : CreateItem(h) \/ SetLoanStatus(h)
    BY <1>2, OnlyHandlersWrite
    DEF HandlerStep, CacheStep, StoreStep, CacheGet, DbGet, CacheSet, CacheDel, Find, SaveItem,
        DeleteItem
  <2>2. origin \in [Items -> [owners : SUBSET Users, lent : BOOLEAN]]
    BY DEF InventoryInv, InventoryTypeOK
  <2>3. CASE CreateItem(h)
    BY <1>2, <2>2, <2>3 DEF CreateItem
  <2>4. CASE SetLoanStatus(h)
    BY <1>2, <2>2, <2>4 DEF SetLoanStatus
  <2> QED
    BY <2>1, <2>3, <2>4
<1> QED
  BY <1>1, <1>2

(* A handler stays at its operation and its id until it is answered; no    *)
(* handler comes to the write of a loan call but by its request.           *)
LEMMA HandlerKeepsCall ==
  ASSUME InventoryInv, NEW h \in Handlers, HandlerStep(h) \/ Abort(h)
  PROVE  /\ \A g \in Handlers \ {h} : hdl'[g] = hdl[g]
         /\ hdl'[h].op = hdl[h].op /\ hdl'[h].id = hdl[h].id
         /\ ~(hdl'[h].op = "loan" /\ hdl'[h].pc = "write")
<1>1. hdl \in [Handlers -> Handler] /\ hdl[h] \in Handler /\ CallOK(hdl[h])
  BY DEF InventoryInv, InventoryTypeOK
<1>2. \/ \E out, row : Answer(h, out, row)
      \/ Invalidate(h)
      \/ hdl[h].op = "get" /\ hdl' = [hdl EXCEPT ![h].pc = "dbGet"]
      \/ \E row : hdl[h].op = "get" /\ hdl' = [hdl EXCEPT ![h].pc = "cacheSet", ![h].row = row]
      \/ \E row : hdl[h].pc = "find" /\ hdl' = [hdl EXCEPT ![h].pc = "write", ![h].row = row]
  BY DEF HandlerStep, CacheStep, StoreStep, Abort, At, CacheGet, DbGet, CacheSet, CreateItem, Find, SaveItem,
         DeleteItem, SetLoanStatus, CacheDel
<1>3. ASSUME NEW out, NEW row, Answer(h, out, row)
      PROVE  /\ \A g \in Handlers \ {h} : hdl'[g] = hdl[g]
             /\ hdl'[h].op = hdl[h].op /\ hdl'[h].id = hdl[h].id /\ hdl'[h].pc # "write"
  BY <1>1, <1>3 DEF Answer, Answered, IdleHandler
<1>4. ASSUME Invalidate(h)
      PROVE  /\ \A g \in Handlers \ {h} : hdl'[g] = hdl[g]
             /\ hdl'[h].op = hdl[h].op /\ hdl'[h].id = hdl[h].id /\ hdl'[h].pc # "write"
  BY <1>1, <1>4 DEF Invalidate, Written, IdleHandler
<1>5. ASSUME hdl[h].op = "get", hdl' = [hdl EXCEPT ![h].pc = "dbGet"]
      PROVE  /\ \A g \in Handlers \ {h} : hdl'[g] = hdl[g]
             /\ hdl'[h].op = hdl[h].op /\ hdl'[h].id = hdl[h].id
  BY <1>1, <1>5 DEF Handler
<1>6. ASSUME NEW row, hdl[h].op = "get", hdl' = [hdl EXCEPT ![h].pc = "cacheSet", ![h].row = row]
      PROVE  /\ \A g \in Handlers \ {h} : hdl'[g] = hdl[g]
             /\ hdl'[h].op = hdl[h].op /\ hdl'[h].id = hdl[h].id
  BY <1>1, <1>6 DEF Handler
<1>7. ASSUME NEW row, hdl[h].pc = "find", hdl' = [hdl EXCEPT ![h].pc = "write", ![h].row = row]
      PROVE  /\ \A g \in Handlers \ {h} : hdl'[g] = hdl[g]
             /\ hdl'[h].op = hdl[h].op /\ hdl'[h].id = hdl[h].id /\ hdl'[h].op # "loan"
  BY <1>1, <1>7 DEF Handler, CallOK
<1> QED
  BY <1>2, <1>3, <1>4, <1>5, <1>6, <1>7

(* The listing toggle and the loan lock do not overwrite each other. *)
LEMMA FlagsStep ==
  ASSUME InventoryInv, [InventoryNext]_inventoryVars, NEW i \in Items,
         item[i] # None, item'[i] # None
  PROVE  /\ item'[i].isOnLoan # item[i].isOnLoan =>
              \E h \in Handlers : Pending(h, {"loan"}, i) /\ hdl[h].arg = item'[i].isOnLoan
         /\ item'[i].isListed # item[i].isListed =>
              \E h \in Handlers : Pending(h, {"listing"}, i) /\ hdl[h].arg = item'[i].isListed
<1>1. CASE item' = item
  BY <1>1
<1>2. CASE item' # item
  <2>1. PICK h \in Handlers : HandlerStep(h)
    BY <1>2, OnlyHandlersWrite
  <2>2. PICK row \in Row \cup {None} :
           LET old == item[hdl[h].id] IN
           /\ Write(h, row)
           /\ hdl[h].op = "create" => old = None
           /\ hdl[h].op = "delete" => row = None
           /\ hdl[h].op = "update" => row.isOnLoan = old.isOnLoan /\ row.isListed = old.isListed
           /\ hdl[h].op = "listing" =>
                /\ row.isOnLoan = old.isOnLoan
                /\ row.isListed = old.isListed \/ row.isListed = hdl[h].arg
           /\ hdl[h].op = "loan" => old # None /\ row = [old EXCEPT !.isOnLoan = hdl[h].arg]
    BY <1>2, <2>1, Writes
  <2>3. CASE hdl[h].id # i
    BY <2>2, <2>3 DEF Write, InventoryInv, InventoryTypeOK
  <2>4. CASE hdl[h].id = i
    <3>1. item'[i] = row /\ hdl[h].pc = "write"
      BY <2>2, <2>4 DEF Write, InventoryInv, InventoryTypeOK
    <3>2. hdl[h].op \in {"update", "listing", "loan"}
      BY <2>2, <2>4, <3>1 DEF Write
    <3>3. item[i] \in Row
      BY DEF InventoryInv, InventoryTypeOK
    <3>4. hdl[h].op = "loan" =>
            item'[i].isOnLoan = hdl[h].arg /\ item'[i].isListed = item[i].isListed
      BY <2>2, <2>4, <3>1, <3>3 DEF Row
    <3> QED
      BY <2>2, <2>4, <3>1, <3>2, <3>4 DEF Pending
  <2> QED
    BY <2>3, <2>4
<1> QED
  BY <1>1, <1>2

(* No save, loan call or stale copy revives a deleted item (inventory-     *)
(* Service.js:72-138): only a POST that carries its id does, and makes it  *)
(* its caller's, for any number of overlapping requests and faults.        *)
THEOREM RevivedByCreate == InventorySpec => OnlyCreateRevives
<1>1. InventoryInv /\ [InventoryNext]_inventoryVars =>
        [\A i \in Items : item[i] = None /\ item'[i] # None =>
           \E h \in Handlers : /\ Pending(h, {"create"}, i)
                               /\ item'[i] = hdl[h].row
                               /\ item'[i].ownerId = hdl[h].actor]_inventoryVars
  BY RevivedStep
<1> QED
  BY <1>1, InventoryCorrect, PTL DEF InventorySpec, OnlyCreateRevives

(* The owner's toggle and the system's lock never overwrite each other,    *)
(* for any number of overlapping requests and faults.                      *)
THEOREM FlagsAreIndependent == InventorySpec => FlagsIndependent
<1>1. InventoryInv /\ [InventoryNext]_inventoryVars =>
        [\A i \in Items : item[i] # None /\ item'[i] # None =>
           /\ item'[i].isOnLoan # item[i].isOnLoan =>
                \E h \in Handlers : Pending(h, {"loan"}, i) /\ hdl[h].arg = item'[i].isOnLoan
           /\ item'[i].isListed # item[i].isListed =>
                \E h \in Handlers : Pending(h, {"listing"}, i) /\ hdl[h].arg = item'[i].isListed
        ]_inventoryVars
  BY FlagsStep
<1> QED
  BY <1>1, InventoryCorrect, PTL DEF InventorySpec, FlagsIndependent

(* The check was made on a row that was stored under the id. *)
LEMMA ManagersStep ==
  ASSUME InventoryInv, [InventoryNext]_inventoryVars, NEW i \in Items,
         item[i] # None, OwnerPart(item'[i]) # OwnerPart(item[i])
  PROVE  \E h \in Handlers : /\ Pending(h, {"update", "listing", "delete"}, i)
                             /\ hdl[h].actor \in Staff \cup origin[i].owners
<1>1. PICK h \in Handlers : HandlerStep(h)
  BY OnlyHandlersWrite
<1>2. PICK row \in Row \cup {None} :
         LET old == item[hdl[h].id] IN
         /\ Write(h, row)
         /\ hdl[h].op = "create" => old = None
         /\ hdl[h].op = "loan" => old # None /\ row = [old EXCEPT !.isOnLoan = hdl[h].arg]
  BY <1>1, Writes
<1>3. /\ hdl[h].id = i /\ hdl[h].pc = "write" /\ item'[i] = row
      /\ item[i] \in Row
  BY <1>2 DEF Write, InventoryInv, InventoryTypeOK
<1>4. hdl[h].op # "loan"
  <2> SUFFICES ASSUME hdl[h].op = "loan" PROVE OwnerPart(item'[i]) = OwnerPart(item[i])
    OBVIOUS
  <2>1. item'[i] = [item[i] EXCEPT !.isOnLoan = hdl[h].arg] /\ hdl[h].arg \in BOOLEAN
    BY <1>2, <1>3, HandlerFacts DEF CallOK
  <2>2. item'[i] \in Row
    BY <1>3, <2>1 DEF Row
  <2> QED
    BY <1>3, <2>1, <2>2, RowNotNone DEF OwnerPart, Row
<1>5. hdl[h].op \in {"update", "listing", "delete"}
  BY <1>2, <1>3, <1>4 DEF Write
<1>6. hdl[h].row # None /\ Genuine(i, hdl[h].row) /\ CanManage(hdl[h].row, hdl[h].actor)
  BY <1>3, <1>5 DEF InventoryInv, CallOK
<1>7. hdl[h].actor \in Staff \cup origin[i].owners
  BY <1>6 DEF Genuine, CanManage
<1> QED
  BY <1>3, <1>5, <1>7 DEF Pending

(* Nobody but staff and those who have owned an item of that id changes    *)
(* what is the owner's of it, although assertCanManage is one await before *)
(* the write and the id may have been deleted and posted again between.    *)
THEOREM ManagersOnly == InventorySpec => OnlyManagersWrite
<1>1. InventoryInv /\ [InventoryNext]_inventoryVars =>
        [\A i \in Items : item[i] # None /\ OwnerPart(item'[i]) # OwnerPart(item[i]) =>
           \E h \in Handlers :
             /\ Pending(h, {"update", "listing", "delete"}, i)
             /\ hdl[h].actor \in Staff \cup origin[i].owners]_inventoryVars
  BY ManagersStep
<1> QED
  BY <1>1, InventoryCorrect, PTL DEF InventorySpec, OnlyManagersWrite

(* A write that changes a row leaves its handler about to delete the       *)
(* entry; only a new row has none, and no entry before it.                 *)
LEMMA WriteInvalidates ==
  ASSUME InventoryInv, NEW h \in Handlers, HandlerStep(h), NEW i \in Items,
         item'[i] # item[i]
  PROVE  (hdl'[h].pc = "cacheDel" /\ hdl'[h].id = i) \/ (item[i] = None /\ cache' = cache)
<1>1. CreateItem(h) \/ SaveItem(h) \/ DeleteItem(h) \/ SetLoanStatus(h)
  BY DEF HandlerStep, CacheStep, StoreStep, CacheGet, DbGet, CacheSet, Find, CacheDel
<1>2. hdl[h].pc = "write"
  BY <1>1 DEF CreateItem, SaveItem, DeleteItem, SetLoanStatus, At
<1>3. /\ CallOK(hdl[h]) /\ hdl[h].id \in Items /\ hdl \in [Handlers -> Handler]
      /\ item \in [Items -> Row \cup {None}]
  BY <1>2, HandlerFacts DEF InventoryInv, InventoryTypeOK
<1>4. CASE CreateItem(h)
  BY <1>3, <1>4 DEF CreateItem, At, InventoryInv
<1>5. CASE Invalidate(h) /\ hdl[h].id = i
  <2>1. hdl'[h] = Written(hdl[h])
    BY <1>3, <1>5 DEF Invalidate
  <2> QED
    BY <1>5, <2>1 DEF Written, IdleHandler
<1>6. CASE SaveItem(h)
  <2>1. Invalidate(h) /\ \A j \in Items \ {hdl[h].id} : item'[j] = item[j]
    BY <1>3, <1>6 DEF SaveItem
  <2> QED
    BY <1>5, <2>1
<1>7. CASE DeleteItem(h)
  BY <1>3, <1>5, <1>7 DEF DeleteItem
<1>8. CASE SetLoanStatus(h)
  BY <1>3, <1>5, <1>8 DEF SetLoanStatus
<1> QED
  BY <1>1, <1>4, <1>6, <1>7, <1>8

(* What a step puts into the cache is what a reader holds. *)
LEMMA CacheChanges ==
  ASSUME InventoryInv, [InventoryNext]_inventoryVars, NEW i \in Items,
         cache'[i] # cache[i], cache'[i] # None
  PROVE  \E h \in Handlers : /\ At(h, "get", "cacheSet") /\ hdl[h].id = i
                             /\ cache'[i] = hdl[h].row /\ item' = item
<1>1. cache \in [Items -> Row \cup {None}]
  BY DEF InventoryInv, InventoryTypeOK
<1>2. \A j \in Items : ~Expire(j)
  BY <1>1 DEF Expire
<1>3. PICK h \in Handlers : CacheSet(h) \/ CacheDel(h)
  <2>1. PICK h \in Handlers :
          UserCall(h) \/ SystemCall(h) \/ HandlerStep(h) \/ Abort(h) \/ Respond(h)
    BY <1>2 DEF InventoryNext, inventoryVars
  <2>2. UserCall(h) \/ SystemCall(h) => cache' = cache
    BY DEF UserCall, SystemCall, Begin
  <2>3. Abort(h) \/ Respond(h) => cache' = cache
    BY DEF Abort, Respond
  <2>4. HandlerStep(h)
    BY <2>1, <2>2, <2>3
  <2>5. CacheSet(h) \/ CacheDel(h)
    BY <2>4 DEF HandlerStep, CacheStep, StoreStep, CacheGet, DbGet, CreateItem, Find, SaveItem,
         DeleteItem, SetLoanStatus
  <2> QED
    BY <2>5
<1>4. hdl[h].id \in Items
  BY <1>3, HandlerFacts DEF CacheSet, CacheDel, At
<1>5. ~CacheDel(h)
  BY <1>1, <1>4 DEF CacheDel
<1> QED
  BY <1>1, <1>3, <1>4, <1>5 DEF CacheSet

(* A step that makes an entry stale is one of the two races. *)
LEMMA StaleStep ==
  ASSUME InventoryInv, [InventoryNext]_inventoryVars, NEW i \in Items,
         Coherent(i), ~Coherent(i)'
  PROVE  \/ \E h \in Handlers : hdl'[h].pc = "cacheDel" /\ hdl'[h].id = i
         \/ \E h \in Handlers : /\ At(h, "get", "cacheSet") /\ hdl[h].id = i
                                /\ hdl[h].row # item[i]
<1>1. /\ cache'[i] # None /\ cache'[i] # item'[i]
      /\ cache[i] = None \/ cache[i] = item[i]
  BY DEF Coherent
<1>2. CASE cache'[i] # cache[i]
  BY <1>1, <1>2, CacheChanges
<1>3. CASE cache'[i] = cache[i]
  <2>1. item'[i] # item[i]
    BY <1>1, <1>3
  <2>2. PICK h \in Handlers : HandlerStep(h)
    BY <2>1, OnlyHandlersWrite
  <2> QED
    BY <1>1, <1>3, <2>1, <2>2, WriteInvalidates
<1> QED
  BY <1>2, <1>3

(* An entry goes stale between a write and its invalidation, or by a       *)
(* reader that stores late (inventoryService.js:37), and in no other way.  *)
THEOREM StalenessIsRacy == InventorySpec => StaleOnlyByRace
<1>1. InventoryInv /\ [InventoryNext]_inventoryVars =>
        [\A i \in Items : Coherent(i) /\ ~Coherent(i)' =>
           \/ \E h \in Handlers : hdl'[h].pc = "cacheDel" /\ hdl'[h].id = i
           \/ \E h \in Handlers : /\ At(h, "get", "cacheSet") /\ hdl[h].id = i
                                  /\ hdl[h].row # item[i]]_inventoryVars
  BY StaleStep
<1> QED
  BY <1>1, InventoryCorrect, PTL DEF InventorySpec, StaleOnlyByRace
=============================================================================
