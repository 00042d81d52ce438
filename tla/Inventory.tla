----------------------------- MODULE Inventory ------------------------------
(***************************************************************************)
(* inventory-service: the items collection in MongoDB, the single-item     *)
(* cache inv:item:<id> in Redis, and the request handlers of Node's event  *)
(* loop, each of which gives way to the others at every await.             *)
(*                                                                         *)
(* A handler occupies a slot h.  Its program counter pc names the await it *)
(* is suspended at (the operation it has sent and whose effect is the next *)
(* step):                                                                  *)
(*   get      cacheGet -> dbGet -> cacheSet -> reply                       *)
(*   create                             write -> reply                     *)
(*   update, listing, delete    find -> write -> cacheDel -> reply         *)
(*   loan                               write -> cacheDel -> reply         *)
(* A call to Redis answers, or fails ("redis" in Faults), or never settles *)
(* at all: while the client reconnects it queues its commands (test.md,    *)
(* section 7.1), so nothing makes the steps of CacheStep happen.           *)
(* The list caches have a module of their own, ListCache.                  *)
(***************************************************************************)
CONSTANTS
  Items,      \* the ids an item can get
  Users,      \* the callers, as the gateway identifies them
  Staff,      \* those with role ADMIN or RESOURCE_MANAGER
  Data,       \* values of the descriptive fields (name, category, ...)
  Handlers,   \* the slots: how many requests can be in flight
  None,       \* no row, no cache entry, no value
  Faults      \* what may go wrong: "redis" (a Redis call fails or is
              \* skipped), "inventory" (a handler dies at an await)

ASSUME StaffAssumption == Staff \subseteq Users
ASSUME NoneAssumption ==
  /\ None \notin Items /\ None \notin Users
  /\ None \notin Data /\ None \notin BOOLEAN
  /\ None \notin [ownerId : Users, data : Data, isListed : BOOLEAN, isOnLoan : BOOLEAN]

VARIABLES
  item,       \* the items collection: a row or None for each id
  cache,      \* inv:item:<id>: the row that was stored there, or None
  hdl,        \* the handler in each slot
  origin      \* history: who has owned a row under the id, and whether its
              \* row was created on loan and has had no loan call since

inventoryVars == <<item, cache, hdl, origin>>

Row == [ownerId : Users, data : Data, isListed : BOOLEAN, isOnLoan : BOOLEAN]

Ops == {"none", "get", "create", "update", "listing", "delete", "loan"}

Outcomes == {"none", "ok", "notFound", "forbidden", "error"}

Handler ==
  [op : Ops,
   pc : {"idle", "cacheGet", "dbGet", "cacheSet", "find", "write", "cacheDel", "reply"},
   id : Items \cup {None},
   arg : BOOLEAN \cup Data \cup {None},  \* the flag or the fields to write
   actor : Users \cup {None},
   row : Row \cup {None},                \* the row it has read, or is to insert
   out : Outcomes]                       \* its reply

IdleHandler ==
  [op |-> "none", pc |-> "idle", id |-> None, arg |-> None,
   actor |-> None, row |-> None, out |-> "none"]

Idle(h) == hdl[h].pc = "idle"

At(h, op, pc) == hdl[h].op = op /\ hdl[h].pc = pc

(* The rows that are there at the start: none of them is on loan. *)
UnlockedRow == {row \in Row : ~row.isOnLoan}

InventoryInit ==
  /\ item \in [Items -> UnlockedRow \cup {None}]
  /\ cache = [i \in Items |-> None]
  /\ hdl = [h \in Handlers |-> IdleHandler]
  /\ origin = [i \in Items |->
       [owners |-> IF item[i] = None THEN {} ELSE {item[i].ownerId}, lent |-> FALSE]]

-----------------------------------------------------------------------------
(* Requests reach a free slot.  Every id can be asked for, also one that   *)
(* no row has.                                                             *)

Begin(h, call) ==
  /\ Idle(h)
  /\ hdl' = [hdl EXCEPT ![h] = call]
  /\ UNCHANGED <<item, cache, origin>>

(* Anybody may read any item: getItemById does not look at the caller. *)
GetCall(i) == [IdleHandler EXCEPT !.op = "get", !.pc = "cacheGet", !.id = i]

(* Write commands of a user; the fields of an update never include the two *)
(* flags (validateUpdateItem's whitelist).                                 *)
WriteCall(op, i, arg, user) ==
  [IdleHandler EXCEPT !.op = op, !.pc = "find", !.id = i, !.arg = arg, !.actor = user]

(* setLoanStatus has no actor: it is authenticated by the shared secret. *)
LoanCall(i, flag) ==
  [IdleHandler EXCEPT !.op = "loan", !.pc = "write", !.id = i, !.arg = flag]

(* Mutant of CreateCall: the caller's id does not reach Item.create. *)
CreateCallAnonymous(i, body, user) ==
  [IdleHandler EXCEPT !.op = "create", !.pc = "write", !.id = i, !.actor = user,
                      !.row = [body EXCEPT !.ownerId = None]]

(* Item.create({ ...req.body, ownerId }): only ownerId is not the client's *)
(* to choose.  No validator removes the flags or the _id from the body, so *)
(* they are what the body says, and the schema's defaults or a new id when *)
(* it says nothing.                                                        *)
CreateCall(i, body, user) ==
  [IdleHandler EXCEPT !.op = "create", !.pc = "write", !.id = i, !.actor = user,
                      !.row = [body EXCEPT !.ownerId = user]]

UserCall(h) ==
  \E u \in Users, i \in Items :
    \/ Begin(h, GetCall(i))
    \/ \E d \in Data : Begin(h, WriteCall("update", i, d, u))
    \/ \E flag \in BOOLEAN : Begin(h, WriteCall("listing", i, flag, u))
    \/ Begin(h, WriteCall("delete", i, None, u))
    \/ \E body \in Row : Begin(h, CreateCall(i, body, u))

SystemCall(h) ==
  \E i \in Items, flag \in BOOLEAN : Begin(h, LoanCall(i, flag))

-----------------------------------------------------------------------------
(* The reply is ready: only what the caller can see of it is kept. *)
Answered(call, out, row) ==
  [IdleHandler EXCEPT !.op = call.op, !.pc = "reply", !.id = call.id, !.row = row, !.out = out]

Answer(h, out, row) == hdl' = [hdl EXCEPT ![h] = Answered(hdl[h], out, row)]

(* The write is acknowledged and the caches are to be invalidated. *)
Written(call) == [IdleHandler EXCEPT !.op = call.op, !.pc = "cacheDel", !.id = call.id]

Invalidate(h) == hdl' = [hdl EXCEPT ![h] = Written(hdl[h])]

(* A hit is the reply; a miss, or any trouble with Redis, goes to MongoDB. *)
CacheGet(h) ==
  /\ At(h, "get", "cacheGet")
  /\ LET i == hdl[h].id IN
       \/ cache[i] # None /\ Answer(h, "ok", cache[i])
       \/ /\ cache[i] = None \/ "redis" \in Faults
          /\ hdl' = [hdl EXCEPT ![h].pc = "dbGet"]
  /\ UNCHANGED <<item, cache, origin>>

(* Mutant of DbGet: no reply when there is no row. *)
DbGetHangs(h) ==
  /\ At(h, "get", "dbGet")
  /\ item[hdl[h].id] # None
  /\ hdl' = [hdl EXCEPT ![h].pc = "cacheSet", ![h].row = item[hdl[h].id]]
  /\ UNCHANGED <<item, cache, origin>>

DbGet(h) ==
  /\ At(h, "get", "dbGet")
  /\ LET row == item[hdl[h].id] IN
       \/ row = None /\ Answer(h, "notFound", None)
       \/ row # None /\ hdl' = [hdl EXCEPT ![h].pc = "cacheSet", ![h].row = row]
  /\ UNCHANGED <<item, cache, origin>>

CacheSet(h) ==
  /\ At(h, "get", "cacheSet")
  /\ \/ cache' = [cache EXCEPT ![hdl[h].id] = hdl[h].row]
     \/ "redis" \in Faults /\ UNCHANGED cache
  /\ Answer(h, "ok", hdl[h].row)
  /\ UNCHANGED <<item, origin>>

(* One insert, which fails if the id is taken (E11000).  The caches it     *)
(* invalidates are the lists: an entry that a deleted row of the same id   *)
(* has left behind stays.                                                  *)
CreateItem(h) ==
  /\ At(h, "create", "write")
  /\ LET i == hdl[h].id
         row == hdl[h].row
     IN \/ /\ item[i] # None
           /\ Answer(h, "error", None)
           /\ UNCHANGED <<item, origin>>
        \/ /\ item[i] = None
           /\ item' = [item EXCEPT ![i] = row]
           /\ origin' = [origin EXCEPT ![i] = [owners |-> @.owners \cup {row.ownerId},
                                               lent |-> row.isOnLoan]]
           /\ Answer(h, "ok", None)
  /\ UNCHANGED cache

(* assertCanManage *)
CanManage(row, actor) == row.ownerId = actor \/ actor \in Staff

(* Mutant of Find: assertCanManage is left out. *)
FindUnchecked(h) ==
  /\ hdl[h].pc = "find"
  /\ LET row == item[hdl[h].id] IN
       \/ row = None /\ Answer(h, "notFound", None)
       \/ row # None /\ hdl' = [hdl EXCEPT ![h].pc = "write", ![h].row = row]
  /\ UNCHANGED <<item, cache, origin>>

(* updateItem, setListing and deleteItem read the row from MongoDB, never  *)
(* from the cache, and check the actor against what they read.             *)
Find(h) ==
  /\ hdl[h].pc = "find"
  /\ LET row == item[hdl[h].id] IN
       \/ row = None /\ Answer(h, "notFound", None)
       \/ row # None /\ ~CanManage(row, hdl[h].actor) /\ Answer(h, "forbidden", None)
       \/ /\ row # None /\ CanManage(row, hdl[h].actor)
          /\ hdl' = [hdl EXCEPT ![h].pc = "write", ![h].row = row]
  /\ UNCHANGED <<item, cache, origin>>

(* Mutant of Saved: the whole document is written back as it was read. *)
SavedWhole(stored, call) ==
  IF call.op = "update" THEN [call.row EXCEPT !.data = call.arg]
                        ELSE [call.row EXCEPT !.isListed = call.arg]

(* document.save() sends the fields that differ from what was read, and    *)
(* fails if the document is gone.  stored is the row as it is now.         *)
Saved(stored, call) ==
  CASE call.op = "update"  /\ call.row.data # call.arg     -> [stored EXCEPT !.data = call.arg]
    [] call.op = "listing" /\ call.row.isListed # call.arg -> [stored EXCEPT !.isListed = call.arg]
    [] OTHER                                               -> stored

(* Mutant of SaveItem: a save inserts the document if it is gone. *)
SaveItemUpserts(h) ==
  /\ hdl[h].pc = "write" /\ hdl[h].op \in {"update", "listing"}
  /\ item' = [item EXCEPT ![hdl[h].id] = Saved(hdl[h].row, hdl[h])]
  /\ Invalidate(h)
  /\ UNCHANGED <<cache, origin>>

SaveItem(h) ==
  /\ hdl[h].pc = "write" /\ hdl[h].op \in {"update", "listing"}
  /\ LET i == hdl[h].id IN
       \/ /\ item[i] = None
          /\ Answer(h, "error", None)
          /\ UNCHANGED item
       \/ /\ item[i] # None
          /\ item' = [item EXCEPT ![i] = Saved(item[i], hdl[h])]
          /\ Invalidate(h)
  /\ UNCHANGED <<cache, origin>>

(* document.deleteOne(): no error if another request was first. *)
DeleteItem(h) ==
  /\ At(h, "delete", "write")
  /\ item' = [item EXCEPT ![hdl[h].id] = None]
  /\ Invalidate(h)
  /\ UNCHANGED <<cache, origin>>

(* Mutant of SetLoanStatus: the caches are not invalidated. *)
SetLoanForgetsCache(h) ==
  /\ At(h, "loan", "write")
  /\ LET i == hdl[h].id IN
       \/ item[i] = None /\ Answer(h, "notFound", None) /\ UNCHANGED item
       \/ item[i] # None /\ Answer(h, "ok", None) /\ item' = [item EXCEPT ![i].isOnLoan = hdl[h].arg]
  /\ UNCHANGED <<cache, origin>>

(* findByIdAndUpdate: read and write in one operation of MongoDB. *)
SetLoanStatus(h) ==
  /\ At(h, "loan", "write")
  /\ LET i == hdl[h].id IN
       \/ /\ item[i] = None
          /\ Answer(h, "notFound", None)
          /\ UNCHANGED <<item, origin>>
       \/ /\ item[i] # None
          /\ item' = [item EXCEPT ![i].isOnLoan = hdl[h].arg]
          /\ origin' = [origin EXCEPT ![i].lent = FALSE]
          /\ Invalidate(h)
  /\ UNCHANGED cache

CacheDel(h) ==
  /\ hdl[h].pc = "cacheDel"
  /\ \/ cache' = [cache EXCEPT ![hdl[h].id] = None]
     \/ "redis" \in Faults /\ UNCHANGED cache
  /\ Answer(h, "ok", None)
  /\ UNCHANGED <<item, origin>>

(* The handler ends at an await without doing what comes after it: the     *)
(* MongoDB call throws or the process dies.  Its caller sees an error.     *)
Abort(h) ==
  /\ "inventory" \in Faults
  /\ hdl[h].pc \notin {"idle", "reply"}
  /\ Answer(h, "error", None)
  /\ UNCHANGED <<item, cache, origin>>

CacheStep(h) == CacheGet(h) \/ CacheSet(h) \/ CacheDel(h)

StoreStep(h) ==
  \/ DbGet(h) \/ CreateItem(h) \/ Find(h) \/ SaveItem(h) \/ DeleteItem(h) \/ SetLoanStatus(h)

HandlerStep(h) == CacheStep(h) \/ StoreStep(h)

(* The caller takes the reply and the slot is free. *)
Respond(h) ==
  /\ hdl[h].pc = "reply"
  /\ hdl' = [hdl EXCEPT ![h] = IdleHandler]
  /\ UNCHANGED <<item, cache, origin>>

(* Mutant of Expire: the entries are stored without EX. *)
ExpireNever(i) == FALSE /\ i \in Items /\ UNCHANGED inventoryVars

(* A cache entry reaches its time to live (CACHE_ITEM_TTL_SECONDS). *)
Expire(i) ==
  /\ cache[i] # None
  /\ cache' = [cache EXCEPT ![i] = None]
  /\ UNCHANGED <<item, hdl, origin>>

InventoryNext ==
  \/ \E h \in Handlers :
       UserCall(h) \/ SystemCall(h) \/ HandlerStep(h) \/ Abort(h) \/ Respond(h)
  \/ \E i \in Items : Expire(i)

InventorySpec == InventoryInit /\ [][InventoryNext]_inventoryVars

(* MongoDB answers every call, Node resumes its handler and Redis expires  *)
(* its keys; nobody has to send a request, nothing has to fail and no call *)
(* to Redis has to settle.                                                 *)
InventoryFairness ==
  /\ \A h \in Handlers : WF_inventoryVars(StoreStep(h) \/ Respond(h))
  /\ \A i \in Items : WF_inventoryVars(Expire(i))

FairInventorySpec == InventorySpec /\ InventoryFairness

-----------------------------------------------------------------------------
(* The variables have their types, and the two ways to be without a row    *)
(* agree: a handler that has read holds the row it read.                   *)
InventoryTypeOK ==
  /\ item \in [Items -> Row \cup {None}]
  /\ cache \in [Items -> Row \cup {None}]
  /\ hdl \in [Handlers -> Handler]
  /\ origin \in [Items -> [owners : SUBSET Users, lent : BOOLEAN]]

(* What a handler holds at each of its awaits. *)
CallOK(c) ==
  /\ IF c.pc = "idle" THEN c.row = None ELSE c.id \in Items
  /\ c.pc \in {"cacheGet", "dbGet", "cacheSet"} => c.op = "get"
  /\ c.pc = "find" => c.op \in {"update", "listing", "delete"}
  /\ c.pc \in {"find", "write"} =>
       /\ c.op = "update" => c.arg \in Data
       /\ c.op \in {"listing", "loan"} => c.arg \in BOOLEAN
       /\ c.op \in {"update", "listing", "delete", "create"} => c.actor \in Users
       /\ c.op \in {"create", "loan"} => c.pc = "write"
  /\ c.pc = "cacheSet" => c.row # None
  /\ c.pc = "write" /\ c.op \in {"update", "listing", "delete", "create"} => c.row # None
  /\ c.pc = "write" /\ c.op = "create" => c.row.ownerId = c.actor
  /\ c.pc = "write" => c.op \notin {"none", "get"}
  /\ c.pc = "cacheDel" => c.op \in {"update", "listing", "delete", "loan"}
  /\ c.op = "get" /\ c.pc = "reply" /\ c.out = "ok" => c.row # None

(* A row kept under id i, however old, has an owner that a row stored      *)
(* under i has had.                                                        *)
Genuine(i, row) == row # None => row.ownerId \in origin[i].owners

(* The inductive invariant: every copy of a row is of one that was stored  *)
(* under its id, so a check made on a copy was made on a row of that id.   *)
(* It need not be the row that is there now: an item can be deleted and    *)
(* its id posted again by another user.                                    *)
InventoryInv ==
  /\ InventoryTypeOK
  /\ \A h \in Handlers : CallOK(hdl[h])
  /\ \A i \in Items : Genuine(i, item[i]) /\ Genuine(i, cache[i])
  /\ \A h \in Handlers : hdl[h].op # "create" => Genuine(hdl[h].id, hdl[h].row)
  /\ \A h \in Handlers : hdl[h].pc = "write" /\ hdl[h].op \in {"update", "listing", "delete"} =>
       CanManage(hdl[h].row, hdl[h].actor)

Pending(h, ops, i) == hdl[h].pc = "write" /\ hdl[h].op \in ops /\ hdl[h].id = i

(* A deleted item comes back only by a POST that carries its id: whatever  *)
(* the requests that had read it before still write, a save on a deleted   *)
(* document fails and a loan call finds nothing.  The row is then the one  *)
(* that was posted, and belongs to who posted it.                          *)
OnlyCreateRevives ==
  [][\A i \in Items : item[i] = None /\ item'[i] # None =>
       \E h \in Handlers : /\ Pending(h, {"create"}, i)
                           /\ item'[i] = hdl[h].row
                           /\ item'[i].ownerId = hdl[h].actor]_inventoryVars

(* The README's "must never overwrite each other": the owner's listing     *)
(* toggle and the system's loan lock each change only through their own    *)
(* request, even when a toggle or an update read the row before the other  *)
(* flag changed and saves it afterwards.                                   *)
FlagsIndependent ==
  [][\A i \in Items : item[i] # None /\ item'[i] # None =>
       /\ item'[i].isOnLoan # item[i].isOnLoan =>
            \E h \in Handlers : Pending(h, {"loan"}, i) /\ hdl[h].arg = item'[i].isOnLoan
       /\ item'[i].isListed # item[i].isListed =>
            \E h \in Handlers : Pending(h, {"listing"}, i) /\ hdl[h].arg = item'[i].isListed
    ]_inventoryVars

(* Only staff, or somebody who has owned an item of that id, take an item  *)
(* down, replace it or change what its owner controls, although the check  *)
(* and the write are two steps apart.  That is the owner alone as long as  *)
(* nobody posts a deleted item's id again.                                 *)
OwnerPart(row) == IF row = None THEN None ELSE [row EXCEPT !.isOnLoan = FALSE]

OnlyManagersWrite ==
  [][\A i \in Items : item[i] # None /\ OwnerPart(item'[i]) # OwnerPart(item[i]) =>
       \E h \in Handlers :
         /\ Pending(h, {"update", "listing", "delete"}, i)
         /\ hdl[h].actor \in Staff \cup origin[i].owners]_inventoryVars

(* The cache entry is what MongoDB holds. *)
Coherent(i) == cache[i] \in {None, item[i]}

(* An entry goes stale in two ways only, whatever faults there are: a      *)
(* write has changed the row and its handler is about to delete the entry, *)
(* or a reader that fetched the row before a write stores it after.  No    *)
(* write forgets the entry, and no reader stores a row that never was.     *)
StaleOnlyByRace ==
  [][\A i \in Items : Coherent(i) /\ ~Coherent(i)' =>
       \/ \E h \in Handlers : hdl'[h].pc = "cacheDel" /\ hdl'[h].id = i
       \/ \E h \in Handlers : /\ At(h, "get", "cacheSet") /\ hdl[h].id = i
                              /\ hdl[h].row # item[i]]_inventoryVars

(* One request at a time leaves no stale entry behind. *)
CoherentWhenQuiet == (\A h \in Handlers : Idle(h)) => \A i \in Items : Coherent(i)

(* No call to Redis hangs for good. *)
RedisAnswers ==
  \A h \in Handlers : []<>(hdl[h].pc \notin {"cacheGet", "cacheSet", "cacheDel"})

(* Every request is answered, unless a call it makes to Redis never        *)
(* settles: a Redis call that fails holds nobody up.                       *)
EveryCallAnswered ==
  RedisAnswers => \A h \in Handlers : (hdl[h].pc # "idle") ~> (hdl[h].pc = "reply")

(* When writing stops, the cache comes to agree with MongoDB for good:     *)
(* the time to live bounds every staleness, also what Redis faults leave.  *)
Quiet == \A h \in Handlers : hdl[h].op \in {"none", "get"}

Converges == <>[]Quiet => <>[](\A i \in Items : Coherent(i))
=============================================================================
