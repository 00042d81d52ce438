----------------------------- MODULE ListCache ------------------------------
(***************************************************************************)
(* The list caches of inventory-service: inv:list:<hash of the filter>,    *)
(* inv:mine:<ownerId>, and inv:list-index, the set of list keys from which *)
(* every write deletes them.  A reader goes                                *)
(*     lookup -> query -> store -> reply                                   *)
(* and every handler that writes, once it has written to MongoDB, goes     *)
(*     scan -> delKeys -> delIndex -> reply                                *)
(* with one await at each arrow.  What a write does to its row, and to the *)
(* row's own cache entry, is the business of module Inventory: here it     *)
(* adds, changes or removes one row.  As there, a call to Redis answers,   *)
(* fails, or never settles.                                                *)
(***************************************************************************)
CONSTANTS
  Items,      \* the ids an item can get
  Users,      \* the owners: the keys of inv:mine
  Filters,    \* ?available=true, =false, or "all" for neither
  Handlers,   \* the slots: how many requests can be in flight
  Faults,     \* "redis" (a call fails or is skipped), "inventory" (a handler
              \* dies at an await)
  None

Keys == Filters \cup Users

(* available stands for isListed /\ ~isOnLoan: no key asks for more. *)
Row == [ownerId : Users, available : BOOLEAN]

(* A list, by the rows it contains (their order is left out). *)
Lists == [Items -> Row \cup {None}]

ASSUME FiltersAssumption ==
  Filters \subseteq {"all", "true", "false"} /\ Filters \cap Users = {}
ASSUME NoneAssumption ==
  None \notin Row /\ None \notin Lists /\ None \notin Keys /\ None \notin Items

VARIABLES
  item,       \* the items collection: a row or None for each id
  entry,      \* the cached list under each key, or None
  index,      \* inv:list-index
  hdl,        \* the handler in each slot
  outdated,   \* keys whose list was no longer right when it was stored
  overlapped, \* keys stored while an invalidation was past its scan
  misdirected,\* owners since whose list was stored a row of theirs was
              \* written by a request that had read another owner's row
  trouble     \* whether a call has failed or a handler died so far

history == <<outdated, overlapped, misdirected>>

vars == <<item, entry, index, hdl, outdated, overlapped, misdirected, trouble>>

Handler ==
  [pc : {"idle", "lookup", "query", "store", "insert", "write", "scan", "delKeys", "delIndex", "reply"},
   key : Keys \cup {None},    \* what is read, or whose list a write deletes
   id : Items \cup {None},
   list : Lists \cup {None},
   keys : SUBSET Filters]     \* what SMEMBERS returned

Call(pc, key, id) == [pc |-> pc, key |-> key, id |-> id, list |-> None, keys |-> {}]

IdleHandler == Call("idle", None, None)

(* The rows that Item.find returns for a key. *)
Selects(k, row) ==
  IF k \in Users THEN row.ownerId = k
  ELSE CASE k = "true"  -> row.available
         [] k = "false" -> ~row.available
         [] OTHER       -> TRUE

Result(k) ==
  [i \in Items |-> IF item[i] # None /\ Selects(k, item[i]) THEN item[i] ELSE None]

Init ==
  /\ item \in [Items -> Row \cup {None}]
  /\ entry = [k \in Keys |-> None]
  /\ index = {}
  /\ hdl = [h \in Handlers |-> IdleHandler]
  /\ outdated = {} /\ overlapped = {} /\ misdirected = {}
  /\ trouble = FALSE

-----------------------------------------------------------------------------
Go(h, pc) == hdl' = [hdl EXCEPT ![h].pc = pc]

(* The reply is ready: all the handler had read is gone. *)
Answer(h) == hdl' = [hdl EXCEPT ![h] = Call("reply", None, None)]

Begin(h, call) ==
  /\ hdl[h].pc = "idle"
  /\ hdl' = [hdl EXCEPT ![h] = call]
  /\ UNCHANGED <<item, entry, index, history, trouble>>

(* Reads; createItem, of a new id or of one in the body; and a write that  *)
(* finds its row, whose owner's list is the one it is to delete.  Writes   *)
(* that find nothing invalidate nothing and are left out.                  *)
Request(h) ==
  \/ \E k \in Keys : Begin(h, Call("lookup", k, None))
  \/ \E u \in Users, i \in Items : Begin(h, Call("insert", u, i))
  \/ \E i \in Items : item[i] # None /\ Begin(h, Call("write", item[i].ownerId, i))

(* A call to Redis is made and answered, or it is skipped or fails; then   *)
(* it may nevertheless have had its effect.                                *)
Redis(ok) ==
  /\ ok \/ "redis" \in Faults
  /\ trouble' = (trouble \/ ~ok)

(* getList, getMine *)
Lookup(h) ==
  /\ hdl[h].pc = "lookup"
  /\ \E ok \in BOOLEAN :
       /\ Redis(ok)
       /\ IF ok /\ entry[hdl[h].key] # None THEN Answer(h) ELSE Go(h, "query")
  /\ UNCHANGED <<item, entry, index, history>>

(* listItems, listMyItems *)
Query(h) ==
  /\ hdl[h].pc = "query"
  /\ hdl' = [hdl EXCEPT ![h].pc = "store", ![h].list = Result(hdl[h].key)]
  /\ UNCHANGED <<item, entry, index, history, trouble>>

Marked(marked, k, condition) == IF condition THEN marked \cup {k} ELSE marked \ {k}

Invalidating == \E g \in Handlers : hdl[g].pc \in {"delKeys", "delIndex"}

(* Mutant of Registered: the list is stored and not registered. *)
RegisteredNot(k) == index \ {k}

(* Mutant of Registered: an owner's list is registered too. *)
RegisteredAll(k) == index \cup {k}

Registered(k) == index \cup ({k} \cap Filters)

(* setList, whose MULTI stores and registers at once, and setMine *)
Store(h) ==
  /\ hdl[h].pc = "store"
  /\ \E ok \in BOOLEAN :
       /\ Redis(ok)
       /\ LET k == hdl[h].key IN
            \/ /\ entry' = [entry EXCEPT ![k] = hdl[h].list]
               /\ index' = Registered(k)
               /\ outdated' = Marked(outdated, k, hdl[h].list # Result(k))
               /\ overlapped' = Marked(overlapped, k, Invalidating)
               /\ misdirected' = misdirected \ {k}
            \/ ~ok /\ UNCHANGED <<entry, index, history>>
  /\ Answer(h)
  /\ UNCHANGED item

(* createItem; an insert under a taken id fails. *)
Insert(h) ==
  /\ hdl[h].pc = "insert"
  /\ LET i == hdl[h].id IN
       \/ item[i] # None /\ Answer(h) /\ UNCHANGED item
       \/ /\ item[i] = None
          /\ \E free \in BOOLEAN :
               item' = [item EXCEPT ![i] = [ownerId |-> hdl[h].key, available |-> free]]
          /\ Go(h, "scan")
  /\ UNCHANGED <<entry, index, history, trouble>>

(* What updateItem, setListing, setLoanStatus or deleteItem do to the row. *)
(* It may be gone since it was found: then a save fails and a delete goes  *)
(* on.  Or another user may own it by now.                                 *)
Write(h) ==
  /\ hdl[h].pc = "write"
  /\ LET i == hdl[h].id
         old == item[i]
     IN \/ /\ old = None
           /\ Answer(h) \/ Go(h, "scan")
           /\ UNCHANGED <<item, misdirected>>
        \/ /\ old # None
           /\ \/ \E free \in BOOLEAN : item' = [item EXCEPT ![i].available = free]
              \/ item' = [item EXCEPT ![i] = None]
           /\ Go(h, "scan")
           /\ misdirected' = misdirected \cup ({old.ownerId} \ {hdl[h].key})
  /\ UNCHANGED <<entry, index, outdated, overlapped, trouble>>

Without(keys) == [k \in Keys |-> IF k \in keys THEN None ELSE entry[k]]

(* Mutant of OwnList: invalidateMine is left out. *)
OwnListForgotten(h) == {hdl[h].key} \cap Filters

OwnList(h) == {hdl[h].key}

(* SMEMBERS inv:list-index and DEL inv:mine:<ownerId>, sent in one turn. *)
Scan(h) ==
  /\ hdl[h].pc = "scan"
  /\ \E scanned, dropped \in BOOLEAN :
       /\ Redis(scanned /\ dropped)
       /\ \/ entry' = Without(OwnList(h))
          \/ ~dropped /\ UNCHANGED entry
       /\ IF scanned
            THEN hdl' = [hdl EXCEPT ![h].pc = IF index = {} THEN "delIndex" ELSE "delKeys",
                                    ![h].keys = index]
            ELSE Answer(h)
  /\ UNCHANGED <<item, index, history>>

(* DEL of the keys that were scanned *)
DelKeys(h) ==
  /\ hdl[h].pc = "delKeys"
  /\ \E ok \in BOOLEAN :
       /\ Redis(ok)
       /\ \/ entry' = Without(hdl[h].keys)
          \/ ~ok /\ UNCHANGED entry
       /\ IF ok THEN Go(h, "delIndex") ELSE Answer(h)
  /\ UNCHANGED <<item, index, history>>

(* DEL inv:list-index, whatever has been added to it since *)
DelIndex(h) ==
  /\ hdl[h].pc = "delIndex"
  /\ \E ok \in BOOLEAN :
       /\ Redis(ok)
       /\ \/ index' = {}
          \/ ~ok /\ UNCHANGED index
  /\ Answer(h)
  /\ UNCHANGED <<item, entry, history>>

(* MongoDB throws or the process dies, and the caller sees an error. *)
Abort(h) ==
  /\ "inventory" \in Faults
  /\ hdl[h].pc \notin {"idle", "reply"}
  /\ Answer(h)
  /\ trouble' = TRUE
  /\ UNCHANGED <<item, entry, index, history>>

Respond(h) ==
  /\ hdl[h].pc = "reply"
  /\ hdl' = [hdl EXCEPT ![h] = IdleHandler]
  /\ UNCHANGED <<item, entry, index, history, trouble>>

(* Mutant of Expire: the entries are stored without EX. *)
ExpireNever(k) == FALSE /\ k \in Keys /\ UNCHANGED vars

(* CACHE_LIST_TTL_SECONDS; the index has no time to live. *)
Expire(k) ==
  /\ entry[k] # None
  /\ entry' = Without({k})
  /\ UNCHANGED <<item, index, hdl, history, trouble>>

CacheStep(h) == Lookup(h) \/ Store(h) \/ Scan(h) \/ DelKeys(h) \/ DelIndex(h)

StoreStep(h) == Query(h) \/ Insert(h) \/ Write(h)

HandlerStep(h) == CacheStep(h) \/ StoreStep(h) \/ Respond(h)

Next ==
  \/ \E h \in Handlers : Request(h) \/ HandlerStep(h) \/ Abort(h)
  \/ \E k \in Keys : Expire(k)

Spec == Init /\ [][Next]_vars

(* MongoDB answers, the event loop goes on and Redis expires its keys; no  *)
(* call to Redis has to settle.                                            *)
Fairness ==
  /\ \A h \in Handlers : WF_vars(StoreStep(h) \/ Respond(h))
  /\ \A k \in Keys : WF_vars(Expire(k))

FairSpec == Spec /\ Fairness

-----------------------------------------------------------------------------
(* The variables have their types. *)
TypeOK ==
  /\ item \in [Items -> Row \cup {None}]
  /\ entry \in [Keys -> Lists \cup {None}]
  /\ index \subseteq Filters
  /\ hdl \in [Handlers -> Handler]
  /\ outdated \subseteq Keys /\ overlapped \subseteq Keys /\ misdirected \subseteq Users
  /\ trouble \in BOOLEAN

(* A list that the index does not know is out of reach of every write, and *)
(* there is only one way to become so, whatever fails: the list was stored *)
(* while an invalidation that had scanned the index was still to delete    *)
(* it.                                                                     *)
UnindexedOnlyByOverlap ==
  \A k \in Filters : entry[k] # None /\ k \notin index => k \in overlapped

(* Past its scan, an invalidation has yet to delete every list in the      *)
(* index except those stored beside it.                                    *)
Reached ==
  \A h \in Handlers : \A k \in Filters :
    entry[k] # None =>
      /\ hdl[h].pc = "delKeys" => k \in hdl[h].keys \cup overlapped
      /\ hdl[h].pc = "delIndex" => k \in overlapped

(* What a handler holds at each of its awaits. *)
CallOK(c) ==
  /\ c.pc \in {"lookup", "query", "store"} => c.key \in Keys
  /\ c.pc = "store" => c.list \in Lists
  /\ c.pc \in {"insert", "write", "scan"} => c.id \in Items /\ c.key \in Users

(* The inductive invariant behind UnindexedOnlyByOverlap. *)
IndexInv ==
  /\ TypeOK
  /\ \A h \in Handlers : CallOK(hdl[h])
  /\ UnindexedOnlyByOverlap
  /\ Reached

Coherent(k) == entry[k] \in {None, Result(k)}

Covers(h, k) ==
  \/ hdl[h].pc = "scan" /\ (k \in Filters \/ k = hdl[h].key)
  \/ hdl[h].pc = "delKeys" /\ k \in hdl[h].keys

(* As long as nothing fails, a cached list differs from what MongoDB would *)
(* answer only while a write is about to delete it, or because it was      *)
(* stored late (its reader had fetched it before a write), or because an   *)
(* overlapping invalidation took it out of the index, or because its row   *)
(* was written for another owner, whose list was deleted instead: the item *)
(* had been deleted and its id posted again.                               *)
StaleIsExplained ==
  ~trouble => \A k \in Keys :
    Coherent(k) \/ (\E h \in Handlers : Covers(h, k)) \/ k \in outdated \cup overlapped \cup misdirected

(* When writing stops, the lists come to agree with MongoDB for good, also *)
(* those that no write can reach any more: their time to live runs out.    *)
Quiet == \A h \in Handlers : hdl[h].id = None

ListsConverge == <>[]Quiet => <>[](\A k \in Keys : Coherent(k))

(* "cacheService therefore registers every list key in a Redis set         *)
(* (inv:list-index) and deletes the lot on any write" (README.md:729):     *)
(* what the invalidation of a write finds is every list there is.          *)
EveryListIsFound ==
  [][\A h \in Handlers : hdl[h].pc = "scan" /\ hdl'[h].pc \in {"delKeys", "delIndex"} =>
       {k \in Filters : entry[k] # None} \subseteq hdl'[h].keys]_vars
=============================================================================
