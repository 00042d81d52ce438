--------------------------- MODULE ListCacheProofs --------------------------
(***************************************************************************)
(* Proofs about ListCache: for any items, owners, filters, faults, and any *)
(* number of requests in flight.                                           *)
(***************************************************************************)
EXTENDS ListCache, TLAPS

(* What follows from the types for the step of one handler: the others are *)
(* as they were.                                                           *)
LEMMA SetHandler ==
  ASSUME hdl \in [Handlers -> Handler], NEW h \in Handlers, NEW c \in Handler,
         hdl' = [hdl EXCEPT ![h] = c]
  PROVE  /\ hdl' \in [Handlers -> Handler] /\ hdl'[h] = c
         /\ \A g \in Handlers : g # h => hdl'[g] = hdl[g]
OBVIOUS

(* Answer leaves a handler that waits for nothing. *)
LEMMA AnswerType ==
  ASSUME hdl \in [Handlers -> Handler], NEW h \in Handlers, Answer(h)
  PROVE  /\ hdl' \in [Handlers -> Handler]
         /\ hdl'[h].pc = "reply" /\ hdl'[h].id = None
         /\ \A g \in Handlers : g # h => hdl'[g] = hdl[g]
<1> PICK c : c = Call("reply", None, None)
  OBVIOUS
<1>1. c \in Handler /\ c.pc = "reply" /\ c.id = None
  BY DEF Call, Handler
<1>2. hdl' = [hdl EXCEPT ![h] = c]
  BY DEF Answer
<1> QED
  BY <1>1, <1>2, SetHandler

(* Go moves a handler and changes nothing of what it holds. *)
LEMMA GoType ==
  ASSUME hdl \in [Handlers -> Handler], NEW h \in Handlers,
         NEW pc \in {"query", "scan", "delIndex"}, Go(h, pc)
  PROVE  /\ hdl' \in [Handlers -> Handler]
         /\ hdl'[h].pc = pc /\ hdl'[h].key = hdl[h].key /\ hdl'[h].id = hdl[h].id
         /\ hdl'[h].keys = hdl[h].keys
         /\ \A g \in Handlers : g # h => hdl'[g] = hdl[g]
<1> PICK c : c = [hdl[h] EXCEPT !.pc = pc]
  OBVIOUS
<1>1. hdl[h] \in Handler
  OBVIOUS
<1>2. /\ c \in Handler /\ c.pc = pc /\ c.key = hdl[h].key /\ c.id = hdl[h].id
      /\ c.keys = hdl[h].keys
  BY <1>1 DEF Handler
<1>3. hdl' = [hdl EXCEPT ![h] = c]
  BY DEF Go
<1> QED
  BY <1>2, <1>3, SetHandler

(* A list is a function from the items to rows or None. *)
LEMMA ResultType ==
  ASSUME item \in [Items -> Row \cup {None}], NEW k PROVE Result(k) \in Lists
BY DEF Result, Lists

(* Deleting entries leaves the rest. *)
LEMMA WithoutType ==
  ASSUME entry \in [Keys -> Lists \cup {None}], NEW ks, entry' = Without(ks)
  PROVE  /\ entry' \in [Keys -> Lists \cup {None}]
         /\ \A k \in Keys : entry'[k] = IF k \in ks THEN None ELSE entry[k]
BY DEF Without

(* The initial states satisfy the invariant. *)
LEMMA IndexInit == Init => IndexInv
<1> SUFFICES ASSUME Init PROVE IndexInv
  OBVIOUS
<1>1. IdleHandler \in Handler
  BY DEF IdleHandler, Call, Handler
<1>2. TypeOK
  BY <1>1 DEF Init, TypeOK
<1> QED
  BY <1>2 DEF Init, IndexInv, CallOK, Call, IdleHandler, UnindexedOnlyByOverlap, Reached, Keys

(* A step that stores nothing, takes nothing from the index and starts no  *)
(* invalidation keeps the invariant.                                       *)
LEMMA HarmlessKeeps ==
  ASSUME IndexInv, TypeOK',
         \A k \in Filters : entry'[k] # None => entry[k] # None,
         index \subseteq index', overlapped' = overlapped,
         NEW h \in Handlers,
         \A g \in Handlers : g # h => hdl'[g] = hdl[g],
         hdl'[h].pc \notin {"delKeys", "delIndex"}, CallOK(hdl'[h])
  PROVE  IndexInv'
<1>1. \A g \in Handlers : CallOK(hdl'[g])
  BY DEF IndexInv
<1>2. UnindexedOnlyByOverlap'
  BY DEF IndexInv, UnindexedOnlyByOverlap
<1>3. Reached'
  BY DEF IndexInv, Reached
<1> QED
  BY <1>1, <1>2, <1>3 DEF IndexInv

(* A request arrives with its key or its id, in a slot that waits for      *)
(* nothing.                                                                *)
LEMMA RequestKeeps == ASSUME IndexInv, NEW h \in Handlers, Request(h) PROVE IndexInv'
<1>1. PICK c \in Handler : /\ hdl' = [hdl EXCEPT ![h] = c] /\ CallOK(c)
                           /\ c.pc \in {"lookup", "insert", "write"}
                           /\ UNCHANGED <<item, entry, index, outdated, overlapped, misdirected, trouble>>
  <2>1. PICK c : /\ Begin(h, c)
                 /\ \/ \E k \in Keys : c = Call("lookup", k, None)
                    \/ \E u \in Users, i \in Items : c = Call("insert", u, i) \/ c = Call("write", u, i)
    <3>1. \A i \in Items : item[i] # None => item[i].ownerId \in Users
      BY DEF IndexInv, TypeOK, Row
    <3> QED
      BY <3>1 DEF Request
  <2>2. c \in Handler /\ CallOK(c) /\ c.pc \in {"lookup", "insert", "write"}
    BY <2>1 DEF Call, Handler, CallOK, Keys
  <2> QED
    BY <2>1, <2>2 DEF Begin, history
<1>2. /\ hdl' \in [Handlers -> Handler] /\ hdl'[h] = c
      /\ \A g \in Handlers : g # h => hdl'[g] = hdl[g]
  BY <1>1, SetHandler DEF IndexInv, TypeOK
<1>3. TypeOK'
  BY <1>1, <1>2 DEF IndexInv, TypeOK
<1> QED
  BY <1>1, <1>2, <1>3, HarmlessKeeps

(* getList and getMine change no entry. *)
LEMMA LookupKeeps == ASSUME IndexInv, NEW h \in Handlers, Lookup(h) PROVE IndexInv'
<1>1. /\ hdl \in [Handlers -> Handler] /\ hdl[h].key \in Keys /\ trouble \in BOOLEAN
      /\ UNCHANGED <<item, entry, index, outdated, overlapped, misdirected>>
  BY DEF IndexInv, TypeOK, Lookup, CallOK, history
<1>2. trouble' \in BOOLEAN /\ (Answer(h) \/ Go(h, "query"))
  BY <1>1 DEF Lookup, Redis, history
<1>3. /\ hdl' \in [Handlers -> Handler] /\ hdl'[h].pc \in {"reply", "query"} /\ CallOK(hdl'[h])
      /\ \A g \in Handlers : g # h => hdl'[g] = hdl[g]
  <2>1. CASE Answer(h)
    BY <1>1, <2>1, AnswerType DEF CallOK
  <2>2. CASE Go(h, "query")
    BY <1>1, <2>2, GoType DEF CallOK
  <2> QED
    BY <1>2, <2>1, <2>2
<1>4. TypeOK'
  BY <1>1, <1>2, <1>3 DEF IndexInv, TypeOK
<1> QED
  BY <1>1, <1>3, <1>4, HarmlessKeeps

(* The reader holds a list. *)
LEMMA QueryKeeps == ASSUME IndexInv, NEW h \in Handlers, Query(h) PROVE IndexInv'
<1> PICK c : c = [hdl[h] EXCEPT !.pc = "store", !.list = Result(hdl[h].key)]
  OBVIOUS
<1>1. /\ hdl \in [Handlers -> Handler] /\ hdl[h] \in Handler /\ hdl[h].key \in Keys
      /\ Result(hdl[h].key) \in Lists
      /\ UNCHANGED <<item, entry, index, outdated, overlapped, misdirected, trouble>>
  BY ResultType DEF IndexInv, TypeOK, Query, CallOK, history
<1>2. c = [pc |-> "store", key |-> hdl[h].key, id |-> hdl[h].id,
           list |-> Result(hdl[h].key), keys |-> hdl[h].keys]
  BY <1>1 DEF Handler
<1>3. c \in Handler /\ CallOK(c) /\ c.pc = "store"
  BY <1>1, <1>2 DEF Handler, CallOK
<1>4. hdl' = [hdl EXCEPT ![h] = c]
  BY <1>1, <1>2 DEF Query, Handler, history
<1>5. /\ hdl' \in [Handlers -> Handler] /\ hdl'[h] = c
      /\ \A g \in Handlers : g # h => hdl'[g] = hdl[g]
  BY <1>1, <1>3, <1>4, SetHandler
<1>6. TypeOK'
  BY <1>1, <1>5 DEF IndexInv, TypeOK
<1> QED
  BY <1>1, <1>3, <1>5, <1>6, HarmlessKeeps

(* The list goes into the index with it; an invalidation that has already  *)
(* scanned will not find it, and then it is overlapped.                    *)
LEMMA StoreKeeps == ASSUME IndexInv, NEW h \in Handlers, Store(h) PROVE IndexInv'
<1> PICK k : k = hdl[h].key
  OBVIOUS
<1>1. /\ hdl \in [Handlers -> Handler] /\ k \in Keys /\ hdl[h].list \in Lists
      /\ hdl[h].pc = "store" /\ trouble \in BOOLEAN /\ UNCHANGED item /\ Answer(h)
  BY DEF IndexInv, TypeOK, Store, CallOK
<1>2. /\ hdl' \in [Handlers -> Handler] /\ hdl'[h].pc = "reply" /\ CallOK(hdl'[h])
      /\ \A g \in Handlers : g # h => hdl'[g] = hdl[g]
  BY <1>1, AnswerType DEF CallOK
<1>3. trouble' \in BOOLEAN
  BY <1>1 DEF Store, Redis
<1>4. CASE UNCHANGED <<entry, index, outdated, overlapped, misdirected>>
  <2>1. TypeOK'
    BY <1>1, <1>2, <1>3, <1>4 DEF IndexInv, TypeOK
  <2> QED
    BY <1>2, <1>4, <2>1, HarmlessKeeps
<1>5. CASE /\ entry' = [entry EXCEPT ![k] = hdl[h].list]
           /\ index' = Registered(k)
           /\ outdated' = Marked(outdated, k, hdl[h].list # Result(k))
           /\ overlapped' = Marked(overlapped, k, Invalidating)
           /\ misdirected' = misdirected \ {k}
  <2>1. /\ entry' \in [Keys -> Lists \cup {None}] /\ index' \subseteq Filters
        /\ outdated' \subseteq Keys /\ overlapped' \subseteq Keys
        /\ misdirected' \subseteq Users
    BY <1>1, <1>5 DEF IndexInv, TypeOK, Registered, Marked
  <2>2. TypeOK'
    BY <1>1, <1>2, <1>3, <2>1 DEF IndexInv, TypeOK
  <2>3. ASSUME NEW f \in Filters, f # k
        PROVE  /\ entry'[f] = entry[f] /\ (f \in overlapped' <=> f \in overlapped)
               /\ (f \in index => f \in index')
    <3>1. f \in Keys /\ entry \in [Keys -> Lists \cup {None}]
      BY DEF IndexInv, TypeOK, Keys
    <3>2. entry'[f] = entry[f]
      BY <1>5, <2>3, <3>1
    <3>3. f \in overlapped' <=> f \in overlapped
      BY <1>5, <2>3 DEF Marked
    <3> QED
      BY <1>5, <3>2, <3>3 DEF Registered
  <2>4. k \in Filters => k \in index'
    BY <1>5 DEF Registered
  <2>5. \A g \in Handlers : hdl'[g].pc \in {"delKeys", "delIndex"} => k \in overlapped'
    <3>1. ASSUME NEW g \in Handlers, hdl'[g].pc \in {"delKeys", "delIndex"}
          PROVE  Invalidating
      <4>1. g # h
        BY <3>1, <1>2
      <4> QED
        BY <3>1, <4>1, <1>2 DEF Invalidating
    <3>2. Invalidating => k \in overlapped'
      BY <1>5 DEF Marked
    <3> QED
      BY <3>1, <3>2
  <2>6. UnindexedOnlyByOverlap'
    <3> SUFFICES ASSUME NEW f \in Filters, entry'[f] # None, f \notin index'
                 PROVE  f \in overlapped'
      BY DEF UnindexedOnlyByOverlap
    <3>1. f # k
      BY <2>4
    <3> QED
      BY <3>1, <2>3 DEF IndexInv, UnindexedOnlyByOverlap
  <2>7. Reached'
    <3> SUFFICES ASSUME NEW g \in Handlers, NEW f \in Filters, entry'[f] # None
                 PROVE  /\ hdl'[g].pc = "delKeys" => f \in hdl'[g].keys \cup overlapped'
                        /\ hdl'[g].pc = "delIndex" => f \in overlapped'
      BY DEF Reached
    <3>1. CASE f = k
      BY <3>1, <2>5
    <3>2. CASE f # k
      BY <3>2, <2>3, <1>2 DEF IndexInv, Reached
    <3> QED
      BY <3>1, <3>2
  <2>8. \A g \in Handlers : CallOK(hdl'[g])
    BY <1>2 DEF IndexInv
  <2> QED
    BY <2>2, <2>6, <2>7, <2>8 DEF IndexInv
<1> QED
  BY <1>4, <1>5 DEF Store, history

(* An insert adds one row, or fails, and changes no cache. *)
LEMMA InsertKeeps == ASSUME IndexInv, NEW h \in Handlers, Insert(h) PROVE IndexInv'
<1> PICK i : i = hdl[h].id
  OBVIOUS
<1>1. /\ hdl \in [Handlers -> Handler] /\ i \in Items /\ hdl[h].key \in Users
      /\ item \in [Items -> Row \cup {None}] /\ (Answer(h) \/ Go(h, "scan"))
      /\ UNCHANGED <<entry, index, outdated, overlapped, misdirected, trouble>>
  BY DEF IndexInv, TypeOK, Insert, CallOK, history
<1>2. item' \in [Items -> Row \cup {None}]
  <2>1. \E row \in Row \cup {None} : item' = [item EXCEPT ![i] = row]
    <3>1. CASE item' = item
      BY <1>1, <3>1
    <3>2. CASE \E free \in BOOLEAN :
                 item' = [item EXCEPT ![i] = [ownerId |-> hdl[h].key, available |-> free]]
      <4>1. \A free \in BOOLEAN : [ownerId |-> hdl[h].key, available |-> free] \in Row
        BY <1>1 DEF Row
      <4> QED
        BY <3>2, <4>1
    <3> QED
      BY <3>1, <3>2 DEF Insert
  <2> QED
    BY <1>1, <2>1
<1>3. /\ hdl' \in [Handlers -> Handler] /\ hdl'[h].pc \in {"scan", "reply"} /\ CallOK(hdl'[h])
      /\ \A g \in Handlers : g # h => hdl'[g] = hdl[g]
  BY <1>1, GoType, AnswerType DEF CallOK
<1>4. TypeOK'
  BY <1>1, <1>2, <1>3 DEF IndexInv, TypeOK
<1> QED
  BY <1>1, <1>3, <1>4, HarmlessKeeps

(* A write changes one row and no cache. *)
LEMMA WriteKeeps == ASSUME IndexInv, NEW h \in Handlers, Write(h) PROVE IndexInv'
<1> PICK i : i = hdl[h].id
  OBVIOUS
<1>1. /\ hdl \in [Handlers -> Handler] /\ i \in Items /\ hdl[h].key \in Users
      /\ item \in [Items -> Row \cup {None}] /\ (Answer(h) \/ Go(h, "scan"))
      /\ UNCHANGED <<entry, index, outdated, overlapped, trouble>>
  BY DEF IndexInv, TypeOK, Write, CallOK
<1>2. item[i] # None => item[i] \in Row /\ item[i].ownerId \in Users
  BY <1>1 DEF Row
<1>3. item' \in [Items -> Row \cup {None}]
  <2>1. \/ item' = item \/ item' = [item EXCEPT ![i] = None]
        \/ item[i] # None /\ \E free \in BOOLEAN : item' = [item EXCEPT ![i].available = free]
    BY ZenonT(30) DEF Write
  <2>2. ASSUME item[i] # None, NEW free \in BOOLEAN, item' = [item EXCEPT ![i].available = free]
        PROVE  item' \in [Items -> Row \cup {None}]
    <3>1. PICK row : row = [item[i] EXCEPT !.available = free]
      OBVIOUS
    <3>2. row \in Row /\ item' = [item EXCEPT ![i] = row]
      BY <1>2, <2>2, <3>1 DEF Row
    <3> QED
      BY <1>1, <3>2
  <2> QED
    BY <1>1, <2>1, <2>2
<1>4. misdirected' \subseteq Users
  BY <1>2 DEF Write, IndexInv, TypeOK
<1>5. /\ hdl' \in [Handlers -> Handler] /\ hdl'[h].pc \in {"scan", "reply"} /\ CallOK(hdl'[h])
      /\ \A g \in Handlers : g # h => hdl'[g] = hdl[g]
  BY <1>1, GoType, AnswerType DEF CallOK
<1>6. TypeOK'
  BY <1>1, <1>3, <1>4, <1>5 DEF IndexInv, TypeOK
<1> QED
  BY <1>1, <1>5, <1>6, HarmlessKeeps

(* What the scan misses is unindexed, hence overlapped already. *)
LEMMA ScanKeeps == ASSUME IndexInv, NEW h \in Handlers, Scan(h) PROVE IndexInv'
<1>1. /\ hdl \in [Handlers -> Handler] /\ hdl[h] \in Handler /\ hdl[h].pc = "scan"
      /\ hdl[h].id \in Items /\ trouble \in BOOLEAN /\ index \subseteq Filters
      /\ entry \in [Keys -> Lists \cup {None}]
      /\ UNCHANGED <<item, index, outdated, overlapped, misdirected>>
  BY DEF IndexInv, TypeOK, Scan, CallOK, history
<1>2. PICK scanned, dropped \in BOOLEAN :
        /\ Redis(scanned /\ dropped)
        /\ \/ entry' = Without(OwnList(h))
           \/ ~dropped /\ UNCHANGED entry
        /\ IF scanned
             THEN hdl' = [hdl EXCEPT ![h].pc = IF index = {} THEN "delIndex" ELSE "delKeys",
                                     ![h].keys = index]
             ELSE Answer(h)
  BY DEF Scan, history
<1>3. trouble' \in BOOLEAN
  BY <1>1, <1>2 DEF Redis
<1>4. /\ entry' \in [Keys -> Lists \cup {None}]
      /\ \A k \in Filters : entry'[k] # None => entry[k] # None
  BY <1>1, <1>2, WithoutType DEF Keys
<1>5. CASE ~scanned
  <2>1. /\ hdl' \in [Handlers -> Handler] /\ hdl'[h].pc = "reply" /\ CallOK(hdl'[h])
        /\ \A g \in Handlers : g # h => hdl'[g] = hdl[g]
    BY <1>1, <1>2, <1>5, AnswerType DEF CallOK
  <2>2. TypeOK'
    BY <1>1, <1>3, <1>4, <2>1 DEF IndexInv, TypeOK
  <2> QED
    BY <1>1, <1>4, <2>1, <2>2, HarmlessKeeps
<1>6. CASE scanned
  <2> PICK c : c = [pc |-> IF index = {} THEN "delIndex" ELSE "delKeys", key |-> hdl[h].key,
                    id |-> hdl[h].id, list |-> hdl[h].list, keys |-> index]
    OBVIOUS
  <2>1. /\ c \in Handler /\ CallOK(c) /\ c.keys = index
        /\ c.pc = IF index = {} THEN "delIndex" ELSE "delKeys"
    BY <1>1 DEF Handler, CallOK
  <2>2. hdl' = [hdl EXCEPT ![h] = c]
    BY <1>1, <1>2, <1>6 DEF Handler
  <2>3. /\ hdl' \in [Handlers -> Handler] /\ hdl'[h] = c
        /\ \A g \in Handlers : g # h => hdl'[g] = hdl[g]
    BY <1>1, <2>1, <2>2, SetHandler
  <2>4. TypeOK'
    BY <1>1, <1>3, <1>4, <2>3 DEF IndexInv, TypeOK
  <2>5. \A g \in Handlers : CallOK(hdl'[g])
    BY <2>1, <2>3 DEF IndexInv
  <2>6. UnindexedOnlyByOverlap'
    BY <1>1, <1>4 DEF IndexInv, UnindexedOnlyByOverlap
  <2>7. Reached'
    BY <1>1, <1>4, <2>1, <2>3 DEF IndexInv, UnindexedOnlyByOverlap, Reached
  <2> QED
    BY <2>4, <2>5, <2>6, <2>7 DEF IndexInv
<1> QED
  BY <1>5, <1>6

(* When the keys that were scanned are deleted, only overlapped lists are  *)
(* left for the deletion of the index to strand.                           *)
LEMMA DelKeysKeeps == ASSUME IndexInv, NEW h \in Handlers, DelKeys(h) PROVE IndexInv'
<1>1. /\ hdl \in [Handlers -> Handler] /\ hdl[h].pc = "delKeys" /\ trouble \in BOOLEAN
      /\ entry \in [Keys -> Lists \cup {None}]
      /\ UNCHANGED <<item, index, outdated, overlapped, misdirected>>
  BY DEF IndexInv, TypeOK, DelKeys, history
<1>2. PICK ok \in BOOLEAN :
        /\ Redis(ok)
        /\ \/ entry' = Without(hdl[h].keys)
           \/ ~ok /\ UNCHANGED entry
        /\ IF ok THEN Go(h, "delIndex") ELSE Answer(h)
  BY DEF DelKeys, history
<1>3. trouble' \in BOOLEAN
  BY <1>1, <1>2 DEF Redis
<1>4. /\ entry' \in [Keys -> Lists \cup {None}]
      /\ \A k \in Filters : entry'[k] # None => entry[k] # None
      /\ ok => \A k \in Filters : entry'[k] # None => k \notin hdl[h].keys
  BY <1>1, <1>2, WithoutType DEF Keys
<1>5. CASE ~ok
  <2>1. /\ hdl' \in [Handlers -> Handler] /\ hdl'[h].pc = "reply" /\ CallOK(hdl'[h])
        /\ \A g \in Handlers : g # h => hdl'[g] = hdl[g]
    BY <1>1, <1>2, <1>5, AnswerType DEF CallOK
  <2>2. TypeOK'
    BY <1>1, <1>3, <1>4, <2>1 DEF IndexInv, TypeOK
  <2> QED
    BY <1>1, <1>4, <2>1, <2>2, HarmlessKeeps
<1>6. CASE ok
  <2>1. /\ hdl' \in [Handlers -> Handler] /\ hdl'[h].pc = "delIndex"
        /\ \A g \in Handlers : g # h => hdl'[g] = hdl[g]
    BY <1>1, <1>2, <1>6, GoType
  <2>2. TypeOK'
    BY <1>1, <1>3, <1>4, <2>1 DEF IndexInv, TypeOK
  <2>3. \A g \in Handlers : CallOK(hdl'[g])
    BY <2>1 DEF IndexInv, CallOK
  <2>4. UnindexedOnlyByOverlap'
    BY <1>1, <1>4 DEF IndexInv, UnindexedOnlyByOverlap
  <2>5. Reached'
    BY <1>1, <1>4, <1>6, <2>1 DEF IndexInv, Reached
  <2> QED
    BY <2>2, <2>3, <2>4, <2>5 DEF IndexInv
<1> QED
  BY <1>5, <1>6

(* The index is emptied when only overlapped lists are left. *)
LEMMA DelIndexKeeps == ASSUME IndexInv, NEW h \in Handlers, DelIndex(h) PROVE IndexInv'
<1>1. /\ hdl \in [Handlers -> Handler] /\ hdl[h].pc = "delIndex" /\ trouble \in BOOLEAN
      /\ index' \in {index, {}} /\ Answer(h)
      /\ UNCHANGED <<item, entry, outdated, overlapped, misdirected>>
  BY DEF IndexInv, TypeOK, DelIndex, history
<1>2. trouble' \in BOOLEAN
  BY <1>1 DEF DelIndex, Redis, history
<1>3. /\ hdl' \in [Handlers -> Handler] /\ hdl'[h].pc = "reply" /\ CallOK(hdl'[h])
      /\ \A g \in Handlers : g # h => hdl'[g] = hdl[g]
  BY <1>1, AnswerType DEF CallOK
<1>4. TypeOK'
  BY <1>1, <1>2, <1>3 DEF IndexInv, TypeOK
<1>5. \A g \in Handlers : CallOK(hdl'[g])
  BY <1>3 DEF IndexInv
<1>6. UnindexedOnlyByOverlap'
  BY <1>1 DEF IndexInv, Reached, UnindexedOnlyByOverlap
<1>7. Reached'
  BY <1>1, <1>3 DEF IndexInv, Reached
<1> QED
  BY <1>4, <1>5, <1>6, <1>7 DEF IndexInv

(* A handler that dies or has answered holds nothing. *)
LEMMA EndKeeps ==
  ASSUME IndexInv, NEW h \in Handlers, Abort(h) \/ Respond(h) PROVE IndexInv'
<1>1. /\ hdl \in [Handlers -> Handler] /\ trouble' \in BOOLEAN
      /\ UNCHANGED <<item, entry, index, outdated, overlapped, misdirected>>
  BY DEF IndexInv, TypeOK, Abort, Respond, history
<1>2. /\ hdl' \in [Handlers -> Handler] /\ hdl'[h].pc \in {"idle", "reply"} /\ CallOK(hdl'[h])
      /\ \A g \in Handlers : g # h => hdl'[g] = hdl[g]
  <2>1. CASE Abort(h)
    BY <1>1, <2>1, AnswerType DEF Abort, CallOK, history
  <2>2. CASE Respond(h)
    <3> PICK c : c = IdleHandler
      OBVIOUS
    <3>1. c \in Handler /\ c.pc = "idle"
      BY DEF IdleHandler, Call, Handler
    <3>2. hdl' = [hdl EXCEPT ![h] = c]
      BY <2>2 DEF Respond, history
    <3>3. /\ hdl' \in [Handlers -> Handler] /\ hdl'[h] = c
          /\ \A g \in Handlers : g # h => hdl'[g] = hdl[g]
      BY <1>1, <3>1, <3>2, SetHandler
    <3> QED
      BY <3>1, <3>3 DEF CallOK
  <2> QED
    BY <2>1, <2>2
<1>3. TypeOK'
  BY <1>1, <1>2 DEF IndexInv, TypeOK
<1> QED
  BY <1>1, <1>2, <1>3, HarmlessKeeps

(* An entry that expires is one less to account for. *)
LEMMA ExpireKeeps == ASSUME IndexInv, NEW k \in Keys, Expire(k) PROVE IndexInv'
<1>1. /\ entry \in [Keys -> Lists \cup {None}] /\ entry' = Without({k})
      /\ UNCHANGED <<item, index, hdl, outdated, overlapped, misdirected, trouble>>
  BY DEF IndexInv, TypeOK, Expire, history
<1>2. /\ entry' \in [Keys -> Lists \cup {None}]
      /\ \A f \in Filters : entry'[f] # None => entry[f] # None
  BY <1>1, WithoutType DEF Keys
<1>3. TypeOK'
  BY <1>1, <1>2 DEF IndexInv, TypeOK
<1>4. UnindexedOnlyByOverlap' /\ Reached' /\ \A g \in Handlers : CallOK(hdl'[g])
  BY <1>1, <1>2 DEF IndexInv, UnindexedOnlyByOverlap, Reached
<1> QED
  BY <1>3, <1>4 DEF IndexInv

(* Every step keeps the invariant. *)
LEMMA IndexStep == ASSUME IndexInv, [Next]_vars PROVE IndexInv'
<1>1. ASSUME NEW h \in Handlers, Request(h) \/ HandlerStep(h) \/ Abort(h) PROVE IndexInv'
  BY <1>1, RequestKeeps, LookupKeeps, QueryKeeps, StoreKeeps, InsertKeeps, WriteKeeps, ScanKeeps,
     DelKeysKeeps, DelIndexKeeps, EndKeeps DEF HandlerStep, CacheStep, StoreStep
<1>2. ASSUME NEW k \in Keys, Expire(k) PROVE IndexInv'
  BY <1>2, ExpireKeeps
<1>3. CASE UNCHANGED vars
  BY <1>3 DEF vars, IndexInv, TypeOK, CallOK, UnindexedOnlyByOverlap, Reached
<1> QED
  BY <1>1, <1>2, <1>3 DEF Next

(* Every behaviour satisfies the invariant. *)
THEOREM IndexInvariance == Spec => []IndexInv
BY IndexInit, IndexStep, PTL DEF Spec

(* The variables keep their types. *)
THEOREM TypeCorrect == Spec => []TypeOK
<1>1. IndexInv => TypeOK
  BY DEF IndexInv
<1> QED
  BY <1>1, IndexInvariance, PTL

(* Whatever fails, a cached list is out of reach of the writes only if it  *)
(* was stored between some write's scan of the index and its deletion.     *)
THEOREM OnlyOverlapUnindexes == Spec => []UnindexedOnlyByOverlap
<1>1. IndexInv => UnindexedOnlyByOverlap
  BY DEF IndexInv
<1> QED
  BY <1>1, IndexInvariance, PTL

-----------------------------------------------------------------------------
(* The other steps neither make a list stale nor leave one behind. *)
LEMMA OthersExplain ==
  ASSUME StaleIsExplained, UNCHANGED item,
         \A k \in Keys : entry'[k] \in {None, entry[k]},
         UNCHANGED <<outdated, overlapped, misdirected>>, trouble => trouble',
         ~trouble' => \A g \in Handlers, k \in Keys : Covers(g, k) => Covers(g, k)'
  PROVE  StaleIsExplained'
<1>1. \A k \in Keys : Result(k)' = Result(k)
  BY DEF Result
<1>2. \A k \in Keys : Coherent(k) => Coherent(k)'
  BY <1>1 DEF Coherent
<1> QED
  BY <1>2 DEF StaleIsExplained

(* A change of one row shows only in its owner's list and in the filtered  *)
(* ones.                                                                   *)
LEMMA OneRow ==
  ASSUME NEW i \in Items, \A j \in Items : j # i => item'[j] = item[j],
         NEW k \in Users, item[i] # None => item[i].ownerId # k,
         item'[i] # None => item'[i].ownerId # k
  PROVE  Result(k)' = Result(k)
<1>1. ASSUME NEW j \in Items
      PROVE  /\ item[j] # None /\ Selects(k, item[j]) <=> item'[j] # None /\ Selects(k, item'[j])
             /\ item[j] # None /\ Selects(k, item[j]) => item'[j] = item[j]
  BY DEF Selects
<1> QED
  BY <1>1 DEF Result

(* A handler that goes on to its scan is about to delete the filtered      *)
(* lists and one owner's; of the others only the row's owner's can have    *)
(* become stale.                                                           *)
LEMMA ScanPending ==
  ASSUME IndexInv, StaleIsExplained, NEW h \in Handlers, hdl[h].pc \in {"insert", "write"},
         hdl[h].key \in Users, Go(h, "scan"), NEW i \in Items,
         \A j \in Items : j # i => item'[j] = item[j],
         item[i] # None => item[i].ownerId \in {hdl[h].key} \cup misdirected',
         item'[i] # None => item'[i].ownerId \in {hdl[h].key} \cup misdirected',
         misdirected \subseteq misdirected', UNCHANGED <<entry, outdated, overlapped, trouble>>
  PROVE  StaleIsExplained'
<1>1. /\ hdl'[h].pc = "scan" /\ hdl'[h].key = hdl[h].key
      /\ \A g \in Handlers : g # h => hdl'[g] = hdl[g]
  BY GoType DEF IndexInv, TypeOK
<1> SUFFICES ASSUME ~trouble', NEW k \in Keys
             PROVE  \/ Coherent(k)' \/ (\E g \in Handlers : Covers(g, k)')
                    \/ k \in outdated' \cup overlapped' \cup misdirected'
  BY DEF StaleIsExplained
<1>2. CASE k \in Filters \/ k = hdl[h].key
  BY <1>1, <1>2 DEF Covers
<1>3. CASE k \in Users /\ k # hdl[h].key /\ k \notin misdirected'
  <2>1. Result(k)' = Result(k)
    BY <1>3, OneRow
  <2>2. Coherent(k)' <=> Coherent(k)
    BY <2>1 DEF Coherent
  <2>3. \A g \in Handlers : Covers(g, k) => Covers(g, k)'
    BY <1>1 DEF Covers
  <2> QED
    BY <2>2, <2>3 DEF StaleIsExplained
<1> QED
  BY <1>2, <1>3 DEF Keys

(* A new row is its owner's, whose list the handler is about to delete. *)
LEMMA InsertExplains ==
  ASSUME IndexInv, StaleIsExplained, NEW h \in Handlers, Insert(h)
  PROVE  StaleIsExplained'
<1> PICK i : i = hdl[h].id
  OBVIOUS
<1>1. /\ hdl \in [Handlers -> Handler] /\ hdl[h].pc = "insert" /\ i \in Items
      /\ hdl[h].key \in Users /\ item \in [Items -> Row \cup {None}]
      /\ UNCHANGED <<entry, outdated, overlapped, misdirected, trouble>>
  BY DEF IndexInv, TypeOK, Insert, CallOK, history
<1>2. CASE Answer(h) /\ UNCHANGED item
  <2>1. \A g \in Handlers : g # h => hdl'[g] = hdl[g]
    BY <1>1, <1>2, AnswerType
  <2>2. \A g \in Handlers, k \in Keys : Covers(g, k) => Covers(g, k)'
    BY <1>1, <2>1 DEF Covers
  <2> QED
    BY <1>1, <1>2, <2>2, OthersExplain
<1>3. CASE /\ item[i] = None /\ Go(h, "scan")
           /\ \E free \in BOOLEAN :
                item' = [item EXCEPT ![i] = [ownerId |-> hdl[h].key, available |-> free]]
  <2>1. item'[i].ownerId = hdl[h].key /\ \A j \in Items : j # i => item'[j] = item[j]
    BY <1>1, <1>3
  <2> QED
    BY <1>1, <1>3, <2>1, ScanPending
<1> QED
  BY <1>2, <1>3 DEF Insert

(* A write of a row matters to the owner's list and to the filtered ones;  *)
(* its handler is about to scan, and has misdirected its deletion if it    *)
(* found the row under another owner.                                      *)
LEMMA WriteExplains ==
  ASSUME IndexInv, StaleIsExplained, NEW h \in Handlers, Write(h)
  PROVE  StaleIsExplained'
<1> PICK i : i = hdl[h].id
  OBVIOUS
<1>1. /\ hdl \in [Handlers -> Handler] /\ hdl[h].pc = "write" /\ i \in Items
      /\ hdl[h].key \in Users /\ item \in [Items -> Row \cup {None}]
      /\ UNCHANGED <<entry, outdated, overlapped, trouble>>
  BY DEF IndexInv, TypeOK, Write, CallOK
<1>2. CASE item[i] = None
  <2>1. (Answer(h) \/ Go(h, "scan")) /\ UNCHANGED <<item, misdirected>>
    BY <1>2 DEF Write
  <2>2. \A g \in Handlers : g # h => hdl'[g] = hdl[g]
    BY <1>1, <2>1, AnswerType, GoType
  <2>3. \A g \in Handlers, k \in Keys : Covers(g, k) => Covers(g, k)'
    BY <1>1, <2>2 DEF Covers
  <2> QED
    BY <1>1, <2>1, <2>3, OthersExplain
<1>3. CASE item[i] # None
  <2>1. /\ Go(h, "scan") /\ misdirected' = misdirected \cup ({item[i].ownerId} \ {hdl[h].key})
        /\ \/ \E free \in BOOLEAN : item' = [item EXCEPT ![i].available = free]
           \/ item' = [item EXCEPT ![i] = None]
    BY <1>3 DEF Write
  <2>2. /\ \A j \in Items : j # i => item'[j] = item[j]
        /\ item'[i] # None => item'[i].ownerId = item[i].ownerId
    BY <1>1, <1>3, <2>1 DEF Row
  <2> QED
    BY <1>1, <2>1, <2>2, ScanPending
<1> QED
  BY <1>2, <1>3

(* A list is stored as it should be, or it is marked as outdated. *)
LEMMA StoreExplains ==
  ASSUME IndexInv, StaleIsExplained, NEW h \in Handlers, Store(h)
  PROVE  StaleIsExplained'
<1> PICK k : k = hdl[h].key
  OBVIOUS
<1>1. /\ hdl \in [Handlers -> Handler] /\ hdl[h].pc = "store" /\ k \in Keys /\ Answer(h)
      /\ UNCHANGED item /\ entry \in [Keys -> Lists \cup {None}] /\ trouble \in BOOLEAN
  BY DEF IndexInv, TypeOK, Store, CallOK
<1>2. \A g \in Handlers : g # h => hdl'[g] = hdl[g]
  BY <1>1, AnswerType
<1>3. \A g \in Handlers, f \in Keys : Covers(g, f) => Covers(g, f)'
  BY <1>1, <1>2 DEF Covers
<1>4. \A f \in Keys : Result(f)' = Result(f)
  BY <1>1 DEF Result
<1>5. trouble => trouble'
  BY <1>1 DEF Store, Redis
<1>6. CASE UNCHANGED <<entry, index, outdated, overlapped, misdirected>>
  BY <1>3, <1>4, <1>5, <1>6 DEF StaleIsExplained, Coherent
<1>7. CASE /\ entry' = [entry EXCEPT ![k] = hdl[h].list]
           /\ outdated' = Marked(outdated, k, hdl[h].list # Result(k))
           /\ overlapped' = Marked(overlapped, k, Invalidating)
           /\ misdirected' = misdirected \ {k}
  <2> SUFFICES ASSUME ~trouble', NEW f \in Keys
               PROVE  \/ Coherent(f)' \/ (\E g \in Handlers : Covers(g, f)')
                      \/ f \in outdated' \cup overlapped' \cup misdirected'
    BY DEF StaleIsExplained
  <2>1. CASE f = k
    <3>1. entry'[k] = hdl[h].list
      BY <1>1, <1>7
    <3>2. hdl[h].list # Result(k) => k \in outdated'
      BY <1>7 DEF Marked
    <3> QED
      BY <1>4, <2>1, <3>1, <3>2 DEF Coherent
  <2>2. CASE f # k
    <3>1. entry'[f] = entry[f]
      BY <1>1, <1>7, <2>2
    <3>2. /\ (f \in outdated => f \in outdated') /\ (f \in overlapped => f \in overlapped')
          /\ (f \in misdirected => f \in misdirected')
      BY <1>7, <2>2 DEF Marked
    <3> QED
      BY <1>3, <1>4, <1>5, <3>1, <3>2 DEF StaleIsExplained, Coherent
  <2> QED
    BY <2>1, <2>2
<1> QED
  BY <1>6, <1>7 DEF Store, history

(* The owner's list is gone, and the filtered ones that are stale are to   *)
(* be deleted next, unless they have left the index.                       *)
LEMMA ScanExplains ==
  ASSUME IndexInv, StaleIsExplained, NEW h \in Handlers, Scan(h)
  PROVE  StaleIsExplained'
<1>1. /\ hdl \in [Handlers -> Handler] /\ hdl[h] \in Handler /\ hdl[h].pc = "scan"
      /\ entry \in [Keys -> Lists \cup {None}] /\ trouble \in BOOLEAN
      /\ UNCHANGED <<item, index, outdated, overlapped, misdirected>>
  BY DEF IndexInv, TypeOK, Scan, history
<1> SUFFICES ASSUME ~trouble', NEW k \in Keys
             PROVE  \/ Coherent(k)' \/ (\E g \in Handlers : Covers(g, k)')
                    \/ k \in outdated' \cup overlapped' \cup misdirected'
  BY DEF StaleIsExplained
<1>2. /\ entry' = Without(OwnList(h)) /\ ~trouble
      /\ hdl' = [hdl EXCEPT ![h].pc = IF index = {} THEN "delIndex" ELSE "delKeys",
                             ![h].keys = index]
  BY DEF Scan, Redis, history
<1>3. /\ hdl'[h].pc = IF index = {} THEN "delIndex" ELSE "delKeys"
      /\ hdl'[h].keys = index
  BY <1>1, <1>2 DEF Handler
<1>4. \A g \in Handlers : g # h => hdl'[g] = hdl[g]
  BY <1>1, <1>2
<1>5. entry'[k] = IF k \in OwnList(h) THEN None ELSE entry[k]
  BY <1>1, <1>2, WithoutType
<1>6. Result(k)' = Result(k)
  BY <1>1 DEF Result
<1>7. ASSUME ~Coherent(k)' PROVE ~Coherent(k) /\ k # hdl[h].key
  BY <1>5, <1>6, <1>7 DEF Coherent, OwnList
<1>8. CASE \E g \in Handlers : g # h /\ Covers(g, k)
  BY <1>4, <1>8 DEF Covers
<1>9. CASE ~Coherent(k)' /\ Covers(h, k)
  <2>1. k \in Filters /\ entry[k] # None
    BY <1>1, <1>7, <1>9 DEF Covers, Coherent
  <2>2. k \in index \/ k \in overlapped
    BY <2>1 DEF IndexInv, UnindexedOnlyByOverlap
  <2>3. k \in index => Covers(h, k)'
    BY <1>3 DEF Covers
  <2> QED
    BY <1>1, <2>2, <2>3
<1> QED
  BY <1>1, <1>2, <1>7, <1>8, <1>9 DEF StaleIsExplained

(* The lists whose deletion explained them are gone. *)
LEMMA DelKeysExplains ==
  ASSUME IndexInv, StaleIsExplained, NEW h \in Handlers, DelKeys(h)
  PROVE  StaleIsExplained'
<1>1. /\ hdl \in [Handlers -> Handler] /\ hdl[h].pc = "delKeys"
      /\ entry \in [Keys -> Lists \cup {None}] /\ trouble \in BOOLEAN
      /\ UNCHANGED <<item, index, outdated, overlapped, misdirected>>
  BY DEF IndexInv, TypeOK, DelKeys, history
<1> SUFFICES ASSUME ~trouble', NEW k \in Keys
             PROVE  \/ Coherent(k)' \/ (\E g \in Handlers : Covers(g, k)')
                    \/ k \in outdated' \cup overlapped' \cup misdirected'
  BY DEF StaleIsExplained
<1>2. entry' = Without(hdl[h].keys) /\ ~trouble /\ Go(h, "delIndex")
  BY <1>1 DEF DelKeys, Redis, history
<1>3. \A g \in Handlers : g # h => hdl'[g] = hdl[g]
  BY <1>1, <1>2, GoType
<1>4. entry'[k] = IF k \in hdl[h].keys THEN None ELSE entry[k]
  BY <1>1, <1>2, WithoutType
<1>5. Result(k)' = Result(k)
  BY <1>1 DEF Result
<1>6. ASSUME ~Coherent(k)' PROVE ~Coherent(k) /\ ~Covers(h, k)
  BY <1>1, <1>4, <1>5, <1>6 DEF Coherent, Covers
<1>7. \A g \in Handlers : g # h /\ Covers(g, k) => Covers(g, k)'
  BY <1>3 DEF Covers
<1> QED
  BY <1>1, <1>2, <1>6, <1>7 DEF StaleIsExplained

(* Every step leaves every stale list explained, as long as nothing        *)
(* fails.                                                                  *)
LEMMA StaleStep ==
  ASSUME IndexInv, StaleIsExplained, [Next]_vars PROVE StaleIsExplained'
<1>0. hdl \in [Handlers -> Handler] /\ trouble \in BOOLEAN
      /\ entry \in [Keys -> Lists \cup {None}]
  BY DEF IndexInv, TypeOK
<1>1. ASSUME NEW h \in Handlers, hdl[h].pc \notin {"scan", "delKeys"} \/ trouble',
             \A g \in Handlers : g # h => hdl'[g] = hdl[g]
      PROVE  ~trouble' => \A g \in Handlers, k \in Keys : Covers(g, k) => Covers(g, k)'
  BY <1>1 DEF Covers
<1>2. ASSUME NEW h \in Handlers, Request(h) PROVE StaleIsExplained'
  <2>1. PICK c : /\ hdl[h].pc = "idle" /\ hdl' = [hdl EXCEPT ![h] = c]
                 /\ UNCHANGED <<item, entry, outdated, overlapped, misdirected, trouble>>
    BY <1>2 DEF Request, Begin, history
  <2>2. \A g \in Handlers : g # h => hdl'[g] = hdl[g]
    BY <1>0, <2>1
  <2> QED
    BY <1>1, <2>1, <2>2, OthersExplain
<1>3. ASSUME NEW h \in Handlers, Lookup(h) PROVE StaleIsExplained'
  <2>1. /\ hdl[h].pc = "lookup" /\ UNCHANGED <<item, entry, outdated, overlapped, misdirected>>
        /\ (trouble => trouble') /\ (Answer(h) \/ Go(h, "query"))
    BY <1>0, <1>3 DEF Lookup, Redis, history
  <2>2. \A g \in Handlers : g # h => hdl'[g] = hdl[g]
    BY <1>0, <2>1, AnswerType, GoType
  <2> QED
    BY <1>1, <2>1, <2>2, OthersExplain
<1>4. ASSUME NEW h \in Handlers, Query(h) PROVE StaleIsExplained'
  <2>1. /\ hdl[h].pc = "query" /\ UNCHANGED <<item, entry, outdated, overlapped, misdirected, trouble>>
        /\ \A g \in Handlers : g # h => hdl'[g] = hdl[g]
    BY <1>0, <1>4 DEF Query, history
  <2> QED
    BY <1>1, <2>1, OthersExplain
<1>5. ASSUME NEW h \in Handlers, DelIndex(h) PROVE StaleIsExplained'
  <2>1. /\ hdl[h].pc = "delIndex" /\ UNCHANGED <<item, entry, outdated, overlapped, misdirected>>
        /\ (trouble => trouble') /\ Answer(h)
    BY <1>0, <1>5 DEF DelIndex, Redis, history
  <2>2. \A g \in Handlers : g # h => hdl'[g] = hdl[g]
    BY <1>0, <2>1, AnswerType
  <2> QED
    BY <1>1, <2>1, <2>2, OthersExplain
<1>6. ASSUME NEW h \in Handlers, Abort(h) PROVE StaleIsExplained'
  BY <1>6 DEF Abort, StaleIsExplained, history
<1>7. ASSUME NEW h \in Handlers, Respond(h) PROVE StaleIsExplained'
  <2>1. /\ hdl[h].pc = "reply" /\ UNCHANGED <<item, entry, outdated, overlapped, misdirected, trouble>>
        /\ \A g \in Handlers : g # h => hdl'[g] = hdl[g]
    BY <1>0, <1>7 DEF Respond, history
  <2> QED
    BY <1>1, <2>1, OthersExplain
<1>8. ASSUME NEW f \in Keys, Expire(f) PROVE StaleIsExplained'
  <2>1. \A k \in Keys : entry'[k] \in {None, entry[k]}
    BY <1>0, <1>8, WithoutType DEF Expire, history
  <2>2. UNCHANGED <<item, hdl, outdated, overlapped, misdirected, trouble>>
    BY <1>8 DEF Expire, history
  <2>3. \A g \in Handlers, k \in Keys : Covers(g, k) => Covers(g, k)'
    BY <2>2 DEF Covers
  <2> QED
    BY <2>1, <2>2, <2>3, OthersExplain
<1>9. CASE UNCHANGED vars
  BY <1>9 DEF vars, StaleIsExplained, Coherent, Result, Covers
<1> QED
  BY <1>2, <1>3, <1>4, <1>5, <1>6, <1>7, <1>8, <1>9,
     StoreExplains, InsertExplains, WriteExplains, ScanExplains, DelKeysExplains
     DEF Next, HandlerStep, CacheStep, StoreStep

(* While nothing fails, a list is stale only under a write that is about   *)
(* to delete it, or by one of two races: a reader that stores what it had  *)
(* fetched before a write, and a reader that registers its list beside an  *)
(* invalidation.  No write leaves any other stale list behind.             *)
THEOREM StalenessIsExplained == Spec => []StaleIsExplained
<1>1. Init => IndexInv /\ StaleIsExplained
  BY IndexInit DEF Init, StaleIsExplained, Coherent
<1>2. IndexInv /\ StaleIsExplained /\ [Next]_vars => IndexInv' /\ StaleIsExplained'
  BY IndexStep, StaleStep
<1> QED
  BY <1>1, <1>2, PTL DEF Spec
=============================================================================
