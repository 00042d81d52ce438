# InfraCore: a verification project

InfraCore is a resource-sharing platform of four Node.js services behind an
API gateway: users list items, other users book them, owners approve, reject
and take returns, and everybody concerned is notified. This directory holds
TLA+ models of the parts of it that are concurrent or can fail, TLC
configurations that check them on small instances, and proofs, checked by
TLAPS, of what matters most for instances of any size.

Paths below are relative to the repository (`src/` here); "`README.md:837`"
means line 837 of the repository's own README.

    tlasany M.tla                             parse a module
    tlc -workers 2 -config X.cfg MCModule     model-check (see "Runs")
    tlapm MProofs.tla                         check the proofs of a module

## 1. The system

| Component | State it keeps | Operations that change state | Interacts by |
|---|---|---|---|
| api-gateway | counters `rl:*` and the list `bl:jti:*` in Redis (the latter written by user-service) | one counter step per request | proxies HTTP to all services, adds `x-user-*` headers |
| user-service | users in MongoDB; `bl:jti:<jti>` in Redis | register, updateProfile (any field of the body), changeRole, logout | HTTP from the gateway |
| inventory-service | items in MongoDB; `inv:item:<id>`, `inv:list:<hash>`, `inv:mine:<owner>` and the set `inv:list-index` in Redis | createItem, updateItem, setListing, deleteItem, setLoanStatus; cached reads | HTTP from the gateway and from booking-service |
| booking-service | bookings in MongoDB; its AMQP channel | create, approve, reject, cancel, return | HTTP calls to inventory-service, events to the topic exchange |
| notification-service | the queues `notification.bookings`, `.retry`, `.parking` in RabbitMQ | consume, retry, park; peek, replay, purge by operators | AMQP |

One booking step runs through three of them:

    client -> booking-service: read booking, check actor and transition, save
                -> inventory-service: set isOnLoan (approve, return), drop caches
                <- ok, or any failure = 503
              publish event -> exchange -> notification-service -> notifications
           <- 200

Nothing here is transactional. Each `await` lets every other request of the
process run, and each service can fail between any two awaits of another. What
is hard, and what the models are about:

- **interleaving**: check-then-write on documents read one await earlier
  (bookings, items), cache fills racing invalidations, the list index deleted
  two awaits after it was read, operators and the consumer at one queue;
- **partial failure and crashes**: a booking saved as APPROVED whose loan call
  fails; a death between save, call and publish, with the call still being
  served; a death between publish and ack; Redis failing anywhere;
- **calls that never settle**: while a Redis client reconnects, its commands are
  queued and neither resolve nor reject (`test.md`, section 7.1), and no caller
  sets a timeout;
- **staleness**: bookings are decided on, and take their owner from, a cached
  item; lists are cached by filter;
- **unfiltered bodies**: `createItem` and `updateProfile` store what the client
  sends, the flags and the id of an item and the role of an account included;
- **retries**: the attempt count lives only in a message header that retry,
  parking and replay pass on by hand.

What makes each component correct:

- *items*: a deleted item comes back only by a POST that carries its id, never
  by a late write; the owner's listing toggle and the system's loan lock never
  overwrite each other; only staff or somebody who has owned the id change what
  the owner controls, although check and write are two steps;
- *caches*: stale entries arise only in known ways and never last; one request
  at a time leaves none;
- *bookings*: statuses follow the transition table; dates tell the history; an
  item is locked only by an approval, or by the POST that created it, and
  released only by a return; no lock of a booking is left behind; no event is
  false, and every change is announced or reported;
- *notifications*: nothing is lost wherever the process dies, nothing is
  multiplied without a crash, the retry ladder has exactly its rungs, and every
  event settles;
- *limiter*: no more than twice the limit in any window; a counter is without a
  time to live only through a failure, and nobody is locked out without one;
- *accounts and tokens*: one account per address; a revoked token is refused
  once its logout is answered, as long as it lives; revocations and outdated
  roles run out.

`PROJECT.json` lists the hazards one by one, at the line where each bites, with
the properties that cover it.

## 2. Modules

| Module | Models | Builds on |
|---|---|---|
| `BookingState` | the transition table, the event and loan call of each status (constant-level) | |
| `BookingMachine` | abstract specification: what booking-service promises of each booking | `BookingState` |
| `Inventory` | items, single-item cache, all item handlers | |
| `BookingLoan` | booking-service, composed with `Inventory`, its channel, crashes | `Inventory`, `BookingState`, instance of `BookingMachine` |
| `ListCache` | list caches and their index, each Redis call a step | |
| `Delivery` | abstract specification: what the delivery of an event promises | |
| `Notifications` | consumer, retry ladder, parking queue, operators, crashes | instance of `Delivery` |
| `RateLimit` | the gateway's fixed-window counters, each Redis call a step | |
| `Sessions` | accounts, tokens and revocations: user-service with the gateway's token check | |
| `*Proofs` | theorems of the module of the same name | the module, `TLAPS` |
| `SerialProofs` | theorems of `BookingLoan` when clients send one request at a time | `BookingLoanProofs` |
| `CalmProofs` | theorems of `BookingLoan` when, besides, neither Redis nor the calls between the services fail | `SerialProofs` |
| `MC*` | what TLC needs besides (symmetry, constants that are functions) | the module |

### How a handler is modelled

Node runs one event loop per process. Between two awaits a handler is atomic;
at an await any other may run. So a handler is a record with a program counter
`pc`, which names the operation **it has sent and now waits for**, and each
action is the effect of that operation in its store together with all
synchronous code up to the next await. What the handler has read is kept in its
record, and later steps use that copy, not the store. Slots of handlers are
constants, so that "how many requests overlap" is a parameter.

Next to some definitions stands a mutant of it (`FindUnchecked` of `Find`,
`SavedWhole` of `Saved`, ...) whose comment says which bug it is. No action uses
one: they are there to show that each property can fail (section 3).

### Inventory

| Code (`inventory-service/src`) | Model |
|---|---|
| `items` collection, `itemModel.js` | `item[i]`: owner, descriptive data (one value), `isListed`, `isOnLoan`; or None |
| `createItem`: `Item.create({ ...req.body, ownerId })` | `CreateCall`, `CreateItem`: both flags and the id are the body's (or the schema's defaults and a new id, which are among them), the owner is the caller; a taken id is E11000, a 500 |
| `cacheService.getItem/setItem/invalidateItem` | `CacheGet`, `CacheSet`, `CacheDel` on `cache[i]`; `Expire` is the TTL |
| `getItemById` | cacheGet, dbGet, cacheSet, reply |
| `updateItem`, `setListing`, `deleteItem` | `Find` (with `assertCanManage` on the row read), `SaveItem` or `DeleteItem`, `CacheDel` |
| `document.save()` | `Saved`: writes the fields that differ from what was **read**, fails on a deleted document |
| `setLoanStatus` (`findByIdAndUpdate`) | `SetLoanStatus`: one atomic step, no earlier read |
| `isRedisReady`, try/catch around each Redis call | "redis" in `Faults`: a lookup misses, a write is skipped |
| commands queued while the client reconnects | no fairness for `CacheStep`: the handler may stay at that await for ever |
| MongoDB throws, or the process dies | `Abort`: the handler ends at any await, its caller sees an error |

`origin[i]` is a history variable: who has owned a row under the id, and whether
its row was posted on loan and has had no loan call since. It restricts no
action; `OnlyManagersWrite`, `LockOnlyByApproval`, `OwnerSnapshotGenuine` and
`NoPhantomLock` refer to it.

### BookingLoan

| Code (`booking-service/src`) | Model |
|---|---|
| `bookingModel.js` | `booking[b]`: item, borrower, owner snapshot, status, `stamps` (the set of dates set) |
| `createBooking` | `ArriveCreate` sends the item request; `ItemReceived` (owner, listed, not on loan); `CreateBooking`; `Publish` |
| `changeStatus` | `FindBooking` (404, 403, 400, in the code's order), `SaveBooking` (unconditional, on the earlier read), `SendLoan`, `LoanAnswered`, `Publish` |
| `inventoryClient.js` | a call occupies the `Inventory` slot of its request; any failure, a 404 included, is a 503 |
| `publisher.js` | `Publish`: "open" publishes; "closed" throws, a 500 |
| server restart | `Crash`: requests are forgotten, calls already sent are still served and answered into nothing (`DiscardOrphan`) |
| clients that call inventory-service themselves | slots `Direct` |

`Machine` instantiates `BookingMachine` with the status, and with the history
that the dates record. `FollowsTable` (the strict promise of the documentation)
holds when requests come one at a time; `FollowsSomePast` is what remains when
they overlap: every change follows the table from a status the booking **has
had**.

### ListCache

Reads of a filtered list or of an owner's list: `Lookup`, `Query`, `Store`.
`createItem` (`Insert`) and the other writes (`Write`), once in MongoDB: `Scan` (SMEMBERS of the index and DEL of the
owner's list, sent in one turn on one connection), `DelKeys`, `DelIndex`.
A write drops the own list of the owner it has read, and between its read and
its write the item may have been deleted and posted again by another user.
A row is its owner and whether it is available (listed and not on loan).
`Selects` is the filter of `listItems` (`available`), and `Registered` what
`setList`'s MULTI adds to the index. A list is the set of its rows; order, and
the filters by category and department, which select by data alone, are left
out. A Redis call that fails may still have had its effect. `outdated`,
`overlapped`, `misdirected` and `trouble` are history variables: they record how a cached list
was stored and restrict no action.

### Notifications

| Code (`notification-service/src`) | Model |
|---|---|
| `rabbitmqConfig.js` | queues `queue`, `retry`, `parking`; prefetch 1: one unacked delivery in `consumer`; `Routed`: unknown keys are dropped by the exchange |
| `consumer.js` | `Deliver` (poison recognised in the same turn), `Send` or `SendFails` for each awaited send, `RetryLater` or `Park`, `Ack` |
| `countPreviousAttempts` | `deaths`: the count of the retry queue in `x-death` |
| retry TTL and dead-lettering | `Expire`, head of the queue only |
| `dlqService.js` peek, replay, purge | `Request`, `Get`, `PutBack`, `Replay`, `AckReplayed`, `Purge` |
| process death, redelivery | `Crash`, then `Requeue` and `PutBack` of whatever was not acked |

Publish and ack are two steps, because the process can die between them.
`failed` (failures since the event was last fresh) and `notified` are history
variables for the properties.

`Mailbox` instantiates `Delivery`: an event is open there while the broker has a
copy of it anywhere, one that only waits for its ack included. So
`DeliversAtLeastOnce` implies `NothingLost` (which is proved, and needs
no run of its own) and says more: the last copy of an event goes
only when the event is notified or purged, no notification is sent of an event
that is gone, and no redelivery, replay or late ack brings one back.

### RateLimit

| Code (`api-gateway/src`) | Model |
|---|---|
| `rl:<prefix>:<identity>` | `counter[k]`: value and remaining life; `Max[k]` and `Window[k]` differ between `authRateLimit` and `userRateLimit` |
| `buildLimiter`, up to its first call | `Arrive` |
| INCR, and `count === 1` | `Incr`, `Opens` |
| EXPIRE | `Expire` |
| TTL, headers, `next()` or 429 | `Answer`; whether the request passes was decided by what INCR returned (`Admits`) |
| catch, `next()`; death of a gateway | `Fail`, after any of the calls |
| Redis drops a key | `Tick`, `Aged` |

`hits` (what was let through in the last 1, 2, ... ticks) and `cut` (counters whose opener failed
between INCR and EXPIRE) are history variables. Counts above the limit are all
refused alike, so `NextCount` stops one above it; this is the only bound. The
counter is shared by all processes of the gateway, and slots do not say which
process they belong to.

### Sessions

| Code (`user-service/src`, `api-gateway/src`) | Model |
|---|---|
| `userModel.js` | `users[i]`: address and role; `Unique` is the unique index |
| `register` | `FindAddress` (409 otherwise), `Insert` (E11000 is a 500), `Sign` |
| `login` | `FindAccount`, then `WrongPassword` or `Sign` with the role **read before** bcrypt's await |
| `generateToken` | `Signed`: account, role, `Life` seconds |
| `verifyJwt` | `Present` (expired: refused at once), then `Check` of `bl:jti:<jti>` or `CheckFails` |
| identity headers, `authMiddleware.js` | `Caller`: id and role are the token's, never the collection's |
| `changeRole`, `updateProfile`, anything else | `ChangeRole`, `UpdateMe`, `Use`; `UpdateMe` stores any address that is free and any role, one outside the enum (`OtherRole`) included, for the body goes into `$set` whole and no validators run |
| `logout`, `revoke` | `Logout` computes the key's life, `SetKey` or `RevokeFails` (only logged), `Reply` |
| `bootstrap-admin.js` | `BootstrapAdmin` |
| expiry of tokens and of keys | `Tick`: tokens end on a full second, keys at any of the `Grain` ticks in between |

`loggedOut` (logouts that were answered) and `lost` (revocations Redis did not
take), and the flag `late` of a request, are history variables. The two Redis and jwt clocks tick together; what is modelled
is that the handler cuts the time to full seconds and sends the key an await
later.

## 3. Runs

Each run is one question; its cfg names exactly the properties listed. Every
property of a passing run has a mutant in `PROJECT.json`: a one-definition change
of the modelled code, such as a plausible bug would make, under which TLC finds
that property violated.

| Run | Asks | Instance |
|---|---|---|
| `inventory` | `InventoryTypeOK`, `OnlyCreateRevives`, `FlagsIndependent`, `OnlyManagersWrite`, `StaleOnlyByRace`, `Converges` | 1 item, 2 users (one staff), 2 handlers, Redis failures and aborts, fairness |
| `booking_faults` | `TypeOK`, `StampsRecordHistory`, `EventsAreTrue`, `LockOnlyByApproval`, `UnlockOnlyByReturn`, refinement `FollowsSomePast` | 1 booking, 2 requests, an ADMIN, all five faults |
| `booking_serial` | `NoPhantomLock`, `CoherentWhenQuiet`, `OwnerSnapshotGenuine`, `CreatedOnlyWhenBookable`, refinement `FollowsTable` | 1 item, 2 data values, 2 bookings, 2 users, one client request at a time to either service, MongoDB failures |
| `booking_liveness` | `EveryRequestAnswered`, `EveryCallAnswered`, `EveryChangeAnnounced` | 1 booking, 2 requests, Redis failures and aborts in inventory-service, fairness |
| `lists` | `TypeOK`, `UnindexedOnlyByOverlap`, `StaleIsExplained`, `ListsConverge` | 1 item, 1 owner, filter `available=true`, 2 handlers, Redis failures and aborts, fairness |
| `notifications` | `TypeOK`, `DuplicatesNeedCrash`, `FullLadder`, refinement `DeliversAtLeastOnce`, `EventuallySettled` | an event with two sends, a poison one, 2 retries, 1 open admin request of limit 1 or 2, 1 crash, fairness |
| `rate_limit` | `TypeOK`, `WindowBurst`, `ImmortalOnlyByFailure`, `LostTtlStaysLost`, `NobodyLockedOut` | an address with limit 1 in 2 ticks, a user with limit 2 in 3, 2 requests, failures, fairness of time |
| `sessions` | `TypeOK`, `OneAccountPerAddress`, `RevokedStaysOut`, `RevocationsRunOut`, `StaleRolesRunOut` | 2 accounts, 2 addresses, roles STUDENT, ADMIN and one outside the enum, 1 token of one second (2 ticks), 2 requests, failures, fairness |
| `booking_overlap` | `TransitionsFollowTable`: **violated** | finding 1 |
| `booking_two_approvals` | `ApprovedItemIsLocked`: **violated** | finding 2 |
| `booking_broker` | `BrokerHiccupIsHarmless`: **violated** | finding 3 |
| `lists_index` | `EveryListIsFound`: **violated** | finding 4 |

Why the bounds are enough to be interesting. Every race in this code is between
two handlers on one document, key or queue, so two slots on one item or booking
contain each pair of steps in each order; a third party that matters is there
too (a loan call that outlived its request, a second booking of the item, an
operator beside the consumer, the crash). Two bookings are needed for the item
lock to have two claimants, and a second user for a deleted id to come back
under another owner. In `inventory` the descriptive data has one value: races of
the listing flag, the loan lock, deletion and creation are all there, those of
two different descriptions are in `booking_serial` one after the other and in
the theorems at once. A stale list that is there because a write dropped the
list of a former owner (`misdirected`) needs two owners; it is left to the
theorem `StalenessIsExplained`. So are two items, and bookings of two borrowers,
which share nothing but the item. Two retries make the ladder long enough for an
off-by-one to show on either side of its limit. Rows may be in MongoDB at the
start, so that old items need no run-up. The bounds in guards are `MaxInFlight`
(client requests at once) and `MaxCrashes`; the number of bookings, items and
handlers is a constant set. The proofs of section 5 have none of these bounds,
except that they are parameters.

In `rate_limit` two slots are the opener of a window and any one that comes
beside it, and windows of two and three ticks let hits fall on both sides of a
boundary and an EXPIRE come late. In `sessions` the second slot is the logout,
change of role or registration beside the first; one token can be presented by
both and can expire between any two steps, and two ticks to a second are enough
for a key's life to start off a full second. RESOURCE_MANAGER is left out
there: user-service never treats it otherwise than STUDENT.

Deadlock is checked in every run: a request, an expiry or a reply is always
possible. Symmetry is used in `booking_faults` and `booking_serial` only, over slots, bookings
and users without a role.

### Fairness

Weak fairness, and only of what the platform does by itself: the event loop
resumes a handler whose operation is complete (`StoreStep`, `RequestStep`,
`Respond`, `ConsumerStep`, `OperatorStep`, `LocalStep`), every operation of
MongoDB or RabbitMQ completes or fails, time passes (`Tick`), and Redis and
RabbitMQ expire what has a time to live. **No call to Redis has to settle**: while
a client reconnects, `isRedisReady` holds and its commands are queued (`test.md`,
section 7.1), so the steps that are Redis calls (`CacheStep`, `RedisStep`, all of
`RateLimit`) have no fairness in any module. Nothing is assumed of clients, of operators, or of failures: a send may
fail every time, a request may never come, a fault may or may not happen. In
particular `EventuallySettled` holds when no send ever succeeds and operators
replay for ever: each round trip goes through the parking queue.
`NobodyLockedOut` holds however many requests keep coming, for they do not
prolong a window; `StaleRolesRunOut` needs the clock and, for requests that are
under way, that calls to MongoDB complete. `Converges` and `ListsConverge` say
"when writing stops" and rest on expiry; they hold however many readers hang.
`EveryCallAnswered`, `EveryRequestAnswered` and `EveryChangeAnnounced` have the
hypothesis `RedisAnswers` (no handler of inventory-service hangs in a call to
Redis for good), for the HTTP client of booking-service has no timeout
(`inventoryClient.js`) and waits with it; what they then say is that a Redis call
that **fails**, a dying handler and every refusal end in an answer. Without the
hypothesis they are false of this code (section 4, "Redis down").

## 4. What the code does against its documentation

1. **Overlapping transitions** (`booking_overlap`). "Any transition not listed is
   rejected with a 400" (`README.md:837`). `changeStatus` checks the status it
   read and saves without a condition: of two overlapping requests both
   succeed, the second along an unlisted edge such as REJECTED to APPROVED.
2. **Two approvals** (`booking_two_approvals`). "`isOnLoan` set to `true` - item
   is locked" (`README.md:845`). Nothing asks whether the item is already on
   loan: two pending bookings of one item are approved one after the other,
   and the return of either unlocks the item while the other is approved. No
   overlap is needed.
3. **Broker** (`booking_broker`). "A broker hiccup won't fail a booking that has
   already been persisted" (`booking-service/README.md:191`). `publisher.js` tests
   only that a channel was once created; on one the broker has closed,
   `channel.publish` throws, and the stored booking is answered with a 500.
4. **List index** (`lists_index`). `cacheService` "registers every list key in a
   Redis set (`inv:list-index`) and deletes the lot on any write"
   (`README.md:729`). The set is deleted two awaits after it was read, with
   whatever was registered in between; that list is found by no later write
   and stays until its TTL.

Four more disagreements, which the models follow the code in and which have no
run of their own:

- **Redis down.** "Every call site fails open ... every endpoint keeps working"
  (`README.md:325`), "on Redis failure we fall through to Mongo"
  (`redisConfig.js:6`). `isRedisReady` is `client.isOpen`, which stays true while the
  client reconnects. A command sent then is queued and neither resolves nor
  rejects, so neither the miss nor the `catch` is reached and the request hangs,
  that of booking-service included. The repository's own `test.md` (section 7.1,
  lines 220-247, and line 294) has measured it; the gateway's limiter and token
  check and user-service's revocation share the guard. No Redis call has fairness
  in the models, and the answers that are promised have the hypothesis
  `RedisAnswers`.
- **Posted lock.** `isOnLoan` is "system-controlled: locked by an approved booking"
  (`itemModel.js:34`, `inventory-service/README.md:53`). `createItem` takes it from
  the body: an item can be created on loan, and then stays unbookable, as only
  the return of a booking would release it. `LockOnlyByApproval` and
  `NoPhantomLock` name this case (`lent`).
- **Roles.** "Only an `ADMIN` can change roles" (`README.md:606`,
  `user-service/README.md:128`). `updateProfile` stores the whole body of the
  request, the role included, in the caller's own account (`userController.js:31`,
  `userService.js:16-21`), also a role that the enum does not have. No property
  says who may hold a role; `UpdateMe` writes any.
- **Poison.** An unknown event is acked and a malformed one "discarded instead"
  (`notification-service/README.md:75-78`). The consumer parks both
  (`consumer.js:45-57`). `FullLadder` leaves such events out, and `EventuallySettled`
  says of them that they are parked or purged.

Smaller remarks. A deleted item's id can be posted again
by another user, who then owns the item that old bookings name:
`OwnerSnapshotGenuine` says what is left (the snapshot names somebody who has
owned it), and `OnlyManagersWrite` the same of a write whose check was made
before the id changed hands. A profile update may also write the password, as
it was sent and not hashed; the account can then no longer log in, which the
models cover by `WrongPassword`. "Writing first closes the window" (`README.md:719`) is true
of the window it describes and not of the other: a reader that fetched the row
before the write stores it after the invalidation. `StaleOnlyByRace` and
`StaleIsExplained` state exactly which windows are left. And the comment at
`cacheService.js:122` ("Also blow away every per-owner mine cache") stands over
no code: callers invalidate the one owner's list themselves, which the model
does, too.

"The cost of failing open is bounded and self-healing" (`README.md:979`) is
true of requests that pass and not of one that Redis fails, or whose gateway
dies, between INCR and EXPIRE: the counter it leaves has no time to live and,
as only a count of 1 sets one, never gets one; past the limit its client is
refused until somebody deletes the key. `LostTtlStaysLost` states and proves
this, `ImmortalOnlyByFailure` that nothing else leads there. `README.md:631`
describes the consequence ("lock the client out permanently") and the EXPIRE as
what prevents it. The `Retry-After` of such a refusal is -1.

"A duplicate registration is caught explicitly by the service and returned as a
409 rather than surfacing as a Mongo error" (`user-service/README.md:68`) is true
of one that starts after the first has ended. Of two that overlap, the second is
refused by the unique index and answered with a 500; `OneAccountPerAddress`
holds all the same. And "exactly when the token would have expired"
(`tokenBlacklistService.js:4`): the key may outlive its token by up to a second
and the delay of the SET. It never ends before it, which is what matters
(`RevokedStaysOut`).

## 5. Proofs

All theorems are proved for every value of the constants under the modules'
assumptions: None is none of the values it stands beside, slots of requests and
direct calls are disjoint, staff are users and administrators staff, `Owner` is
a function, the numeric limits are naturals, and the open admin requests
(`Operators`), which a bound counts, finitely many. Together the theorems state
every invariant and every action or refinement property of the passing runs.

**Inventory** (`InventoryProofs`). `InventoryInv` is inductive. The heart of it is
`Genuine`: every copy of a row, stored, in the cache or in the hands of a
handler, has an owner that a row stored under its id has had. It survives
deletion and a new POST of the id, because `origin` only grows. A handler about
to write has passed `assertCanManage` on such a copy, hence its actor is staff or
has owned the id. From it: `InventoryTypes`, `RevivedByCreate`,
`FlagsAreIndependent`, `ManagersOnly`, and `StalenessIsRacy`: of all the steps of
all handlers, only a write that still owes its invalidation, or a reader that
stores after one, makes a cached row differ from the stored one.

**BookingLoan** (`BookingLoanProofs`). `Inv` adds to `InventoryInv` what each
request holds at each await (`RequestOK`): what it is about to write, call or
publish is already true of the booking. For locks, a loan call, **its sender
alive or not**, was caused by the date of a booking of its item; this makes
`LockOnlyByApproval` and `UnlockOnlyByReturn` survive crashes. A lock that came
with a POST is told apart by `origin`, until the first loan call. The lemma
`GrowInv` says that all of this is stable when bookings are added or dated
further; `CreateBooking` and `SaveBooking` rest on it. From it: `Types`,
`HistoryIsRecorded`, `LocksAreApproved`, `UnlocksAreReturned`, `NoFalseEvent`,
`OwnersAreGenuine`, and the refinement `ImplementsLooseMachine`: initial states
map to initial states, creating and saving map to steps of `BookingMachine`,
everything else to stutters.

**One request at a time** (`SerialProofs`). Under `Serial` (`MaxInFlight = 1` and
finitely many slots) every request that passes the admission test finds nothing
in flight (`AdmittedAlone`), so any two handlers in flight are one (`Alone`), and
a request about to save still has the status before it that it checked
(`Ready`). With `Inv` this is inductive (`TableCorrect`), and gives
`SerialFollowsTable`: booking-service then implements the *strict* abstract
machine, the documented table, whatever fails and however often it restarts. The
run `booking_overlap` shows that `Serial` cannot be dropped.

**One request at a time, and calm** (`CalmProofs`). Under `Serial` and `Calm` (no
failure of Redis or of a call between the services, no crash; MongoDB under
booking-service and its broker may still fail) `CalmInv` is inductive. A call
always has the request that sent it waiting for it (`Attended`; crashes would
leave calls without one), so with `Alone` at most one handler is at work
(`OneBusy`). Hence what a read holds is the row as it is (`ReadsCurrent`), a stale
entry is about to be deleted by that one handler (`Fresh`), and a request about
to insert has an item that is bookable in MongoDB (`Bookable`). A lock was posted with its item, or has an
approved booking of it, or the one request in flight has just returned the
last one and has still to release it (`Lawful`, `Calls`). From it:
`SerialCacheCoherent`, `SerialLeavesNoPhantomLock` and
`SerialBooksAvailableItems`. The two hypotheses are those of the run
`booking_serial`; a Redis or loan call that fails does leave a stale entry, or a
lock behind.

**ListCache** (`ListCacheProofs`). `IndexInv` carries, beside
`UnindexedOnlyByOverlap`, the fact `Reached`: an invalidation past its scan still
has every indexed list to delete, except those stored beside it. From it
`OnlyOverlapUnindexes`; and `StaleIsExplained` is proved on top of it
(`StalenessIsExplained`), by showing for each step which of the four
explanations it provides or keeps (`InsertExplains`, `WriteExplains` and so on).

**Notifications** (`NotificationsProofs`). `Inv` states the shape of the copies in
each queue (what is routable, what has an original key to go back to) and, for
each published event, that some copy is *secured*: its next step leaves
another copy, or the event is delivered or purged. `NothingLost` alone is not
inductive, for it would count a copy that only waits for its ack.
From it: `Invariance`, `TypeCorrect` (no copy dies more than `MaxRetries` times),
`NothingIsLost`, for any number of events, operators and crashes.

Counting copies: `CountInv` adds to `Inv` that no unpublished event is in the
broker, and the bound of `DuplicatesNeedCrash`. Lemmas say what `Count` is
of each queue after an append, a push at the head and a pop (`CountAppend`,
`CountPush`, `CountPop`), and how the number of busy operators moves
(`BusyMove`). Then one lemma per action shows that it only moves copies
(`Moved`: no event has more copies, none is where it was not); publishing makes
the first copy, and a crash revives at most the copies whose ack was pending,
one of the consumer and one of each operator (`CrashCounts`). From it:
`DuplicatesOnlyByCrash`.

The ladder: `failed` is kept per event and `deaths` per copy, so they say the same
only while an event has one copy. `LadderInv` therefore stands on `CountInv`: as
long as nothing has crashed there is only one (`OnlyCopy`), and `Ladder` says for
each place a copy can be how many failures it is charged with. From it:
`LadderIsFull`. The refinement `ImplementsDelivery` goes step by step
(`StepMaps`): publishing, a send and a purge map to the abstract steps, and any
other step that ends the last copy of an event finds it settled, for `Inv`
has it delivered or secured (`CloseMaps`).

**RateLimit** (`RateLimitProofs`). `Inv` is `TypeOK`, `ImmortalOnlyByFailure` and
the key that each request holds; the proof rests on the fact that only INCR
makes a counter, that the one which does is followed by EXPIRE in the same
request, and that a count never falls back to 1 while the key exists. From it:
`LimiterTypes`, `FailuresAlone`, and `LostForGood`: what a lost EXPIRE leaves is
never mended by any request.

`WindowBurst` looks at one span and is far from inductive. `BurstInv` adds
`OneOpener` (a counter that waits for its EXPIRE has one request to send it) and
`TwoWindows`: spans that began within the open window have only the hits its
counter has admitted (`Passed`), and any longer one those and `Max` of one window
before. Two windows can meet in a span as long as a window, a third cannot,
because a window lasts at least its length: its time to live starts at an
EXPIRE, after the INCR that opened it. From it: `BurstIsTwice`, also when
EXPIREs are late or lost.

**Sessions** (`SessionsProofs`). The heart of `Inv` is `Covered(t)`: the ticks for
which the token still lives are at most those for which its key does, plus the
part of the current second that has gone by. It holds when the key is set,
although its life was computed any number of ticks earlier, because tokens only
age in the meantime; a tick keeps it, whether or not it ends a second. A logout
that has been answered leaves its token covered or `lost` (`LogoutsHold`), and a
key is only there for a token it covers (`KeysCover`), so that a second logout
cannot shorten it. From it: `SessionTypes`, `AddressesAreUnique`, `LogoutIsFinal`.

Only model-checked: liveness, which under fairness is out of the prover's reach
(`Converges`, `EveryRequestAnswered`, `EveryCallAnswered`, `EveryChangeAnnounced`,
`ListsConverge`, `EventuallySettled`, `NobodyLockedOut`, `RevocationsRunOut`,
`StaleRolesRunOut`), and the four violated statements, which are false. Nothing
is proved by induction over data: `Count` is the size of a set of places in a
queue, and not a recursive sum, so that the proofs about it rest on
cardinalities.

## 6. What is abstracted, and what is not modelled

- Bodies are modelled where the code stores them whole: `createItem` and
  `updateProfile` take every field that the models know of from the body.
  Validators are modelled where they decide what state a request can reach (an
  update never writes the two flags, `changeRole` only stores a role of the enum)
  and otherwise left out, as are the read-only routes, names and passwords.
- `hashFilters` is taken to give different filters different keys. That is so for
  the documented filters, which are strings; its list of keys
  (`cacheService.js:23`) drops those inside a nested query object, so two such
  queries could share an entry.
- A POST under a freed id finds the single-item entry of the old row if that has
  not been deleted yet; `createItem` does not touch it, and in the model it
  stays, too. `StaleOnlyByRace` covers how it can be there.
- Descriptive fields are one value; message texts, logs and headers that
  nothing reads are left out. Times are left out: delays, TTL lengths and
  backoff appear only as the order of what happens.
- A failed MongoDB call has no effect (`MongoFails`, `Abort` before the write);
  a write that took effect and whose answer was lost is, in inventory-service,
  an `Abort` at the next await, and in booking-service a `Crash`; an insert of
  `createItem` that fails so is not covered.
- The HTTP client sets no timeout, so a call may stay pending for ever with the
  Redis call it waits for. A process that hangs otherwise is not modelled:
  calls to MongoDB and RabbitMQ complete or fail. A broker connection lost with a
  delivery pending is covered by `Crash` (the delivery comes back); the channel
  staying closed without a restart is modelled for booking-service only.
- RabbitMQ is external: modelled from how the code uses it. It is taken to keep
  counting `x-death` across copies that carry the header along, and to requeue
  at the head of the queue. Redis serves one connection's commands in order,
  and is taken to keep what it stores: nothing is evicted or flushed.
- The gateway, user-service and Redis share one clock. `isRedisReady` is a
  choice made at each call, for the state of a connection can change at any
  await: a call to Redis answers, is skipped or fails, or never settles. Passwords
  are right or wrong by choice. A role in `Inventory` and
  `BookingLoan` is the one the request's token carries; what `Sessions` says of
  such roles is therefore the assumption of the other two.
- Not modelled: bootstrap and configuration, Express routing and health checks,
  message texts, the script that resets test data; `PROJECT.json` says why.

## 7. Plan

Done, in the order of importance: the booking lifecycle with the item it locks
(`BookingState`, `BookingMachine`, `Inventory`, `BookingLoan`), delivery of
events (`Delivery`, `Notifications`), list caches (`ListCache`), the limiter (`RateLimit`),
accounts and tokens (`Sessions`), each with its proofs. Limiter and tokens share
no key and are modules of their own: a request that the limiter turns away is
one `Use` of `Sessions`. Two tokens, or three requests, in one instance of
`Sessions` add only tokens that do not meet; the theorems cover them.

No safety property of a passing run is left without a theorem. What may still
be worth stating and proving: an abstract specification of the token check (a
session that is open until its logout or its end, with `Sessions` shown to
implement it), one of the limiter's windows, and one of the single-item cache
that bounds which rows a read may answer.
