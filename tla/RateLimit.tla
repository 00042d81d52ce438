----------------------------- MODULE RateLimit ------------------------------
(***************************************************************************)
(* The gateway's fixed-window limiter: one counter rl:<prefix>:<identity>  *)
(* in Redis for each address or user, shared by all gateway processes.     *)
(* A request in a slot r is suspended at the Redis call pc names:          *)
(*      incr -> expire -> ttl   if it opened the window,                   *)
(*      incr -> ttl             otherwise.                                 *)
(* A request that finds Redis not ready, or nothing to key on, passes      *)
(* without touching any state and is not seen here.                        *)
(***************************************************************************)
EXTENDS Naturals

CONSTANTS
  Keys,       \* addresses (authRateLimit) and users (userRateLimit)
  Max,        \* the requests each key may make in a window
  Window,     \* the length of that window, in ticks of the clock
  Requests,   \* the slots: how many requests can be in flight
  None        \* no key

ASSUME LimitsAssumption ==
  /\ Max \in [Keys -> Nat \ {0}]
  /\ Window \in [Keys -> Nat \ {0}]

ASSUME NoneAssumption == None \notin Keys

VARIABLES
  counter,    \* the value of each key and its time to live
  req,        \* the request in each slot
  cut,        \* history: keys whose opener ended before its EXPIRE
  hits        \* history: the hits within the limit in the last 1, 2, ... ticks

vars == <<counter, req, cut, hits>>

(* A time to live of 0 is none at all, a value of 0 is no key. *)
Forever == 0

NoKey == [n |-> 0, ttl |-> Forever]

Request == [pc : {"idle", "incr", "expire", "ttl"}, key : Keys \cup {None}]

IdleRequest == [pc |-> "idle", key |-> None]

At(r, pc) == req[r].pc = pc

Leave(r) == req' = [req EXCEPT ![r] = IdleRequest]

(* Mutant of Admits: the comparison is off by one. *)
AdmitsOneMore(k, n) == n <= Max[k] + 1

(* count > max is the refusal: a 429. *)
Admits(k, n) == n <= Max[k]

Init ==
  /\ counter = [k \in Keys |-> NoKey]
  /\ req = [r \in Requests |-> IdleRequest]
  /\ cut = {}
  /\ hits = [k \in Keys |-> [span \in 1..Window[k] |-> 0]]

-----------------------------------------------------------------------------
Arrive(r, k) ==
  /\ At(r, "idle")
  /\ req' = [req EXCEPT ![r] = [pc |-> "incr", key |-> k]]
  /\ UNCHANGED <<counter, cut, hits>>

(* Counts above max are not told apart. *)
NextCount(k) == IF counter[k].n > Max[k] THEN counter[k].n ELSE counter[k].n + 1

(* count is a constant of the handler, so what INCR returns decides. *)
Counted(k, n) ==
  hits' = IF Admits(k, n)
            THEN [hits EXCEPT ![k] = [span \in 1..Window[k] |-> hits[k][span] + 1]]
            ELSE hits

(* Mutant of Opens: every request gives its key a whole window again. *)
OpensAlways(k) == TRUE

(* Mutant of Opens: the first count is taken to be 0. *)
OpensNever(k) == NextCount(k) = 0

(* Mutant of Opens: so does whoever finds the key without a time to live. *)
OpensUnlimited(k) == counter[k].ttl = Forever

(* Whether INCR opens a window, and EXPIRE is to follow. *)
Opens(k) == NextCount(k) = 1

(* INCR keeps the time to live and creates a key without one. *)
Incr(r) ==
  /\ At(r, "incr")
  /\ LET k == req[r].key
     IN /\ counter' = [counter EXCEPT ![k].n = NextCount(k)]
        /\ req' = [req EXCEPT ![r].pc = IF Opens(k) THEN "expire" ELSE "ttl"]
        /\ Counted(k, NextCount(k))
  /\ UNCHANGED cut

(* Mutant of Expire: the key outlives the window by a tick. *)
ExpireLong(r) ==
  /\ At(r, "expire")
  /\ counter' = [counter EXCEPT ![req[r].key].ttl = Window[req[r].key] + 1]
  /\ req' = [req EXCEPT ![r].pc = "ttl"]
  /\ UNCHANGED <<cut, hits>>

Expire(r) ==
  /\ At(r, "expire")
  /\ counter' = [counter EXCEPT ![req[r].key].ttl = Window[req[r].key]]
  /\ req' = [req EXCEPT ![r].pc = "ttl"]
  /\ UNCHANGED <<cut, hits>>

(* TTL only fills the headers.  Then the request is proxied or refused. *)
Answer(r) ==
  /\ At(r, "ttl")
  /\ Leave(r)
  /\ UNCHANGED <<counter, cut, hits>>

(* A Redis call fails and the request passes, or its gateway dies.  A call *)
(* that took effect before its answer was lost is the call's own step,     *)
(* followed by this one.                                                   *)
Fail(r) ==
  /\ ~At(r, "idle")
  /\ Leave(r)
  /\ cut' = IF At(r, "expire") THEN cut \cup {req[r].key} ELSE cut
  /\ UNCHANGED <<counter, hits>>

(* Redis drops a key whose time is over. *)
Aged(c) ==
  CASE c.ttl = Forever -> c
    [] c.ttl = 1       -> NoKey
    [] OTHER           -> [c EXCEPT !.ttl = @ - 1]

Tick ==
  /\ counter' = [k \in Keys |-> Aged(counter[k])]
  /\ hits' = [k \in Keys |->
                [span \in 1..Window[k] |-> IF span = 1 THEN 0 ELSE hits[k][span - 1]]]
  /\ UNCHANGED <<req, cut>>

Step(r) == Incr(r) \/ Expire(r) \/ Answer(r)

Next ==
  \/ \E r \in Requests : Step(r) \/ Fail(r) \/ \E k \in Keys : Arrive(r, k)
  \/ Tick

Spec == Init /\ [][Next]_vars

(* Time passes.  Every step of a request is a call to Redis, which may     *)
(* never settle: while the client reconnects it queues its commands        *)
(* (test.md, section 7.1), and the request waits.                          *)
FairSpec == Spec /\ WF_vars(Tick)

-----------------------------------------------------------------------------
(* Counters stay between no key and one hit too many, with a time to live  *)
(* of at most a window.                                                    *)
TypeOK ==
  /\ counter \in [Keys -> [n : Nat, ttl : Nat]]
  /\ \A k \in Keys : counter[k].n <= Max[k] + 1 /\ counter[k].ttl <= Window[k]
  /\ req \in [Requests -> Request]
  /\ cut \subseteq Keys
  /\ DOMAIN hits = Keys
  /\ \A k \in Keys : hits[k] \in [1..Window[k] -> Nat]

(* "At window boundaries a client can burst up to 2x the limit"            *)
(* (rateLimitMiddleware.js:10), and never beyond: of the requests that     *)
(* Redis counts in any span as long as a window, however many gateways and *)
(* however late the EXPIRE, at most 2 max are let through.                 *)
WindowBurst == \A k \in Keys : hits[k][Window[k]] <= 2 * Max[k]

Opening(k) == \E r \in Requests : At(r, "expire") /\ req[r].key = k

Immortal(k) == counter[k].n > 0 /\ counter[k].ttl = Forever

(* INCR and EXPIRE are two calls (lines 35 and 37).  A counter is without  *)
(* a time to live only while the one request that opened its window is     *)
(* between the two, or after that request failed or died there.            *)
ImmortalOnlyByFailure ==
  \A k \in Keys : Immortal(k) => Opening(k) \/ k \in cut

(* What such a failure leaves is for good, because only the count 1 makes  *)
(* anyone set a time to live (line 36): the counter is never dropped and   *)
(* never given one, whatever its client does.                              *)
LostTtlStaysLost ==
  [][\A k \in Keys : Immortal(k) /\ ~Opening(k) => Immortal(k)' /\ ~Opening(k)']_vars

Full(k) == ~Admits(k, NextCount(k))

(* Without such a failure, or an EXPIRE that never settles, every refused  *)
(* client is let in again, time after time, however many of its requests   *)
(* keep coming in and however many of them hang.                           *)
NobodyLockedOut ==
  \A k \in Keys : <>(k \in cut) \/ <>[]Opening(k) \/ []<>~Full(k)
=============================================================================
