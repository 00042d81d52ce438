-------------------------- MODULE RateLimitProofs ---------------------------
(***************************************************************************)
(* Proofs about RateLimit, for any keys, limits, windows and requests.     *)
(***************************************************************************)
EXTENDS RateLimit, TLAPS

(* What a request holds at each await. *)
KeysHeld == \A r \in Requests : ~At(r, "idle") => req[r].key \in Keys

Inv == TypeOK /\ KeysHeld /\ ImmortalOnlyByFailure

Counter(k) == [n : 0..(Max[k] + 1), ttl : 0..Window[k]]

(* The next value of a counter is at least 1, at most one too many, and is *)
(* 1 exactly when there was no key.                                        *)
LEMMA NextCountType ==
  ASSUME TypeOK, NEW k \in Keys
  PROVE  /\ NextCount(k) \in 1..(Max[k] + 1)
         /\ NextCount(k) = 1 <=> counter[k].n = 0
BY LimitsAssumption DEF TypeOK, NextCount

(* Ageing keeps a counter within its bounds, leaves one without a time to  *)
(* live alone, and takes the time to live from none that it keeps.         *)
LEMMA AgedType ==
  ASSUME NEW k \in Keys, NEW c \in Counter(k)
  PROVE  /\ Aged(c) \in Counter(k)
         /\ c.ttl = Forever => Aged(c) = c
         /\ Aged(c).n > 0 /\ Aged(c).ttl = Forever => c = Aged(c)
BY LimitsAssumption DEF Counter, Aged, NoKey, Forever

(* Counting one hit more in every span. *)
LEMMA CountUp ==
  ASSUME NEW S, NEW f \in [S -> Nat]
  PROVE  [a \in S |-> f[a] + 1] \in [S -> Nat]
OBVIOUS

(* One request moves, the others are as they were. *)
LEMMA SetRequest ==
  ASSUME TypeOK, NEW r \in Requests, NEW c \in Request, req' = [req EXCEPT ![r] = c]
  PROVE  /\ req' \in [Requests -> Request] /\ req'[r] = c
         /\ \A q \in Requests : q # r => req'[q] = req[q]
BY DEF TypeOK

(* A request that moves on keeps its key. *)
LEMMA MoveRequest ==
  ASSUME TypeOK, KeysHeld, NEW r \in Requests, ~At(r, "idle"),
         NEW pc \in {"expire", "ttl"}, req' = [req EXCEPT ![r].pc = pc]
  PROVE  /\ req' \in [Requests -> Request] /\ KeysHeld'
         /\ req'[r].pc = pc /\ req'[r].key = req[r].key
         /\ \A q \in Requests : q # r => req'[q] = req[q]
<1> PICK c : c = [req[r] EXCEPT !.pc = pc]
  OBVIOUS
<1>1. req[r] \in Request
  BY DEF TypeOK
<1>2. c \in Request /\ c.pc = pc /\ c.key = req[r].key
  BY <1>1 DEF Request
<1>3. req' = [req EXCEPT ![r] = c]
  OBVIOUS
<1>4. /\ req' \in [Requests -> Request] /\ req'[r] = c
      /\ \A q \in Requests : q # r => req'[q] = req[q]
  BY <1>2, <1>3, SetRequest
<1> QED BY <1>2, <1>4 DEF KeysHeld, At

(* Leaving empties the slot. *)
LEMMA LeaveRequest ==
  ASSUME TypeOK, KeysHeld, NEW r \in Requests, Leave(r)
  PROVE  /\ req' \in [Requests -> Request] /\ KeysHeld'
         /\ req'[r].pc = "idle"
         /\ \A q \in Requests : q # r => req'[q] = req[q]
<1>1. IdleRequest \in Request /\ IdleRequest.pc = "idle"
  BY DEF IdleRequest, Request
<1>2. /\ req' \in [Requests -> Request] /\ req'[r] = IdleRequest
      /\ \A q \in Requests : q # r => req'[q] = req[q]
  BY <1>1, SetRequest DEF Leave
<1> QED BY <1>1, <1>2 DEF KeysHeld, At

(* The initial state satisfies the invariant. *)
LEMMA InitInv == Init => Inv
BY LimitsAssumption, NoneAssumption
DEF Init, Inv, TypeOK, Request, KeysHeld, ImmortalOnlyByFailure, Immortal, NoKey, Forever,
    IdleRequest, At

(* Types and keys survive every step. *)
LEMMA TypeStep ==
  ASSUME TypeOK, KeysHeld, [Next]_vars
  PROVE  TypeOK' /\ KeysHeld'
<1>1. ASSUME NEW r \in Requests, NEW k \in Keys, Arrive(r, k)
      PROVE  TypeOK' /\ KeysHeld'
  BY <1>1 DEF Arrive, TypeOK, Request, KeysHeld, At
<1>2. ASSUME NEW r \in Requests, Incr(r)
      PROVE  TypeOK' /\ KeysHeld'
  <2> DEFINE k == req[r].key
             n == NextCount(k)
  <2>1. k \in Keys
    BY <1>2 DEF KeysHeld, Incr, At
  <2>2. n \in 1..(Max[k] + 1)
    BY <2>1, NextCountType
  <2>3. /\ counter' = [counter EXCEPT ![k].n = n]
        /\ req' = [req EXCEPT ![r].pc = IF Opens(k) THEN "expire" ELSE "ttl"]
        /\ hits' = IF Admits(k, n)
                     THEN [hits EXCEPT ![k] = [span \in 1..Window[k] |-> hits[k][span] + 1]]
                     ELSE hits
        /\ cut' = cut
    BY <1>2 DEF Incr, Counted
  <2> HIDE DEF k, n
  <2>4. counter' \in [Keys -> [n : Nat, ttl : Nat]] /\ \A j \in Keys : counter'[j] \in Counter(j)
    BY <2>1, <2>2, <2>3, LimitsAssumption DEF TypeOK, Counter
  <2>5. DOMAIN hits' = Keys /\ \A j \in Keys : hits'[j] \in [1..Window[j] -> Nat]
    <3>1. hits[k] \in [1..Window[k] -> Nat]
      BY <2>1 DEF TypeOK
    <3>2. [span \in 1..Window[k] |-> hits[k][span] + 1] \in [1..Window[k] -> Nat]
      BY <3>1, CountUp
    <3> QED BY <2>1, <2>3, <3>2 DEF TypeOK
  <2>6. req' \in [Requests -> Request] /\ KeysHeld'
    BY <1>2, <2>3, MoveRequest DEF Incr, At
  <2> QED BY <2>3, <2>4, <2>5, <2>6 DEF TypeOK, Counter
<1>3. ASSUME NEW r \in Requests, Expire(r)
      PROVE  TypeOK' /\ KeysHeld'
  <2>1. req[r].key \in Keys /\ Window[req[r].key] \in Nat
    BY <1>3, LimitsAssumption DEF KeysHeld, Expire, At
  <2>2. counter' \in [Keys -> [n : Nat, ttl : Nat]] /\ \A j \in Keys : counter'[j] \in Counter(j)
    BY <1>3, <2>1 DEF Expire, TypeOK, Counter
  <2>3. req' \in [Requests -> Request] /\ KeysHeld'
    BY <1>3, MoveRequest DEF Expire, At
  <2> QED BY <1>3, <2>2, <2>3 DEF Expire, TypeOK, Counter
<1>4. ASSUME NEW r \in Requests, Answer(r) \/ Fail(r)
      PROVE  TypeOK' /\ KeysHeld'
  <2>1. req' \in [Requests -> Request] /\ KeysHeld'
    BY <1>4, LeaveRequest DEF Answer, Fail
  <2>2. cut' \subseteq Keys
    BY <1>4 DEF Answer, Fail, TypeOK, KeysHeld, At
  <2> QED BY <1>4, <2>1, <2>2 DEF Answer, Fail, TypeOK
<1>5. ASSUME Tick
      PROVE  TypeOK' /\ KeysHeld'
  <2>1. /\ counter' \in [Keys -> [n : Nat, ttl : Nat]]
        /\ \A k \in Keys : counter'[k] \in Counter(k)
    <3>1. ASSUME NEW k \in Keys PROVE Aged(counter[k]) \in Counter(k)
      BY AgedType DEF TypeOK, Counter
    <3>2. \A k \in Keys : Counter(k) \subseteq [n : Nat, ttl : Nat]
      BY LimitsAssumption DEF Counter
    <3> QED BY <1>5, <3>1, <3>2 DEF Tick
  <2>2. \A k \in Keys : hits'[k] \in [1..Window[k] -> Nat]
    <3> SUFFICES ASSUME NEW k \in Keys PROVE hits'[k] \in [1..Window[k] -> Nat]
      OBVIOUS
    <3>1. Window[k] \in Nat /\ hits[k] \in [1..Window[k] -> Nat]
      BY LimitsAssumption DEF TypeOK
    <3>2. \A span \in 1..Window[k] : span # 1 => hits[k][span - 1] \in Nat
      BY <3>1
    <3>3. hits'[k] = [span \in 1..Window[k] |-> IF span = 1 THEN 0 ELSE hits[k][span - 1]]
      BY <1>5 DEF Tick
    <3> QED BY <3>2, <3>3
  <2> QED BY <1>5, <2>1, <2>2 DEF Tick, TypeOK, KeysHeld, At, Counter
<1>6. CASE UNCHANGED vars
  BY <1>6 DEF vars, TypeOK, KeysHeld, At
<1> QED BY <1>1, <1>2, <1>3, <1>4, <1>5, <1>6 DEF Next, Step

(* A counter loses its time to live by no step but the one that creates    *)
(* it, and its opener leaves only by giving it one or by failing.          *)
LEMMA ImmortalStep ==
  ASSUME Inv, [Next]_vars
  PROVE  ImmortalOnlyByFailure'
<1> SUFFICES ASSUME NEW k \in Keys, Immortal(k)'
             PROVE  Opening(k)' \/ k \in cut'
  BY DEF ImmortalOnlyByFailure
<1> USE DEF Immortal, Opening, At
<1>0. /\ TypeOK /\ counter[k] \in Counter(k)
      /\ Immortal(k) => Opening(k) \/ k \in cut
  BY DEF Inv, TypeOK, ImmortalOnlyByFailure, Counter
<1>1. ASSUME NEW r \in Requests, NEW j \in Keys, Arrive(r, j)
      PROVE  Opening(k)' \/ k \in cut'
  BY <1>0, <1>1 DEF Arrive, TypeOK
<1>2. ASSUME NEW r \in Requests, Incr(r)
      PROVE  Opening(k)' \/ k \in cut'
  <2>1. CASE req[r].key = k /\ counter[k].n = 0
    BY <1>0, <1>2, <2>1, NextCountType DEF Incr, Opens, TypeOK
  <2>2. CASE ~(req[r].key = k /\ counter[k].n = 0)
    <3>1. Immortal(k)
      BY <1>0, <1>2, <2>2 DEF Incr, TypeOK, Counter
    <3> QED BY <1>0, <1>2, <3>1 DEF Incr, TypeOK
  <2> QED BY <2>1, <2>2
<1>3. ASSUME NEW r \in Requests, Expire(r)
      PROVE  Opening(k)' \/ k \in cut'
  <2>1. req[r].key # k
    <3>1. req[r].key = k => counter'[k].ttl = Window[k]
      BY <1>0, <1>3 DEF Expire, TypeOK
    <3>2. counter'[k].ttl = Forever
      OBVIOUS
    <3> QED BY <3>1, <3>2, LimitsAssumption DEF Forever
  <2> QED BY <1>0, <1>3, <2>1 DEF Expire, TypeOK
<1>4. ASSUME NEW r \in Requests, Answer(r) \/ Fail(r)
      PROVE  Opening(k)' \/ k \in cut'
  BY <1>0, <1>4, LeaveRequest DEF Answer, Fail, Inv
<1>5. ASSUME Tick
      PROVE  Opening(k)' \/ k \in cut'
  BY <1>0, <1>5, AgedType DEF Tick
<1>6. CASE UNCHANGED vars
  BY <1>0, <1>6 DEF vars
<1> QED BY <1>1, <1>2, <1>3, <1>4, <1>5, <1>6 DEF Next, Step

(* The inductive invariant. *)
THEOREM LimiterInvariant == Spec => []Inv
<1>1. Inv /\ [Next]_vars => Inv'
  BY TypeStep, ImmortalStep DEF Inv
<1> QED BY InitInv, <1>1, PTL DEF Spec

(* Type correctness: no counter exceeds its limit by more than the one     *)
(* that stands for all refusals, and no time to live its window.           *)
THEOREM LimiterTypes == Spec => []TypeOK
<1>1. Inv => TypeOK
  BY DEF Inv
<1> QED BY LimiterInvariant, <1>1, PTL

(* Only a failure between INCR and EXPIRE leaves a counter that never ends. *)
THEOREM FailuresAlone == Spec => []ImmortalOnlyByFailure
<1>1. Inv => ImmortalOnlyByFailure
  BY DEF Inv
<1> QED BY LimiterInvariant, <1>1, PTL

(* A counter that has lost its time to live stays, whatever comes. *)
THEOREM LostForGood == Spec => LostTtlStaysLost
<1>1. ASSUME Inv, [Next]_vars, NEW k \in Keys, Immortal(k), ~Opening(k)
      PROVE  Immortal(k)' /\ ~Opening(k)'
  <2> USE DEF Immortal, Opening, At
  <2>0. TypeOK /\ counter[k] \in Counter(k)
    BY <1>1 DEF Inv, TypeOK, Counter
  <2>1. ASSUME NEW r \in Requests, NEW j \in Keys, Arrive(r, j)
        PROVE  Immortal(k)' /\ ~Opening(k)'
    BY <1>1, <2>0, <2>1 DEF Arrive, TypeOK
  <2>2. ASSUME NEW r \in Requests, Incr(r)
        PROVE  Immortal(k)' /\ ~Opening(k)'
    <3>1. NextCount(k) \in Nat /\ NextCount(k) > 1
      BY <1>1, <2>0, NextCountType, LimitsAssumption DEF Counter
    <3> QED BY <1>1, <2>0, <2>2, <3>1 DEF Incr, Opens, TypeOK, Counter
  <2>3. ASSUME NEW r \in Requests, Expire(r)
        PROVE  Immortal(k)' /\ ~Opening(k)'
    BY <1>1, <2>0, <2>3 DEF Expire, TypeOK
  <2>4. ASSUME NEW r \in Requests, Answer(r) \/ Fail(r)
        PROVE  Immortal(k)' /\ ~Opening(k)'
    BY <1>1, <2>0, <2>4, LeaveRequest DEF Answer, Fail, Inv
  <2>5. ASSUME Tick
        PROVE  Immortal(k)' /\ ~Opening(k)'
    BY <1>1, <2>0, <2>5, AgedType DEF Tick
  <2>6. CASE UNCHANGED vars
    BY <1>1, <2>6 DEF vars
  <2> QED BY <1>1, <2>1, <2>2, <2>3, <2>4, <2>5, <2>6 DEF Next, Step
<1>2. Inv /\ [Next]_vars =>
        [\A k \in Keys : Immortal(k) /\ ~Opening(k) => Immortal(k)' /\ ~Opening(k)']_vars
  BY <1>1
<1> QED BY LimiterInvariant, <1>2, PTL DEF Spec, LostTtlStaysLost

-----------------------------------------------------------------------------
(* Two windows can meet in one span, and no third, because a window is     *)
(* open for at least its length: the time to live counts from an EXPIRE    *)
(* that comes after the INCR.                                              *)

(* A window that is yet to get its time to live has one opener, and a key  *)
(* that is gone has no time to live.                                       *)
OneOpener ==
  /\ \A r \in Requests : At(r, "expire") =>
       /\ counter[req[r].key].n > 0 /\ counter[req[r].key].ttl = Forever
       /\ \A q \in Requests : At(q, "expire") /\ req[q].key = req[r].key => q = r
  /\ \A k \in Keys : counter[k].n = 0 => counter[k].ttl = Forever

(* The hits that the open window of k has let through. *)
Passed(k) == IF Admits(k, counter[k].n) THEN counter[k].n ELSE Max[k]

(* Without a window the hits of any span are those of one window that is   *)
(* over, and none is of this tick.  In a window that opened `since` ticks  *)
(* ago, a span that began in it has only its hits, and any other has those *)
(* of one window before at most.                                           *)
TwoWindows(k) ==
  IF counter[k].n = 0
  THEN hits[k][1] = 0 /\ \A span \in 1..Window[k] : hits[k][span] <= Max[k]
  ELSE \E since \in Nat :
         /\ counter[k].ttl # Forever => since + counter[k].ttl >= Window[k]
         /\ \A span \in 1..Window[k] :
              /\ hits[k][span] <= Passed(k) + Max[k]
              /\ span <= since + 1 => hits[k][span] <= Passed(k)

BurstInv == Inv /\ OneOpener /\ \A k \in Keys : TwoWindows(k)

(* Only an INCR that finds no key makes an opener, and only its own EXPIRE *)
(* gives the key a time to live.                                           *)
LEMMA OpenerStep ==
  ASSUME BurstInv, [Next]_vars PROVE OneOpener'
<1> USE DEF At
<1>0. TypeOK /\ KeysHeld /\ OneOpener /\ \A k \in Keys : counter[k] \in Counter(k)
  BY DEF BurstInv, Inv, TypeOK, Counter
<1>1. ASSUME NEW r \in Requests, NEW k \in Keys, Arrive(r, k) PROVE OneOpener'
  BY <1>0, <1>1 DEF Arrive, OneOpener, TypeOK
<1>2. ASSUME NEW r \in Requests, Incr(r) PROVE OneOpener'
  <2> DEFINE k == req[r].key
             n == NextCount(k)
             pc == IF Opens(k) THEN "expire" ELSE "ttl"
  <2>1. k \in Keys /\ n \in 1..(Max[k] + 1) /\ (Opens(k) <=> counter[k].n = 0)
    BY <1>0, <1>2, NextCountType DEF KeysHeld, Incr, Opens
  <2>2. counter' = [counter EXCEPT ![k].n = n] /\ req' = [req EXCEPT ![r].pc = pc]
    BY <1>2 DEF Incr
  <2>3. /\ req'[r].pc = pc /\ req'[r].key = k
        /\ \A q \in Requests : q # r => req'[q] = req[q]
    BY <1>0, <1>2, <2>2, MoveRequest DEF Incr
  <2>4. /\ counter'[k].n = n /\ counter'[k].ttl = counter[k].ttl
        /\ \A j \in Keys : j # k => counter'[j] = counter[j]
    BY <1>0, <2>1, <2>2 DEF TypeOK
  <2>5. n > 0 /\ n # 0
    BY <2>1, LimitsAssumption
  <2> HIDE DEF k, n, pc
  <2>6. \A j \in Keys : counter'[j].n = 0 => counter'[j].ttl = Forever
    BY <1>0, <2>1, <2>4, <2>5 DEF OneOpener
  <2>7. ASSUME NEW q \in Requests, req'[q].pc = "expire"
        PROVE  /\ counter'[req'[q].key].n > 0 /\ counter'[req'[q].key].ttl = Forever
               /\ \A p \in Requests : req'[p].pc = "expire" /\ req'[p].key = req'[q].key => p = q
    <3>1. req'[q].key \in Keys
      BY <1>0, <2>3, <2>1, <2>7 DEF KeysHeld
    <3>2. CASE q = r
      <4>1. counter[k].n = 0 /\ counter[k].ttl = Forever
        BY <1>0, <2>1, <2>3, <2>7, <3>2 DEF OneOpener, pc
      <4>2. \A p \in Requests : p # r => ~(req'[p].pc = "expire" /\ req'[p].key = k)
        BY <1>0, <2>3, <4>1 DEF OneOpener
      <4> QED
        BY <2>3, <2>4, <2>5, <3>2, <4>1, <4>2
    <3>3. CASE q # r
      <4>1. counter[req[q].key].n > 0 /\ counter[req[q].key].ttl = Forever
        BY <1>0, <2>3, <2>7, <3>3 DEF OneOpener
      <4>2. ~(pc = "expire" /\ req[q].key = k)
        BY <1>0, <2>1, <4>1 DEF pc
      <4> QED
        BY <1>0, <2>3, <2>4, <2>5, <2>7, <3>1, <3>3, <4>1, <4>2 DEF OneOpener
    <3> QED
      BY <3>2, <3>3
  <2> QED
    BY <2>6, <2>7 DEF OneOpener
<1>3. ASSUME NEW r \in Requests, Expire(r) PROVE OneOpener'
  <2> DEFINE k == req[r].key
  <2>1. k \in Keys /\ counter[k].n > 0
    BY <1>0, <1>3 DEF KeysHeld, Expire, OneOpener
  <2>2. /\ req'[r].pc = "ttl" /\ \A q \in Requests : q # r => req'[q] = req[q]
    BY <1>0, <1>3, MoveRequest DEF Expire
  <2>3. counter'[k].n = counter[k].n /\ \A j \in Keys : j # k => counter'[j] = counter[j]
    BY <1>0, <1>3, <2>1 DEF Expire, TypeOK
  <2>4. \A q \in Requests : req'[q].pc = "expire" => q # r /\ req[q].key # k
    BY <1>0, <1>3, <2>2 DEF OneOpener, Expire
  <2> HIDE DEF k
  <2> QED
    BY <1>0, <2>1, <2>2, <2>3, <2>4 DEF OneOpener, KeysHeld
<1>4. ASSUME NEW r \in Requests, Answer(r) \/ Fail(r) PROVE OneOpener'
  BY <1>0, <1>4, LeaveRequest DEF Answer, Fail, OneOpener
<1>5. ASSUME Tick PROVE OneOpener'
  <2>1. \A k \in Keys : counter'[k] = Aged(counter[k])
    BY <1>5 DEF Tick
  <2>2. \A k \in Keys : counter[k].ttl = Forever => counter'[k] = counter[k]
    BY <1>0, <2>1, AgedType
  <2>3. \A k \in Keys : counter'[k].n = 0 => counter'[k].ttl = Forever
    <3> SUFFICES ASSUME NEW k \in Keys, counter'[k].n = 0 PROVE counter'[k].ttl = Forever
      OBVIOUS
    <3> PICK c \in Counter(k) : c = counter[k]
      BY <1>0
    <3>1. c.n = 0 => c.ttl = Forever
      BY <1>0 DEF OneOpener
    <3>2. counter'[k] = Aged(c)
      BY <2>1
    <3>3. CASE c.ttl = Forever
      BY <3>2, <3>3 DEF Aged, Forever
    <3>4. CASE c.ttl = 1
      BY <3>2, <3>4 DEF Aged, NoKey, Forever
    <3>5. CASE c.ttl # Forever /\ c.ttl # 1
      <4>1. counter'[k] = [c EXCEPT !.ttl = c.ttl - 1]
        BY <3>2, <3>5 DEF Aged
      <4>2. counter'[k].n = c.n
        BY <4>1 DEF Counter
      <4> QED
        BY <3>1, <3>5, <4>2
    <3> QED
      BY <3>3, <3>4, <3>5
  <2> QED
    BY <1>0, <1>5, <2>2, <2>3 DEF OneOpener, KeysHeld, Tick
<1>6. CASE UNCHANGED vars
  BY <1>0, <1>6 DEF vars, OneOpener
<1> QED
  BY <1>1, <1>2, <1>3, <1>4, <1>5, <1>6 DEF Next, Step

(* A hit that is let through is one more in every span and one more of the *)
(* window that is open, or opens with it.                                  *)
LEMMA HitStep ==
  ASSUME BurstInv, NEW r \in Requests, Incr(r), NEW k \in Keys PROVE TwoWindows(k)'
<1> DEFINE n == NextCount(k)
<1>0. /\ TypeOK /\ TwoWindows(k) /\ counter[k] \in Counter(k) /\ Max[k] \in Nat \ {0}
      /\ Window[k] \in Nat \ {0} /\ hits[k] \in [1..Window[k] -> Nat]
      /\ counter[k].n = 0 => counter[k].ttl = Forever
  BY LimitsAssumption DEF BurstInv, Inv, TypeOK, Counter, OneOpener
<1>1. CASE req[r].key # k
  <2>1. counter'[k] = counter[k] /\ hits'[k] = hits[k]
    BY <1>0, <1>1 DEF Incr, Counted, TypeOK
  <2> QED
    BY <1>0, <2>1 DEF TwoWindows, Passed
<1>2. CASE req[r].key = k
  <2>1. n \in 1..(Max[k] + 1) /\ (n = 1 <=> counter[k].n = 0)
    BY <1>0, NextCountType
  <2>2. counter'[k].n = n /\ counter'[k].ttl = counter[k].ttl
    BY <1>0, <1>2 DEF Incr, TypeOK
  <2>3. hits'[k] = IF n <= Max[k] THEN [span \in 1..Window[k] |-> hits[k][span] + 1] ELSE hits[k]
    BY <1>0, <1>2 DEF Incr, Counted, Admits, TypeOK
  <2>4. n = 1 \/ n = counter[k].n + 1 \/ (n = counter[k].n /\ n > Max[k])
    BY <1>0 DEF NextCount
  <2>5. \A span \in 1..Window[k] : hits[k][span] \in Nat
    BY <1>0
  <2>6. counter[k].n \in Nat
    BY <1>0 DEF Counter
  <2> HIDE DEF n
  <2>7. CASE counter[k].n = 0
    <3>1. n = 1 /\ Passed(k)' = 1
      BY <1>0, <2>1, <2>2, <2>7 DEF Passed, Admits
    <3>2. \A span \in 1..Window[k] : hits'[k][span] = hits[k][span] + 1
      BY <1>0, <2>3, <3>1
    <3>3. hits[k][1] = 0 /\ \A span \in 1..Window[k] : hits[k][span] <= Max[k]
      BY <1>0, <2>7 DEF TwoWindows
    <3>4. \A span \in 1..Window[k] : /\ hits'[k][span] <= 1 + Max[k]
                                     /\ span <= 0 + 1 => hits'[k][span] <= 1
      BY <1>0, <2>5, <3>2, <3>3
    <3>5. counter'[k].ttl = Forever /\ counter'[k].n # 0
      BY <1>0, <2>2, <2>7, <3>1
    <3> QED
      BY <3>1, <3>4, <3>5 DEF TwoWindows
  <2>8. CASE counter[k].n # 0
    <3>1. PICK since \in Nat :
            /\ counter[k].ttl # Forever => since + counter[k].ttl >= Window[k]
            /\ \A span \in 1..Window[k] :
                 /\ hits[k][span] <= Passed(k) + Max[k]
                 /\ span <= since + 1 => hits[k][span] <= Passed(k)
      BY <1>0, <2>8 DEF TwoWindows
    <3>2. Passed(k) \in Nat /\ Passed(k)' \in Nat
      BY <1>0, <2>1, <2>2, <2>6 DEF Passed
    <3>3. IF n <= Max[k] THEN Passed(k)' = Passed(k) + 1 ELSE Passed(k)' >= Passed(k)
      BY <1>0, <2>1, <2>2, <2>4, <2>6, <2>8 DEF Passed, Admits
    <3>4. \A span \in 1..Window[k] :
            hits'[k][span] = IF n <= Max[k] THEN hits[k][span] + 1 ELSE hits[k][span]
      BY <2>3
    <3>5. \A span \in 1..Window[k] :
            /\ hits'[k][span] <= Passed(k)' + Max[k]
            /\ span <= since + 1 => hits'[k][span] <= Passed(k)'
      <4> TAKE span \in 1..Window[k]
      <4>1. /\ hits[k][span] <= Passed(k) + Max[k]
            /\ span <= since + 1 => hits[k][span] <= Passed(k)
        BY <3>1
      <4>2. Max[k] \in Nat /\ hits[k][span] \in Nat
        BY <1>0, <2>5
      <4>3. CASE n <= Max[k]
        <5>1. hits'[k][span] = hits[k][span] + 1 /\ Passed(k)' = Passed(k) + 1
          BY <3>3, <3>4, <4>3
        <5> QED BY <3>2, <4>1, <4>2, <5>1
      <4>4. CASE ~(n <= Max[k])
        <5>1. hits'[k][span] = hits[k][span] /\ Passed(k)' >= Passed(k)
          BY <3>3, <3>4, <4>4
        <5> QED BY <3>2, <4>1, <4>2, <5>1
      <4> QED BY <4>3, <4>4
    <3>6. counter'[k].n # 0
      BY <2>1, <2>2, <1>0
    <3> QED
      BY <2>2, <3>1, <3>5, <3>6 DEF TwoWindows
  <2> QED
    BY <2>7, <2>8
<1> QED
  BY <1>1, <1>2

(* A tick makes every span one longer, so the hits of the window stay in   *)
(* those that began in it; when it ends, every span that counts did.       *)
LEMMA TickStep ==
  ASSUME BurstInv, Tick, NEW k \in Keys PROVE TwoWindows(k)'
<1>0. /\ TypeOK /\ TwoWindows(k) /\ counter[k] \in Counter(k) /\ Max[k] \in Nat \ {0}
      /\ Window[k] \in Nat \ {0} /\ hits[k] \in [1..Window[k] -> Nat]
  BY LimitsAssumption DEF BurstInv, Inv, TypeOK, Counter
<1>1. /\ counter'[k] = Aged(counter[k])
      /\ hits'[k] = [span \in 1..Window[k] |-> IF span = 1 THEN 0 ELSE hits[k][span - 1]]
  BY DEF Tick
<1>2. /\ hits'[k][1] = 0
      /\ \A span \in 1..Window[k] : span # 1 =>
           span - 1 \in 1..Window[k] /\ hits'[k][span] = hits[k][span - 1]
  BY <1>0, <1>1
<1>3. \A span \in 1..Window[k] : hits[k][span] \in Nat
  BY <1>0
<1>4. counter[k].n \in Nat /\ counter[k].ttl \in Nat /\ Passed(k) \in Nat /\ Passed(k) <= Max[k]
  BY <1>0 DEF Counter, Passed, Admits
<1>5. CASE counter[k].n = 0
  <2>1. counter'[k].n = 0
    BY <1>0, <1>1, <1>5 DEF Aged, NoKey, Counter
  <2>2. \A span \in 1..Window[k] : hits[k][span] <= Max[k]
    BY <1>0, <1>5 DEF TwoWindows
  <2> QED
    BY <1>0, <1>2, <2>1, <2>2 DEF TwoWindows
<1>6. CASE counter[k].n # 0
  <2>1. PICK since \in Nat :
          /\ counter[k].ttl # Forever => since + counter[k].ttl >= Window[k]
          /\ \A span \in 1..Window[k] :
               /\ hits[k][span] <= Passed(k) + Max[k]
               /\ span <= since + 1 => hits[k][span] <= Passed(k)
    BY <1>0, <1>6 DEF TwoWindows
  <2>2. CASE counter[k].ttl = 1
    <3>1. counter'[k].n = 0
      BY <1>1, <2>2 DEF Aged, NoKey, Forever
    <3>2. \A span \in 1..Window[k] : hits[k][span] <= Max[k]
      BY <1>0, <1>3, <1>4, <2>1, <2>2 DEF Forever
    <3> QED
      BY <1>0, <1>2, <3>1, <3>2 DEF TwoWindows
  <2>3. CASE counter[k].ttl # 1
    <3>1. /\ counter'[k].n = counter[k].n /\ Passed(k)' = Passed(k)
          /\ counter'[k].ttl = IF counter[k].ttl = Forever THEN Forever ELSE counter[k].ttl - 1
      BY <1>0, <1>1, <2>3 DEF Aged, Counter, Passed
    <3> DEFINE later == since + 1
    <3>2. later \in Nat /\ (counter'[k].ttl # Forever => later + counter'[k].ttl >= Window[k])
      BY <1>0, <1>4, <2>1, <3>1 DEF Forever
    <3>3. \A span \in 1..Window[k] :
            /\ hits'[k][span] <= Passed(k) + Max[k]
            /\ span <= later + 1 => hits'[k][span] <= Passed(k)
      <4> SUFFICES ASSUME NEW span \in 1..Window[k]
                   PROVE  /\ hits'[k][span] <= Passed(k) + Max[k]
                          /\ span <= later + 1 => hits'[k][span] <= Passed(k)
        OBVIOUS
      <4>1. CASE span = 1
        BY <1>0, <1>2, <1>4, <4>1
      <4>2. CASE span # 1
        BY <1>0, <1>2, <1>3, <1>4, <2>1, <4>2
      <4> QED
        BY <4>1, <4>2
    <3> HIDE DEF later
    <3> QED
      BY <1>6, <3>1, <3>2, <3>3 DEF TwoWindows
  <2> QED
    BY <2>2, <2>3
<1> QED
  BY <1>5, <1>6

(* The other steps count no hit; an EXPIRE gives the window its whole      *)
(* length again, however late it comes.                                    *)
LEMMA BurstStep ==
  ASSUME BurstInv, [Next]_vars PROVE BurstInv'
<1>1. Inv' /\ OneOpener'
  BY TypeStep, ImmortalStep, OpenerStep DEF BurstInv, Inv
<1>2. ASSUME NEW k \in Keys PROVE TwoWindows(k)'
  <2>0. TypeOK /\ TwoWindows(k)
    BY DEF BurstInv, Inv
  <2>1. CASE \E r \in Requests : Incr(r)
    BY <2>1, HitStep
  <2>2. CASE Tick
    BY <2>2, TickStep
  <2>3. CASE counter'[k] = counter[k] /\ hits' = hits
    BY <2>0, <2>3 DEF TwoWindows, Passed
  <2>4. ASSUME NEW r \in Requests, Expire(r) PROVE TwoWindows(k)'
    <3>1. CASE req[r].key # k
      BY <2>3, <2>4, <3>1 DEF Expire
    <3>2. CASE req[r].key = k
      <4>1. /\ counter'[k].n = counter[k].n /\ counter'[k].ttl = Window[k] /\ hits' = hits
            /\ counter[k].n # 0 /\ Passed(k)' = Passed(k)
        BY <2>0, <2>4, <3>2 DEF Expire, TypeOK, Passed, BurstInv, OneOpener, At
      <4>2. \A since \in Nat : since + Window[k] >= Window[k]
        BY LimitsAssumption
      <4> QED
        BY <2>0, <4>1, <4>2 DEF TwoWindows
    <3> QED
      BY <3>1, <3>2
  <2> QED
    BY <2>1, <2>2, <2>3, <2>4 DEF Next, Step, Arrive, Answer, Fail, vars
<1> QED
  BY <1>1, <1>2 DEF BurstInv

LEMMA BurstCorrect == Spec => []BurstInv
<1>1. Init => BurstInv
  BY InitInv, LimitsAssumption
  DEF Init, BurstInv, OneOpener, TwoWindows, At, IdleRequest, NoKey, Forever
<1> QED
  BY <1>1, BurstStep, PTL DEF Spec

(* "At window boundaries a client can burst up to 2x the limit"            *)
(* (rateLimitMiddleware.js:10), and no further: for every limit and window *)
(* and however many requests and gateways count at once, fail between the  *)
(* INCR and the EXPIRE (line 37) or send it late.                          *)
THEOREM BurstIsTwice == Spec => []WindowBurst
<1>1. BurstInv => WindowBurst
  <2> SUFFICES ASSUME BurstInv, NEW k \in Keys PROVE hits[k][Window[k]] <= 2 * Max[k]
    BY DEF WindowBurst
  <2>1. /\ Max[k] \in Nat /\ Window[k] \in 1..Window[k] /\ hits[k] \in [1..Window[k] -> Nat]
        /\ counter[k].n \in Nat /\ TwoWindows(k)
    BY LimitsAssumption DEF BurstInv, Inv, TypeOK
  <2>2. hits[k][Window[k]] \in Nat /\ Passed(k) \in Nat /\ Passed(k) <= Max[k]
    BY <2>1 DEF Passed, Admits
  <2>3. hits[k][Window[k]] <= Max[k] \/ hits[k][Window[k]] <= Passed(k) + Max[k]
    BY <2>1 DEF TwoWindows
  <2> QED
    BY <2>1, <2>2, <2>3
<1> QED
  BY <1>1, BurstCorrect, PTL
=============================================================================
