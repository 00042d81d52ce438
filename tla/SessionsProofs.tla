--------------------------- MODULE SessionsProofs ---------------------------
(***************************************************************************)
(* Proofs about Sessions: for any accounts, addresses, roles, tokens, any  *)
(* lifetime and grain of the clock, and any number of requests in flight.  *)
(***************************************************************************)
EXTENDS Sessions, TLAPS

(* The key of a token exists for as long as the token, if t has expired or *)
(* has a key that outlives it.                                             *)
Covered(t) == token[t].left * Grain <= revoked[t] + phase

(* What has been done for the logout of a token. *)
Safe(t) == token[t] # None /\ (t \in lost \/ Covered(t))

(* A key is there only for a token it outlives. *)
KeysCover == \A t \in Tokens : revoked[t] > 0 => token[t] # None /\ Covered(t)

LogoutsHold == \A t \in loggedOut : Safe(t)

(* What a request holds at each await. *)
RequestOK(r) ==
  /\ At(r, "insert") => req[r].email \in Emails
  /\ At(r, "sign") => req[r].id \in Ids /\ req[r].role \in AnyRole
  /\ req[r].pc \in {"check", "serve", "set", "reply"} =>
       req[r].tok \in Tokens /\ token[req[r].tok] # None
  /\ At(r, "set") => token[req[r].tok].left <= req[r].ttl
  /\ At(r, "reply") => Safe(req[r].tok)
  /\ req[r].late => req[r].tok \in loggedOut

Inv ==
  /\ TypeOK
  /\ OneAccountPerAddress
  /\ KeysCover
  /\ LogoutsHold
  /\ \A r \in Requests : RequestOK(r)

-----------------------------------------------------------------------------
(* Arithmetic of the clock: a second is Grain ticks. *)
LEMMA OneSecondLess ==
  ASSUME NEW n \in Nat, NEW g \in Nat, n > 0
  PROVE  (n - 1) * g = n * g - g
BY SMT

(* Longer lives in seconds are longer in ticks. *)
LEMMA Monotone ==
  ASSUME NEW m \in Nat, NEW n \in Nat, NEW g \in Nat, m <= n
  PROVE  m * g <= n * g /\ m * g \in Nat /\ n * g \in Nat
BY SMT

(* A whole second left is at least Grain ticks. *)
LEMMA AtLeastASecond ==
  ASSUME NEW n \in Nat, NEW g \in Nat, n > 0
  PROVE  n * g >= g
<1>1. (n - 1) * g \in Nat
  BY Monotone
<1> QED BY <1>1, OneSecondLess

(* What a slot that is emptied holds. *)
LEMMA IdleIsRequest ==
  /\ IdleRequest \in Request /\ IdleRequest.pc = "idle" /\ ~IdleRequest.late
  /\ IdleRequest.id = None /\ IdleRequest.email = None
BY ClockAssumption DEF IdleRequest, Request

(* The claims of a signed token. *)
LEMMA ClaimsOf ==
  ASSUME TypeOK, NEW t \in Tokens, token[t] # None
  PROVE  /\ token[t] \in Claims
         /\ token[t].id \in Ids /\ token[t].role \in AnyRole
         /\ token[t].left \in 0..Life /\ token[t].left \in Nat
BY ClockAssumption DEF TypeOK, Claims

(* A token that no key covers any more has expired. *)
LEMMA UncoveredExpired ==
  ASSUME TypeOK, NEW t \in Tokens, token[t] # None, Covered(t), revoked[t] = 0
  PROVE  token[t].left = 0
<1>1. token[t].left \in Nat /\ Grain \in Nat \ {0} /\ phase \in Nat /\ phase < Grain
  BY ClaimsOf, ClockAssumption DEF TypeOK
<1>2. token[t].left * Grain <= phase
  BY <1>1, Monotone DEF Covered
<1> QED BY <1>1, <1>2, AtLeastASecond

-----------------------------------------------------------------------------
(* The initial state satisfies the invariant. *)
LEMMA InitInv == Init => Inv
<1> SUFFICES ASSUME Init PROVE Inv
  OBVIOUS
<1>1. \A r \in Requests : req[r] = IdleRequest
  BY DEF Init
<1>2. TypeOK
  <2>1. revoked \in [Tokens -> 0..(Life * Grain)] /\ phase \in 0..(Grain - 1)
    BY ClockAssumption, Monotone DEF Init
  <2> QED BY <2>1, IdleIsRequest DEF Init, TypeOK
<1>3. \A r \in Requests : RequestOK(r)
  BY <1>1, IdleIsRequest DEF RequestOK, At
<1> QED BY <1>2, <1>3
  DEF Init, Inv, OneAccountPerAddress, KeysCover,
         LogoutsHold

-----------------------------------------------------------------------------
(* What is recorded of accounts, tokens and logouts only grows. *)
Grows ==
  /\ \A t \in Tokens : token[t] # None =>
       /\ token'[t] # None
       /\ token'[t].left <= token[t].left
       /\ Safe(t) => Safe(t)'
  /\ loggedOut \subseteq loggedOut'

(* What a request holds stays true while others act. *)
LEMMA OthersKeep ==
  ASSUME Inv, Grows, TypeOK', NEW r \in Requests, req'[r] = req[r]
  PROVE  RequestOK(r)'
<1>1. RequestOK(r)
  BY DEF Inv
<1>2. At(r, "set") => token'[req[r].tok].left <= req[r].ttl
  <2> SUFFICES ASSUME At(r, "set") PROVE token'[req[r].tok].left <= req[r].ttl
    OBVIOUS
  <2>1. req[r].tok \in Tokens /\ token[req[r].tok] # None
    BY <1>1 DEF RequestOK, At
  <2>2. token[req[r].tok].left \in Nat /\ req[r].ttl \in Nat
    BY <2>1, ClaimsOf, ClockAssumption DEF Inv, TypeOK, Request
  <2>3. token'[req[r].tok].left \in Nat
    BY <2>1, ClockAssumption DEF Grows, TypeOK, Claims
  <2> QED BY <1>1, <2>1, <2>2, <2>3 DEF RequestOK, Grows
<1> QED BY <1>1, <1>2 DEF RequestOK, Grows, At

(* A step of one request, or of none, keeps the invariant if it keeps what *)
(* is stored and what that request then holds is true.                     *)
LEMMA OneRequest ==
  ASSUME Inv, NEW r \in Requests, NEW q \in Request, req' = [req EXCEPT ![r] = q],
         Grows, TypeOK', OneAccountPerAddress', KeysCover',
         LogoutsHold',
         RequestOK(r)'
  PROVE  Inv'
<1>1. \A s \in Requests \ {r} : req'[s] = req[s]
  BY DEF Inv, TypeOK
<1>2. \A s \in Requests : RequestOK(s)'
  BY <1>1, OthersKeep
<1> QED BY <1>2 DEF Inv

(* So does one that stores nothing. *)
LEMMA QuietRequest ==
  ASSUME Inv, NEW r \in Requests, NEW q \in Request, req' = [req EXCEPT ![r] = q],
         UNCHANGED <<users, token, revoked, phase, loggedOut, lost>>,
         RequestOK(r)'
  PROVE  Inv'
<1>1. Grows
  <2>1. \A t \in Tokens : token[t] # None => token[t].left <= token[t].left
    BY ClaimsOf DEF Inv
  <2> QED BY <2>1 DEF Grows, Safe, Covered
<1>2. /\ TypeOK' /\ OneAccountPerAddress' /\ KeysCover' /\ LogoutsHold'
  BY DEF Inv, TypeOK, OneAccountPerAddress, KeysCover,
         LogoutsHold, Safe, Covered
<1> QED BY <1>1, <1>2, OneRequest

(* A slot that has been emptied holds nothing. *)
LEMMA LeavesOK ==
  ASSUME Inv, NEW r \in Requests, Leave(r)
  PROVE  RequestOK(r)' /\ req' = [req EXCEPT ![r] = IdleRequest] /\ req'[r] = IdleRequest
<1>1. req' = [req EXCEPT ![r] = IdleRequest] /\ req'[r] = IdleRequest
  BY DEF Leave, Become, Inv, TypeOK
<1> QED BY <1>1, IdleIsRequest DEF RequestOK, At

-----------------------------------------------------------------------------
(* Steps that store nothing. *)

(* A request that arrives holds what it was sent or has read. *)
LEMMA ArriveInv ==
  ASSUME Inv, NEW r \in Requests, Arrive(r)
  PROVE  Inv'
<1>1. ASSUME NEW e \in Emails, FindAddress(r, e)
      PROVE  Inv'
  <2> DEFINE q == [IdleRequest EXCEPT !.pc = "insert", !.email = e]
  <2>1. q \in Request /\ req' = [req EXCEPT ![r] = q] /\ req'[r] = q
    BY <1>1, IdleIsRequest DEF FindAddress, Become, Request, Inv, TypeOK
  <2>2. RequestOK(r)'
    BY <2>1, IdleIsRequest DEF RequestOK, At, Request
  <2> QED BY <1>1, <2>1, <2>2, QuietRequest DEF FindAddress
<1>2. ASSUME NEW i \in Ids, FindAccount(r, i)
      PROVE  Inv'
  <2>1. users[i].role \in AnyRole
    BY <1>2 DEF FindAccount, Inv, TypeOK, Account
  <2> PICK role \in AnyRole : role = users[i].role
    BY <2>1
  <2> DEFINE q == [IdleRequest EXCEPT !.pc = "sign", !.id = i, !.role = role]
  <2>2. q \in Request /\ req' = [req EXCEPT ![r] = q] /\ req'[r] = q
    BY <1>2, IdleIsRequest DEF FindAccount, Become, Request, Inv, TypeOK
  <2>3. /\ req'[r].pc = "sign" /\ req'[r].id = i /\ req'[r].role = role
        /\ ~req'[r].late
    <3>1. q.pc = "sign" /\ q.id = i /\ q.role = role /\ ~q.late
      BY DEF IdleRequest
    <3> QED BY <2>2, <3>1
  <2>4. RequestOK(r)'
    BY <1>2, <2>1, <2>3 DEF FindAccount, RequestOK, At
  <2> QED BY <1>2, <2>2, <2>4, QuietRequest DEF FindAccount
<1>3. ASSUME NEW t \in Tokens, Present(r, t)
      PROVE  Inv'
  <2> PICK late \in BOOLEAN : late = (t \in loggedOut)
    <3>1. (t \in loggedOut) \in BOOLEAN
      OBVIOUS
    <3> QED BY <3>1, Zenon
  <2> DEFINE q == [IdleRequest EXCEPT !.pc = "check", !.tok = t, !.late = late]
  <2>1. q \in Request /\ req' = [req EXCEPT ![r] = q] /\ req'[r] = q
    BY <1>3, IdleIsRequest DEF Present, Become, Request, Inv, TypeOK
  <2>2. /\ req'[r].pc = "check" /\ req'[r].tok = t /\ req'[r].late = late
        /\ token' = token /\ loggedOut' = loggedOut /\ token[t] # None
    BY <1>3, <2>1 DEF Present, IdleRequest
  <2>3. RequestOK(r)'
    BY <2>2 DEF RequestOK, At
  <2> QED BY <1>3, <2>1, <2>3, QuietRequest DEF Present
<1> QED BY <1>1, <1>2, <1>3 DEF Arrive

(* Refusals, answers that change nothing, and requests that die. *)
LEMMA LeaveInv ==
  ASSUME Inv, NEW r \in Requests, Leave(r),
         UNCHANGED <<users, token, revoked, phase, loggedOut, lost>>
  PROVE  Inv'
BY LeavesOK, IdleIsRequest, QuietRequest

(* verifyJwt lets a request in, with or without an answer of Redis. *)
LEMMA LetInInv ==
  ASSUME Inv, NEW r \in Requests, Check(r) \/ CheckFails(r)
  PROVE  Inv'
<1>1. CASE Leave(r)
  BY <1>1, LeaveInv DEF Check, CheckFails
<1>2. ASSUME NEW late \in BOOLEAN, late => req[r].late,
             req' = [req EXCEPT ![r] = [req[r] EXCEPT !.pc = "serve", !.late = late]]
      PROVE  Inv'
  <2> DEFINE q == [req[r] EXCEPT !.pc = "serve", !.late = late]
  <2>1. req[r] \in Request /\ RequestOK(r) /\ At(r, "check")
    BY DEF Inv, TypeOK, Check, CheckFails
  <2>2. q \in Request /\ req'[r] = q
    BY <1>2, <2>1 DEF Request, Inv, TypeOK
  <2>3. RequestOK(r)'
    BY <1>2, <2>1, <2>2 DEF RequestOK, At, Request, Check, CheckFails
  <2> QED BY <1>2, <2>2, <2>3, QuietRequest DEF Check, CheckFails
<1>3. CASE Check(r) /\ ~Leave(r)
  <2>1. req[r] \in Request /\ req[r].late \in BOOLEAN
    BY DEF Inv, TypeOK, Request
  <2>2. req' = [req EXCEPT ![r] = [req[r] EXCEPT !.pc = "serve", !.late = req[r].late]]
    BY <1>3, <2>1 DEF Check, Goto, Request
  <2> QED BY <1>2, <2>1, <2>2
<1>4. CASE CheckFails(r)
  <2>1. req' = [req EXCEPT ![r] = [req[r] EXCEPT !.pc = "serve", !.late = FALSE]]
    BY <1>4 DEF CheckFails
  <2> QED BY <1>2, <2>1
<1> QED BY <1>1, <1>3, <1>4

(* logout: the life of the key is at least what is left of the token, and  *)
(* an expired token needs none.                                            *)
LEMMA LogoutInv ==
  ASSUME Inv, NEW r \in Requests, Logout(r)
  PROVE  Inv'
<1> DEFINE left == Caller(r).left
           q == [req[r] EXCEPT !.pc = IF left = 0 THEN "reply" ELSE "set", !.ttl = left]
<1>1. req[r] \in Request /\ RequestOK(r) /\ At(r, "serve")
  BY DEF Inv, TypeOK, Logout
<1>2. req[r].tok \in Tokens /\ token[req[r].tok] # None /\ left \in 0..Life
  BY <1>1, ClaimsOf DEF RequestOK, At, Caller, Inv
<1>3. q \in Request /\ req' = [req EXCEPT ![r] = q] /\ req'[r] = q
  BY <1>1, <1>2 DEF Logout, Request, Inv, TypeOK
<1>4. left = 0 => Safe(req[r].tok)
  BY <1>2, ClockAssumption DEF Safe, Covered, Caller, Inv, TypeOK
<1>5. Safe(req[r].tok)' <=> Safe(req[r].tok)
  <2> DEFINE t == req[r].tok
  <2>1. req'[r].tok = t
    BY <1>1, <1>3 DEF Request
  <2> QED BY <2>1 DEF Logout, Safe, Covered
<1>6. /\ req'[r].tok = req[r].tok /\ req'[r].ttl = left /\ req'[r].late = req[r].late
      /\ req'[r].pc = IF left = 0 THEN "reply" ELSE "set"
  <2> DEFINE pc == IF left = 0 THEN "reply" ELSE "set"
  <2>1. req[r] \in Request /\ req'[r] = [req[r] EXCEPT !.pc = pc, !.ttl = left]
    BY <1>1, <1>3
  <2> HIDE DEF left, pc
  <2>2. req'[r].tok = req[r].tok /\ req'[r].ttl = left /\ req'[r].late = req[r].late /\ req'[r].pc = pc
    BY <2>1 DEF Request
  <2> QED BY <2>2 DEF pc
<1>7. left <= left
  BY <1>2, ClockAssumption
<1>8. RequestOK(r)'
  BY <1>1, <1>2, <1>4, <1>5, <1>6, <1>7 DEF RequestOK, At, Logout, Caller
<1> QED BY <1>3, <1>8, QuietRequest DEF Logout

-----------------------------------------------------------------------------
(* Writes of the collection. *)

(* An account is written only under an address no other account has. *)
LEMMA StoreKeeps ==
  ASSUME Inv, NEW i \in Ids, NEW e \in Emails, NEW role \in AnyRole,
         Unique(e, i), Store(i, e, role),
         UNCHANGED <<token, revoked, phase, loggedOut, lost>>,
         req' \in [Requests -> Request]
  PROVE  /\ Grows /\ TypeOK' /\ OneAccountPerAddress'
         /\ KeysCover' /\ LogoutsHold'
<1> PICK a : a = [email |-> e, role |-> role]
  OBVIOUS
<1>1. a \in Account /\ a.email = e /\ a.role = role
  BY DEF Account
<1>2. /\ users' \in [Ids -> Account \cup {None}] /\ users'[i] = a
      /\ \A j \in Ids : j # i => users'[j] = users[j]
  BY <1>1 DEF Store, Inv, TypeOK
<1>3. \A t \in Tokens : token[t] # None =>
        token[t].left <= token[t].left /\ token[t].id \in Ids
  BY ClaimsOf DEF Inv
<1>4. Grows
  BY <1>3 DEF Grows, Safe, Covered
<1>5. TypeOK'
  BY <1>2 DEF Inv, TypeOK
<1>6. OneAccountPerAddress'
  BY <1>1, <1>2 DEF Inv, OneAccountPerAddress, Unique
<1>7. KeysCover' /\ LogoutsHold'
  BY DEF Inv, KeysCover, LogoutsHold, Safe, Covered
<1> QED BY <1>4, <1>5, <1>6, <1>7

(* create: a fresh account for a free address, or an error. *)
LEMMA InsertInv ==
  ASSUME Inv, NEW r \in Requests, Insert(r)
  PROVE  Inv'
<1> USE DEF Insert
<1>1. req[r].email \in Emails
  BY DEF Inv, RequestOK
<1>2. CASE Leave(r) /\ UNCHANGED users
  BY <1>2, LeaveInv
<1>3. ASSUME NEW i \in Ids, Unique(req[r].email, i), Store(i, req[r].email, "STUDENT"),
             Become(r, [IdleRequest EXCEPT !.pc = "sign", !.id = i, !.role = "STUDENT"])
      PROVE  Inv'
  <2> DEFINE q == [IdleRequest EXCEPT !.pc = "sign", !.id = i, !.role = "STUDENT"]
  <2>1. q \in Request
    BY RolesAssumption, IdleIsRequest DEF Request, AnyRole
  <2>2. q.pc = "sign" /\ q.id = i /\ q.role = "STUDENT" /\ ~q.late
    BY DEF IdleRequest
  <2> HIDE DEF q
  <2>3. req' = [req EXCEPT ![r] = q] /\ req'[r] = q /\ req' \in [Requests -> Request]
    BY <1>3, <2>1 DEF Become, Inv, TypeOK, q
  <2>4. /\ Grows /\ TypeOK' /\ OneAccountPerAddress'
        /\ KeysCover' /\ LogoutsHold'
    BY <1>1, <1>3, <2>3, StoreKeeps, RolesAssumption DEF AnyRole
  <2>5. RequestOK(r)'
    BY <2>2, <2>3, <2>4, RolesAssumption DEF RequestOK, At, AnyRole
  <2> QED BY <2>1, <2>3, <2>4, <2>5, OneRequest
<1> QED BY <1>2, <1>3

(* changeRole and updateProfile. *)
LEMMA UpdateInv ==
  ASSUME Inv, NEW r \in Requests, ChangeRole(r) \/ UpdateMe(r)
  PROVE  Inv'
<1>1. /\ RequestOK(r)' /\ req' = [req EXCEPT ![r] = IdleRequest]
      /\ req' \in [Requests -> Request] /\ IdleRequest \in Request
  BY LeavesOK, IdleIsRequest DEF ChangeRole, UpdateMe, Inv, TypeOK
<1>2. \E i \in Ids, e \in Emails, role \in AnyRole : Unique(e, i) /\ Store(i, e, role)
  <2>1. CASE ChangeRole(r)
    <3>1. PICK i \in Ids, role \in AnyRole : users[i] # None /\ Store(i, users[i].email, role)
      BY <2>1 DEF ChangeRole, AnyRole
    <3>2. users[i].email \in Emails /\ Unique(users[i].email, i)
      BY <3>1 DEF Inv, TypeOK, Account, OneAccountPerAddress, Unique
    <3> QED BY <3>1, <3>2
  <2>2. CASE UpdateMe(r)
    <3> DEFINE i == Caller(r).id
    <3>1. i \in Ids
      <4>1. req[r].tok \in Tokens /\ token[req[r].tok] # None
        BY <2>2 DEF UpdateMe, At, Inv, RequestOK
      <4> QED BY <4>1, ClaimsOf DEF Caller, Inv
    <3> QED BY <2>2, <3>1 DEF UpdateMe
  <2> QED BY <2>1, <2>2
<1>3. UNCHANGED <<token, revoked, phase, loggedOut, lost>>
  BY DEF ChangeRole, UpdateMe
<1>4. Grows /\ TypeOK' /\ OneAccountPerAddress'
      /\ KeysCover' /\ LogoutsHold'
  BY <1>1, <1>2, <1>3, StoreKeeps
<1> QED BY <1>1, <1>4, OneRequest

(* The bootstrap script is no request. *)
LEMMA BootstrapInv ==
  ASSUME Inv, NEW e \in Emails, BootstrapAdmin(e)
  PROVE  Inv'
<1>1. PICK i \in Ids :
        /\ IF users[i] = None THEN Unique(e, i) ELSE users[i].email = e
        /\ Store(i, e, "ADMIN")
  BY DEF BootstrapAdmin
<1>2. Unique(e, i)
  BY <1>1 DEF Inv, OneAccountPerAddress, Unique
<1>3. req' = req /\ req' \in [Requests -> Request]
  BY DEF BootstrapAdmin, Inv, TypeOK
<1>4. Grows /\ TypeOK' /\ OneAccountPerAddress'
      /\ KeysCover' /\ LogoutsHold'
  BY <1>1, <1>2, <1>3, StoreKeeps, RolesAssumption DEF BootstrapAdmin, AnyRole
<1>5. \A r \in Requests : RequestOK(r)'
  BY <1>3, <1>4, OthersKeep
<1> QED BY <1>4, <1>5 DEF Inv

-----------------------------------------------------------------------------
(* Tokens and their revocation. *)

(* A fresh token carries the role its login has read. *)
LEMMA SignInv ==
  ASSUME Inv, NEW r \in Requests, Sign(r)
  PROVE  Inv'
<1>1. PICK t \in Tokens :
        token[t] = None /\ token' = [token EXCEPT ![t] = Signed(req[r].id, req[r].role)]
  BY DEF Sign
<1>2. req[r].id \in Ids /\ req[r].role \in AnyRole
  BY DEF Sign, Inv, RequestOK
<1> PICK c : c = Signed(req[r].id, req[r].role)
  OBVIOUS
<1>3. c \in Claims /\ c # None /\ c.id = req[r].id /\ c.role = req[r].role
  BY <1>2, ClockAssumption, NoneAssumption DEF Signed, Claims, AnyRole
<1>4. /\ token' \in [Tokens -> Claims \cup {None}] /\ token'[t] = c
      /\ \A u \in Tokens : u # t => token'[u] = token[u]
  BY <1>1, <1>3 DEF Inv, TypeOK
<1>5. UNCHANGED <<users, revoked, phase, loggedOut, lost>> /\ Leave(r)
  BY DEF Sign
<1>6. \A u \in Tokens : token[u] # None => token'[u] = token[u] /\ token[u].left <= token[u].left
  BY <1>1, <1>4, ClaimsOf DEF Inv
<1>7. Grows
  BY <1>5, <1>6 DEF Grows, Safe, Covered
<1>8. RequestOK(r)' /\ req' = [req EXCEPT ![r] = IdleRequest] /\ IdleRequest \in Request
  BY <1>5, LeavesOK, IdleIsRequest
<1>9. TypeOK'
  BY <1>4, <1>5, <1>8 DEF Inv, TypeOK
<1>10. OneAccountPerAddress'
  BY <1>5 DEF Inv, OneAccountPerAddress
<1>11. KeysCover'
  BY <1>1, <1>5, <1>6 DEF Inv, KeysCover, Covered
<1>12. LogoutsHold'
  BY <1>5, <1>6 DEF Inv, TypeOK, LogoutsHold, Safe, Covered
<1> QED BY <1>7, <1>8, <1>9, <1>10, <1>11, <1>12, OneRequest

(* A step on the revocation list and the records of logouts, by a request  *)
(* that carries the token.                                                 *)
LEMMA RevokeKeeps ==
  ASSUME Inv, NEW r \in Requests, NEW q \in Request, req' = [req EXCEPT ![r] = q],
         UNCHANGED <<users, token, phase>>, RequestOK(r)',
         revoked' \in [Tokens -> 0..(Life * Grain)],
         loggedOut' \subseteq Tokens, lost' \subseteq Tokens, loggedOut \subseteq loggedOut',
         \A t \in Tokens : revoked'[t] > 0 => token[t] # None /\ Covered(t)',
         \A t \in Tokens : Safe(t) => Safe(t)',
         \A t \in loggedOut' : Safe(t)'
  PROVE  Inv'
<1>1. \A t \in Tokens : token[t] # None => token[t].left <= token[t].left
  BY ClaimsOf DEF Inv
<1>2. Grows
  BY <1>1 DEF Grows
<1>3. TypeOK' /\ OneAccountPerAddress'
  BY DEF Inv, TypeOK, OneAccountPerAddress
<1>4. KeysCover' /\ LogoutsHold'
  BY DEF KeysCover, LogoutsHold
<1> QED BY <1>2, <1>3, <1>4, OneRequest

(* The answer of Redis, or none, and then a reply. *)
LEMMA SetInv ==
  ASSUME Inv, NEW r \in Requests, SetKey(r) \/ RevokeFails(r)
  PROVE  Inv'
<1> DEFINE q == [req[r] EXCEPT !.pc = "reply"]
<1>1. /\ req[r] \in Request /\ RequestOK(r) /\ At(r, "set")
      /\ UNCHANGED <<users, token, phase, loggedOut>>
  BY DEF Inv, TypeOK, SetKey, RevokeFails
<1>2. PICK t \in Tokens : t = req[r].tok /\ token[t] # None /\ token[t].left <= req[r].ttl
  BY <1>1 DEF RequestOK, At
<1>3. /\ req[r].ttl \in 0..Life /\ req[r].ttl \in Nat /\ token[t].left \in Nat
      /\ Life \in Nat /\ Grain \in Nat /\ phase \in Nat
  BY <1>1, <1>2, ClaimsOf, ClockAssumption DEF Request, Inv, TypeOK
<1>4. /\ KeyLife(req[r].ttl) \in 0..(Life * Grain)
      /\ token[t].left * Grain \in Nat
      /\ token[t].left * Grain <= KeyLife(req[r].ttl) + phase
  <2>1. /\ req[r].ttl * Grain <= Life * Grain /\ req[r].ttl * Grain \in Nat
        /\ Life * Grain \in Nat
    BY <1>3, Monotone
  <2>2. token[t].left * Grain <= req[r].ttl * Grain /\ token[t].left * Grain \in Nat
    BY <1>2, <1>3, Monotone
  <2> QED BY <1>3, <2>1, <2>2 DEF KeyLife
<1>5. /\ q \in Request /\ req' = [req EXCEPT ![r] = q] /\ req'[r] = q
      /\ q.pc = "reply" /\ q.tok = t /\ q.late = req[r].late
  BY <1>1, <1>2 DEF SetKey, RevokeFails, Goto, Request, Inv, TypeOK
<1>6. /\ revoked' \in [Tokens -> 0..(Life * Grain)] /\ lost' \subseteq Tokens
      /\ \A u \in Tokens \ {t} : revoked'[u] = revoked[u] /\ (u \in lost' <=> u \in lost)
      /\ Safe(t)' /\ (revoked'[t] > 0 => Covered(t)')
  <2> HIDE DEF q
  <2>1. CASE SetKey(r)
    <3>1. revoked' = [revoked EXCEPT ![t] = KeyLife(req[r].ttl)] /\ lost' = lost \ {t}
      BY <1>2, <2>1 DEF SetKey
    <3>2. /\ revoked' \in [Tokens -> 0..(Life * Grain)] /\ revoked'[t] = KeyLife(req[r].ttl)
          /\ \A u \in Tokens \ {t} : revoked'[u] = revoked[u]
      BY <1>2, <1>4, <3>1 DEF Inv, TypeOK
    <3>3. lost' \subseteq Tokens /\ \A u \in Tokens \ {t} : u \in lost' <=> u \in lost
      BY <3>1 DEF Inv, TypeOK
    <3>4. Covered(t)'
      BY <1>1, <1>4, <3>2 DEF Covered
    <3> QED BY <1>1, <1>2, <3>2, <3>3, <3>4 DEF Safe
  <2>2. CASE RevokeFails(r)
    <3>1. revoked' = revoked /\ lost' = IF revoked[t] > 0 THEN lost ELSE lost \cup {t}
      BY <1>2, <2>2 DEF RevokeFails
    <3>2. revoked[t] > 0 => Covered(t)
      BY <1>2 DEF Inv, KeysCover
    <3>3. revoked'[t] > 0 => Covered(t)'
      BY <1>1, <3>1, <3>2 DEF Covered
    <3>4. Safe(t)'
      BY <1>1, <1>2, <3>1, <3>3 DEF Safe
    <3> QED BY <1>2, <3>1, <3>3, <3>4 DEF Inv, TypeOK
  <2> QED BY <2>1, <2>2
<1>7. RequestOK(r)'
  BY <1>1, <1>2, <1>5, <1>6 DEF RequestOK, At
<1> HIDE DEF q
<1>8. \A u \in Tokens : revoked'[u] > 0 => token[u] # None /\ Covered(u)'
  BY <1>1, <1>2, <1>6 DEF Inv, KeysCover, Covered
<1>9. \A u \in Tokens : Safe(u) => Safe(u)'
  BY <1>1, <1>6 DEF Safe, Covered
<1>10. \A u \in loggedOut' : Safe(u)'
  BY <1>1, <1>9 DEF Inv, TypeOK, LogoutsHold
<1>11. loggedOut' \subseteq Tokens /\ loggedOut \subseteq loggedOut'
  BY <1>1 DEF Inv, TypeOK
<1> QED BY <1>1, <1>5, <1>6, <1>7, <1>8, <1>9, <1>10, <1>11, RevokeKeeps

(* A logout is answered when its revocation is there or lost. *)
LEMMA ReplyInv ==
  ASSUME Inv, NEW r \in Requests, Reply(r)
  PROVE  Inv'
<1>1. /\ req[r].tok \in Tokens /\ Safe(req[r].tok) /\ Leave(r)
      /\ UNCHANGED <<users, token, revoked, phase, lost>>
      /\ loggedOut' = loggedOut \cup {req[r].tok}
  BY DEF Reply, At, Inv, RequestOK
<1>2. RequestOK(r)' /\ req' = [req EXCEPT ![r] = IdleRequest] /\ IdleRequest \in Request
  BY <1>1, LeavesOK, IdleIsRequest
<1>3. \A t \in Tokens : (Safe(t) => Safe(t)') /\ (Covered(t) => Covered(t)')
  BY <1>1 DEF Safe, Covered
<1>4. \A t \in loggedOut' : Safe(t)'
  BY <1>1, <1>3 DEF Inv, TypeOK, LogoutsHold
<1>5. \A t \in Tokens : revoked'[t] > 0 => token[t] # None /\ Covered(t)'
  BY <1>1, <1>3 DEF Inv, KeysCover
<1> QED BY <1>1, <1>2, <1>3, <1>4, <1>5, RevokeKeeps DEF Inv, TypeOK

-----------------------------------------------------------------------------
(* Time: a key ages by a tick when the full seconds of its token and the   *)
(* phase together do.                                                      *)
LEMMA TickCovers ==
  ASSUME Inv, Tick, NEW t \in Tokens, token[t] # None
  PROVE  /\ token'[t] \in Claims /\ token'[t].id = token[t].id
         /\ token'[t].role = token[t].role /\ token'[t].left <= token[t].left
         /\ Covered(t) => Covered(t)'
<1>1. /\ token[t] \in Claims /\ token[t].left \in Nat /\ token[t].left \in 0..Life
      /\ Grain \in Nat \ {0} /\ phase \in 0..(Grain - 1) /\ revoked[t] \in Nat
  BY ClaimsOf, Monotone, ClockAssumption DEF Inv, TypeOK
<1>2. revoked'[t] = Less(revoked[t])
  BY DEF Tick, KeyAged
<1>3. CASE phase + 1 = Grain
  <2>1. phase' = 0 /\ token'[t] = [token[t] EXCEPT !.left = Less(token[t].left)]
    BY <1>3 DEF Tick, Aged
  <2>2. /\ token'[t].id = token[t].id /\ token'[t].role = token[t].role
        /\ token'[t].left = Less(token[t].left) /\ token'[t] \in Claims
    BY <1>1, <2>1, ClockAssumption DEF Claims, Less
  <2>3. CASE token[t].left = 0
    BY <1>1, <1>2, <2>1, <2>2, <2>3 DEF Covered, Less
  <2>4. CASE token[t].left > 0
    <3>1. /\ token'[t].left = token[t].left - 1
          /\ token'[t].left * Grain = token[t].left * Grain - Grain
      BY <1>1, <2>2, <2>4, OneSecondLess DEF Less
    <3>2. token[t].left * Grain >= Grain /\ token[t].left * Grain \in Nat
      BY <1>1, <2>4, AtLeastASecond, Monotone
    <3> QED BY <1>1, <1>2, <1>3, <2>1, <2>2, <3>1, <3>2 DEF Covered, Less
  <2> QED BY <1>1, <2>3, <2>4
<1>4. CASE phase + 1 # Grain
  <2>1. phase' = phase + 1 /\ token'[t] = token[t]
    BY <1>1, <1>4, ClockAssumption DEF Tick
  <2>2. token[t].left * Grain \in Nat
    BY <1>1, Monotone
  <2>3. Covered(t) => Covered(t)'
    <3>1. CASE revoked[t] > 0
      BY <1>1, <1>2, <2>1, <2>2, <3>1 DEF Covered, Less
    <3>2. CASE revoked[t] = 0
      BY <1>1, <1>2, <2>1, <2>2, <3>2 DEF Covered, Less
    <3> QED BY <1>1, <3>1, <3>2
  <2> QED BY <1>1, <2>1, <2>3
<1> QED BY <1>3, <1>4

(* Nothing else changes. *)
LEMMA TickInv ==
  ASSUME Inv, Tick
  PROVE  Inv'
<1>1. UNCHANGED <<users, req, loggedOut, lost>>
  BY DEF Tick
<1>2. \A t \in Tokens : token[t] = None => token'[t] = None
  BY DEF Tick, Aged
<1>3. \A t \in Tokens : token[t] # None => token'[t] # None
  BY TickCovers, NoneAssumption DEF Claims, AnyRole
<1>4. Grows
  BY <1>1, <1>3, TickCovers DEF Grows, Safe
<1>5. token' \in [Tokens -> Claims \cup {None}]
  <2>1. \A t \in Tokens : token'[t] \in Claims \cup {None}
    BY <1>2, TickCovers
  <2>2. token' = [t \in Tokens |-> Aged(token[t])] \/ token' = token
    BY DEF Tick
  <2> QED BY <2>1, <2>2 DEF Inv, TypeOK
<1>6. revoked' \in [Tokens -> 0..(Life * Grain)]
  <2>1. Life * Grain \in Nat
    BY ClockAssumption, Monotone
  <2>2. \A t \in Tokens : revoked[t] \in 0..(Life * Grain)
    BY DEF Inv, TypeOK
  <2> QED BY <2>1, <2>2 DEF Tick, KeyAged, Less
<1>7. phase' \in 0..(Grain - 1)
  BY ClockAssumption DEF Tick, Inv, TypeOK
<1>8. TypeOK'
  BY <1>1, <1>5, <1>6, <1>7 DEF Inv, TypeOK
<1>9. OneAccountPerAddress'
  BY <1>1 DEF Inv, OneAccountPerAddress
<1>10. KeysCover'
  <2>1. \A t \in Tokens : revoked'[t] > 0 => revoked[t] > 0
    <3>1. \A t \in Tokens : revoked[t] \in Nat /\ revoked'[t] = Less(revoked[t])
      BY ClockAssumption, Monotone DEF Inv, TypeOK, Tick, KeyAged
    <3> QED BY <3>1 DEF Less
  <2> QED BY <1>3, <2>1, TickCovers DEF Inv, KeysCover
<1>11. LogoutsHold'
  BY <1>1, <1>3, TickCovers DEF Inv, TypeOK, LogoutsHold, Safe
<1>12. \A r \in Requests : RequestOK(r)'
  BY <1>1, <1>4, <1>8, OthersKeep
<1> QED BY <1>8, <1>9, <1>10, <1>11, <1>12 DEF Inv

-----------------------------------------------------------------------------
(* Every step keeps the invariant. *)
LEMMA NextInv == Inv /\ [Next]_vars => Inv'
<1> SUFFICES ASSUME Inv, [Next]_vars PROVE Inv'
  OBVIOUS
<1>1. ASSUME NEW r \in Requests, Arrive(r) PROVE Inv'
  BY <1>1, ArriveInv
<1>2. ASSUME NEW r \in Requests, Step(r) PROVE Inv'
  <2>1. CASE Insert(r)
    BY <2>1, InsertInv
  <2>2. CASE WrongPassword(r) \/ Use(r)
    BY <2>2, LeaveInv DEF WrongPassword, Use
  <2>3. CASE Sign(r)
    BY <2>3, SignInv
  <2>4. CASE Check(r) \/ CheckFails(r)
    BY <2>4, LetInInv
  <2>5. CASE ChangeRole(r) \/ UpdateMe(r)
    BY <2>5, UpdateInv
  <2>6. CASE Logout(r)
    BY <2>6, LogoutInv
  <2>7. CASE SetKey(r) \/ RevokeFails(r)
    BY <2>7, SetInv
  <2>8. CASE Reply(r)
    BY <2>8, ReplyInv
  <2> QED BY <1>2, <2>1, <2>2, <2>3, <2>4, <2>5, <2>6, <2>7, <2>8
    DEF Step, RedisStep, LocalStep
<1>3. ASSUME NEW r \in Requests, Abort(r) PROVE Inv'
  BY <1>3, LeaveInv DEF Abort
<1>4. ASSUME NEW e \in Emails, BootstrapAdmin(e) PROVE Inv'
  BY <1>4, BootstrapInv
<1>5. CASE Tick
  BY <1>5, TickInv
<1>6. CASE UNCHANGED vars
  BY <1>6 DEF vars, Inv, TypeOK, OneAccountPerAddress,
     KeysCover, LogoutsHold, RequestOK, Safe, Covered, At
<1> QED BY <1>1, <1>2, <1>3, <1>4, <1>5, <1>6 DEF Next

(* The inductive invariant of accounts, tokens and the revocation list. *)
THEOREM SessionsInvariant == Spec => []Inv
BY InitInv, NextInv, PTL DEF Spec

(* Type correctness; in particular no key of the revocation list lives     *)
(* longer than a whole token.                                              *)
THEOREM SessionTypes == Spec => []TypeOK
<1>1. Inv => TypeOK
  BY DEF Inv
<1> QED BY SessionsInvariant, <1>1, PTL

(* However registrations, changes of address and bootstraps overlap, no    *)
(* address belongs to two accounts.                                        *)
THEOREM AddressesAreUnique == Spec => []OneAccountPerAddress
<1>1. Inv => OneAccountPerAddress
  BY DEF Inv
<1> QED BY SessionsInvariant, <1>1, PTL

(* A request that comes after its token's logout was answered gets past    *)
(* verifyJwt only by a failure of Redis or after the token has expired.    *)
THEOREM LogoutIsFinal == Spec => RevokedStaysOut
<1>1. ASSUME Inv, [Next]_vars, NEW r \in Requests,
             At(r, "check"), req'[r].pc = "serve", req'[r].late
      PROVE  req[r].tok \in lost \/ Caller(r).left = 0
  <2>1. RequestOK(r) /\ TypeOK
    BY <1>1 DEF Inv
  <2>2. req[r].tok \in Tokens /\ token[req[r].tok] # None
    BY <1>1, <2>1 DEF RequestOK, At
  <2>3. Check(r) \/ CheckFails(r)
    <3>1. ASSUME NEW s \in Requests, s # r, NEW q, req' = [req EXCEPT ![s] = q]
          PROVE  FALSE
      BY <1>1, <2>1, <3>1 DEF At, TypeOK
    <3>2. \A s \in Requests : Arrive(s) \/ Step(s) \/ Abort(s) =>
            s = r \/ \E q : req' = [req EXCEPT ![s] = q]
      BY DEF Arrive, FindAddress, FindAccount, Present, Step, RedisStep, LocalStep, Insert, WrongPassword, Sign,
         Check, CheckFails, ChangeRole, UpdateMe, Use, Logout, SetKey, RevokeFails, Reply,
         Abort, Leave, Become, Goto
    <3>3. Arrive(r) \/ Step(r) \/ Abort(r)
      <4>1. req' # req
        BY <1>1 DEF At
      <4> QED BY <1>1, <3>1, <3>2, <4>1 DEF Next, BootstrapAdmin, Tick, vars
    <3>4. ~Leave(r)
      BY <1>1, <2>1, IdleIsRequest DEF Leave, Become, TypeOK
    <3> QED BY <1>1, <3>3, <3>4
      DEF Arrive, FindAddress, FindAccount, Present, Step, RedisStep, LocalStep, Insert, WrongPassword, Sign,
          ChangeRole, UpdateMe, Use, Logout, SetKey, RevokeFails, Reply, Abort, At
  <2>4. ~CheckFails(r)
    BY <1>1, <2>1 DEF CheckFails, TypeOK, Request
  <2>5. Goto(r, "serve") /\ ~(revoked[req[r].tok] > 0)
    BY <1>1, <2>1, <2>3, <2>4, IdleIsRequest DEF Check, Leave, Become, TypeOK
  <2>6. req[r].tok \in loggedOut
    BY <1>1, <2>1, <2>5 DEF Goto, RequestOK, TypeOK, Request
  <2>7. revoked[req[r].tok] = 0
    BY <2>1, <2>2, <2>5, ClockAssumption, Monotone DEF TypeOK
  <2> QED BY <1>1, <2>1, <2>2, <2>6, <2>7, UncoveredExpired DEF Inv, LogoutsHold, Safe, Caller
<1>2. Inv /\ [Next]_vars =>
        [\A r \in Requests :
           At(r, "check") /\ req'[r].pc = "serve" /\ req'[r].late =>
             req[r].tok \in lost \/ Caller(r).left = 0]_vars
  BY <1>1
<1> QED BY SessionsInvariant, <1>2, PTL DEF Spec, RevokedStaysOut
=============================================================================
