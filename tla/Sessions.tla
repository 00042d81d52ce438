------------------------------ MODULE Sessions ------------------------------
(***************************************************************************)
(* Accounts and tokens: user-service (register, login, logout, changeRole, *)
(* updateProfile) on the users collection of MongoDB, the tokens it signs, *)
(* the revocation list bl:jti:<jti> in Redis, and the gateway's verifyJwt, *)
(* which every request with a token passes on its way to any service.      *)
(*                                                                         *)
(* A request in a slot r is suspended at the await pc names:               *)
(*   register       insert -> sign                                         *)
(*   login                    sign                                         *)
(*   with a token   check -> serve, and for logout -> set -> reply         *)
(* What a client sends is chosen at the step that first depends on it.     *)
(* A call to Redis answers, fails, or never settles: while the client      *)
(* reconnects it queues its commands (test.md, section 7.1).               *)
(* A clock ticks Grain times a second; a token ends on a full second, a    *)
(* key of Redis at any tick.                                               *)
(***************************************************************************)
EXTENDS Naturals

CONSTANTS
  Ids,        \* the ids an account can get
  Emails,     \* addresses
  Roles,      \* the roles of userModel.js, or some of them
  OtherRole,  \* any string that is none of them
  Tokens,     \* the jti of each token that is ever signed
  Life,       \* the seconds from signing to exp
  Grain,      \* the ticks in a second
  Requests,   \* the slots: how many requests can be in flight
  None        \* no account, token, address

ASSUME RolesAssumption == {"STUDENT", "ADMIN"} \subseteq Roles /\ OtherRole \notin Roles
ASSUME ClockAssumption == Life \in Nat \ {0} /\ Grain \in Nat \ {0}
ASSUME NoneAssumption ==
  /\ None \notin Ids /\ None \notin Emails /\ None \notin Tokens
  /\ None \notin Roles \cup {OtherRole}
  /\ None \notin [email : Emails, role : Roles \cup {OtherRole}]
  /\ None \notin [id : Ids, role : Roles \cup {OtherRole}, left : 0..Life]

VARIABLES
  users,      \* the collection: an account or None for each id
  token,      \* each signed token: account, role, full seconds to exp
  revoked,    \* the ticks for which bl:jti:<jti> still exists
  phase,      \* the ticks since the last full second
  req,        \* the request in each slot
  loggedOut,  \* history: tokens whose logout has been answered
  lost        \* history: tokens whose revocation Redis did not take

vars == <<users, token, revoked, phase, req, loggedOut, lost>>

(* The schema's enum is not enforced by an update (no runValidators). *)
AnyRole == Roles \cup {OtherRole}

Account == [email : Emails, role : AnyRole]

Claims == [id : Ids, role : AnyRole, left : 0..Life]

Request ==
  [pc : {"idle", "insert", "sign", "check", "serve", "set", "reply"},
   email : Emails \cup {None},      \* the address to register
   id : Ids \cup {None},            \* the account read or created ...
   role : AnyRole \cup {None},      \* ... and the role it had then
   tok : Tokens \cup {None},        \* the token presented
   ttl : 0..Life,                   \* of the key that logout is setting
   late : BOOLEAN]                  \* history: arrived after the logout
                                    \* and Redis has not failed it since

IdleRequest ==
  [pc |-> "idle", email |-> None, id |-> None, role |-> None, tok |-> None,
   ttl |-> 0, late |-> FALSE]

At(r, pc) == req[r].pc = pc

Become(r, next) == req' = [req EXCEPT ![r] = next]

Leave(r) == Become(r, IdleRequest)

Goto(r, pc) == req' = [req EXCEPT ![r].pc = pc]

Taken(e) == \E i \in Ids : users[i] # None /\ users[i].email = e

Init ==
  /\ users \in [Ids -> Account \cup {None}]
  /\ \A i, j \in Ids : users[i] # None /\ users[j] # None /\ i # j =>
       users[i].email # users[j].email
  /\ token = [t \in Tokens |-> None]
  /\ revoked = [t \in Tokens |-> 0]
  /\ phase = 0
  /\ req = [r \in Requests |-> IdleRequest]
  /\ loggedOut = {}
  /\ lost = {}

-----------------------------------------------------------------------------
(* register: findOne and, two awaits later, create.                        *)

FindAddress(r, e) ==
  /\ At(r, "idle")
  /\ ~Taken(e)                      \* otherwise a 409
  /\ Become(r, [IdleRequest EXCEPT !.pc = "insert", !.email = e])
  /\ UNCHANGED <<users, token, revoked, phase, loggedOut, lost>>

Store(i, e, role) == users' = [users EXCEPT ![i] = [email |-> e, role |-> role]]

(* Mutant of Unique: the collection has no unique index. *)
NotIndexed(e, i) == TRUE

(* The unique index: MongoDB refuses an address another account has. *)
Unique(e, i) == \A j \in Ids \ {i} : users[j] # None => users[j].email # e

Insert(r) ==
  /\ At(r, "insert")
  /\ \E i \in Ids :
       /\ users[i] = None
       /\ \/ /\ Unique(req[r].email, i)
             /\ Store(i, req[r].email, "STUDENT")
             /\ Become(r, [IdleRequest EXCEPT !.pc = "sign", !.id = i, !.role = "STUDENT"])
          \/ /\ ~Unique(req[r].email, i)           \* E11000, a 500
             /\ Leave(r)
             /\ UNCHANGED users
  /\ UNCHANGED <<token, revoked, phase, loggedOut, lost>>

(* login: findOne, or a 401. *)
FindAccount(r, i) ==
  /\ At(r, "idle")
  /\ users[i] # None
  /\ Become(r, [IdleRequest EXCEPT !.pc = "sign", !.id = i, !.role = users[i].role])
  /\ UNCHANGED <<users, token, revoked, phase, loggedOut, lost>>

(* The password may turn out wrong (401) after bcrypt's await. *)
WrongPassword(r) ==
  /\ At(r, "sign")
  /\ Leave(r)
  /\ UNCHANGED <<users, token, revoked, phase, loggedOut, lost>>

(* exp is the full second of signing plus Life. *)
Signed(id, role) == [id |-> id, role |-> role, left |-> Life]

Sign(r) ==
  /\ At(r, "sign")
  /\ \E t \in Tokens :
       /\ token[t] = None
       /\ token' = [token EXCEPT ![t] = Signed(req[r].id, req[r].role)]
  /\ Leave(r)
  /\ UNCHANGED <<users, revoked, phase, loggedOut, lost>>

-----------------------------------------------------------------------------
(* Requests with a token.  verifyJwt refuses an expired one at once; then  *)
(* it asks the revocation list.                                            *)

Present(r, t) ==
  /\ At(r, "idle")
  /\ token[t] # None
  /\ token[t].left > 0
  /\ Become(r, [IdleRequest EXCEPT !.pc = "check", !.tok = t, !.late = t \in loggedOut])
  /\ UNCHANGED <<users, token, revoked, phase, loggedOut, lost>>

Check(r) ==
  /\ At(r, "check")
  /\ IF revoked[req[r].tok] > 0 THEN Leave(r) ELSE Goto(r, "serve")
  /\ UNCHANGED <<users, token, revoked, phase, loggedOut, lost>>

(* Redis is not ready or the GET fails: the token is accepted. *)
CheckFails(r) ==
  /\ At(r, "check")
  /\ req' = [req EXCEPT ![r].pc = "serve", ![r].late = FALSE]
  /\ UNCHANGED <<users, token, revoked, phase, loggedOut, lost>>

Caller(r) == token[req[r].tok]

(* changeRole of any account, by a token that says ADMIN. *)
ChangeRole(r) ==
  /\ At(r, "serve")
  /\ Caller(r).role = "ADMIN"
  /\ \E i \in Ids, role \in Roles : users[i] # None /\ Store(i, users[i].email, role)
  /\ Leave(r)
  /\ UNCHANGED <<token, revoked, phase, loggedOut, lost>>

(* updateProfile of the caller's own account: $set of the whole body, with *)
(* the address and the role in it or as they were (name and password are   *)
(* left out).                                                              *)
UpdateMe(r) ==
  /\ At(r, "serve")
  /\ LET i == Caller(r).id IN
       /\ users[i] # None
       /\ \E e \in Emails, role \in AnyRole : Unique(e, i) /\ Store(i, e, role)
  /\ Leave(r)
  /\ UNCHANGED <<token, revoked, phase, loggedOut, lost>>

(* Everything else a request can come to changes nothing here: the limiter *)
(* turns it away, a handler answers 400, 403, 404 or 500, or it reads, or  *)
(* it is another service's.                                                *)
Use(r) ==
  /\ At(r, "serve")
  /\ Leave(r)
  /\ UNCHANGED <<users, token, revoked, phase, loggedOut, lost>>

(* logout: revoke computes the key's life and sends SET ... EX. *)
Logout(r) ==
  /\ At(r, "serve")
  /\ req' = [req EXCEPT ![r].pc = IF Caller(r).left = 0 THEN "reply" ELSE "set",
                        ![r].ttl = Caller(r).left]
  /\ UNCHANGED <<users, token, revoked, phase, loggedOut, lost>>

(* Mutant of KeyLife: the seconds are taken for smaller units. *)
KeyLifeInTicks(seconds) == seconds

(* Mutant of KeyLife: a second to be on the safe side. *)
KeyLifeRoundedUp(seconds) == (seconds + 1) * Grain

(* EX is in seconds. *)
KeyLife(seconds) == seconds * Grain

SetKey(r) ==
  /\ At(r, "set")
  /\ revoked' = [revoked EXCEPT ![req[r].tok] = KeyLife(req[r].ttl)]
  /\ lost' = lost \ {req[r].tok}
  /\ Goto(r, "reply")
  /\ UNCHANGED <<users, token, phase, loggedOut>>

(* Redis is not ready or the SET fails: only a line in the log. *)
RevokeFails(r) ==
  /\ At(r, "set")
  /\ lost' = IF revoked[req[r].tok] > 0 THEN lost ELSE lost \cup {req[r].tok}
  /\ Goto(r, "reply")
  /\ UNCHANGED <<users, token, revoked, phase, loggedOut>>

Reply(r) ==
  /\ At(r, "reply")
  /\ loggedOut' = loggedOut \cup {req[r].tok}
  /\ Leave(r)
  /\ UNCHANGED <<users, token, revoked, phase, lost>>

-----------------------------------------------------------------------------
(* MongoDB throws, or the process that serves the request dies. *)
Abort(r) ==
  /\ ~At(r, "idle")
  /\ Leave(r)
  /\ UNCHANGED <<users, token, revoked, phase, loggedOut, lost>>

(* bootstrap-admin.js, run by hand: an upsert by address. *)
BootstrapAdmin(e) ==
  /\ \E i \in Ids :
       /\ IF users[i] = None THEN Unique(e, i) ELSE users[i].email = e
       /\ Store(i, e, "ADMIN")
  /\ UNCHANGED <<token, revoked, phase, req, loggedOut, lost>>

Less(n) == IF n = 0 THEN 0 ELSE n - 1

(* Mutant of Aged: a token is signed without expiresIn. *)
AgedNever(claims) == claims

Aged(claims) == IF claims = None THEN None ELSE [claims EXCEPT !.left = Less(@)]

(* Mutant of KeyAged: SET without EX. *)
KeyAgedNever(ticks) == ticks

KeyAged(ticks) == Less(ticks)

Tick ==
  /\ phase' = IF phase + 1 = Grain THEN 0 ELSE phase + 1
  /\ token' = IF phase' = 0 THEN [t \in Tokens |-> Aged(token[t])] ELSE token
  /\ revoked' = [t \in Tokens |-> KeyAged(revoked[t])]
  /\ UNCHANGED <<users, req, loggedOut, lost>>

RedisStep(r) == Check(r) \/ CheckFails(r) \/ SetKey(r) \/ RevokeFails(r)

LocalStep(r) ==
  \/ Insert(r) \/ WrongPassword(r) \/ Sign(r)
  \/ ChangeRole(r) \/ UpdateMe(r) \/ Use(r) \/ Logout(r) \/ Reply(r)

Step(r) == RedisStep(r) \/ LocalStep(r)

Arrive(r) ==
  \/ \E e \in Emails : FindAddress(r, e)
  \/ \E i \in Ids : FindAccount(r, i)
  \/ \E t \in Tokens : Present(r, t)

Next ==
  \/ \E r \in Requests : Arrive(r) \/ Step(r) \/ Abort(r)
  \/ \E e \in Emails : BootstrapAdmin(e)
  \/ Tick

Spec == Init /\ [][Next]_vars

(* Calls to MongoDB complete or fail, and time passes; no call to Redis    *)
(* has to settle.                                                          *)
FairSpec == Spec /\ WF_vars(Tick) /\ \A r \in Requests : WF_vars(LocalStep(r))

-----------------------------------------------------------------------------
(* Accounts, tokens, keys and requests are what they should be, and no     *)
(* key lives longer than a whole token.                                    *)
TypeOK ==
  /\ users \in [Ids -> Account \cup {None}]
  /\ token \in [Tokens -> Claims \cup {None}]
  /\ revoked \in [Tokens -> 0..(Life * Grain)]
  /\ phase \in 0..(Grain - 1)
  /\ req \in [Requests -> Request]
  /\ loggedOut \subseteq Tokens
  /\ lost \subseteq Tokens

(* Two registrations, a registration and a bootstrap, or a registration    *)
(* and a change of address can all find an address free and then write     *)
(* it (authService.js:8): it still never belongs to two accounts.          *)
OneAccountPerAddress ==
  \A i, j \in Ids :
    users[i] # None /\ users[j] # None /\ i # j => users[i].email # users[j].email

(* A request that arrives after its token's logout was answered is let in  *)
(* only when Redis failed this request, had not taken the revocation, or   *)
(* the token has expired since jwt.verify (jwtMiddleware.js:31 and 42).    *)
RevokedStaysOut ==
  [][\A r \in Requests :
       At(r, "check") /\ req'[r].pc = "serve" /\ req'[r].late =>
         req[r].tok \in lost \/ Caller(r).left = 0]_vars

(* The list cleans itself up (tokenBlacklistService.js:4-5): no key stays, *)
(* however often and however late logouts are served.                      *)
RevocationsRunOut == \A t \in Tokens : <>[](revoked[t] = 0)

InForce(i, role) ==
  \/ \E t \in Tokens :
       token[t] # None /\ token[t].id = i /\ token[t].role = role /\ token[t].left > 0
  \/ \E r \in Requests :
       At(r, "serve") /\ Caller(r).id = i /\ Caller(r).role = role

(* changeRole does not reach the tokens that are out (userService.js:30).  *)
(* Once an account has lost a role for good, the tokens and requests with  *)
(* that role run out, those of logins that had read it before included.    *)
StaleRolesRunOut ==
  \A i \in Ids, role \in AnyRole :
    <>[](users[i] # None /\ users[i].role # role) => <>[]~InForce(i, role)
=============================================================================
