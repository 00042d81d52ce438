------------------------------ MODULE Delivery ------------------------------
(***************************************************************************)
(* What the delivery of events promises, without saying how: an event that *)
(* is published stays open until all its notifications are sent or it is   *)
(* discarded.  While it is open any of them may be sent, also again; once  *)
(* it is closed none is, and it is never open again.                       *)
(***************************************************************************)
CONSTANTS
  Messages,   \* the events
  Needed      \* the notifications that each of them needs

VARIABLES
  published,  \* the events published so far
  open,       \* those that may still be notified
  notified,   \* for each event, the notifications that have been sent
  purged      \* the events that were discarded

deliveryVars == <<published, open, notified, purged>>

Init ==
  /\ published = {}
  /\ open = {}
  /\ notified = [m \in Messages |-> {}]
  /\ purged = {}

Publish(m) ==
  /\ m \notin published
  /\ published' = published \cup {m}
  /\ open' = open \cup {m}
  /\ UNCHANGED <<notified, purged>>

Notify(m) ==
  /\ m \in open
  /\ \E n \in Needed[m] : notified' = [notified EXCEPT ![m] = @ \cup {n}]
  /\ UNCHANGED <<published, open, purged>>

(* Events are discarded together.  One of which another copy is left       *)
(* stays open.                                                             *)
Discard ==
  /\ \E some \in SUBSET open :
       /\ purged' = purged \cup some
       /\ open \ some \subseteq open' /\ open' \subseteq open
  /\ UNCHANGED <<published, notified>>

Settled(m) == notified[m] = Needed[m] \/ m \in purged

Close ==
  /\ open' \subseteq open
  /\ \A m \in open \ open' : Settled(m)
  /\ UNCHANGED <<published, notified, purged>>

Next == Discard \/ Close \/ \E m \in Messages : Publish(m) \/ Notify(m)

Spec == Init /\ [][Next]_deliveryVars
=============================================================================
