------------------------------ MODULE EventBus ------------------------------
(***************************************************************************)
(* The topic exchange devtrails.events, its queues and their dead-letter   *)
(* queues, and the way every consumer of the repository treats a message   *)
(* it could not handle: as the shared worker does, it publishes the body   *)
(* again to the exchange, with the retry count in a header, and            *)
(* acknowledges the message.  Publishing again to the exchange reaches     *)
(* every queue whose binding matches, not only the one that failed.        *)
(***************************************************************************)
EXTENDS Naturals, Sequences

CONSTANTS
  BusEvents,   \* business events, each published once by its producer
  RoutingKey,  \* routing key each is published under
  Queues,      \* names of the bound queues
  Binding,     \* the routing keys each queue's pattern matches
  RetryLimit   \* settings.retry_limit

ASSUME EventBusAssumption ==
  /\ RetryLimit \in Nat
  /\ DOMAIN Binding = Queues /\ DOMAIN RoutingKey = BusEvents

VARIABLES
  boxes,      \* messages ready in each queue, in order
  dead,       \* events in each queue's dead-letter queue
  published   \* events their producer has published

busVars == <<boxes, dead, published>>

Keys == UNION {Binding[q] : q \in Queues}
BusMessage == [event : BusEvents, key : Keys, retries : 0..RetryLimit]

BusInit ==
  /\ boxes = [q \in Queues |-> <<>>]
  /\ dead = [q \in Queues |-> {}]
  /\ published = {}

\* The exchange appends a copy to every queue bound under the message's key.
Route(m) ==
  boxes' = [q \in Queues |-> IF m.key \in Binding[q] THEN Append(boxes[q], m) ELSE boxes[q]]

PublishEvent(e) ==
  /\ e \notin published
  /\ published' = published \cup {e}
  /\ Route([event |-> e, key |-> RoutingKey[e], retries |-> 0])
  /\ UNCHANGED dead

Waiting(q) == boxes[q] # <<>>
Get(q) == boxes' = [boxes EXCEPT ![q] = Tail(@)]
\* An unacknowledged message goes back to the head of its queue.
PutBack(q, m) == boxes' = [boxes EXCEPT ![q] = <<m>> \o @]

\* A failed message: again to the exchange under key, or to q's dead-letter queue.
Again(q, m, key) ==
  IF m.retries < RetryLimit
  THEN /\ Route([event |-> m.event, key |-> key, retries |-> m.retries + 1])
       /\ UNCHANGED <<dead, published>>
  ELSE /\ dead' = [dead EXCEPT ![q] = @ \cup {m.event}]
       /\ UNCHANGED <<boxes, published>>

Copies(q, e) == {i \in DOMAIN boxes[q] : boxes[q][i].event = e}

BusTypeOK ==
  /\ boxes \in [Queues -> Seq(BusMessage)]
  /\ dead \in [Queues -> SUBSET BusEvents] /\ published \subseteq BusEvents
=============================================================================
