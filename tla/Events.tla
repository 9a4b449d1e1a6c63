------------------------------- MODULE Events -------------------------------
(***************************************************************************)
(* What the platform's consumers do to each other through the exchange:    *)
(* the analytics service (Analytics), the notification service's bus       *)
(* thread, both bound to every routing key, and the payout queue bound to  *)
(* claim.approved, whose consumer is modelled in Payout.  The bus thread   *)
(* creates the notification, hands its delivery to Celery and acknowledges.*)
(* A message it could not handle it publishes under its own binding, "#",  *)
(* which only the queues bound to everything match.                        *)
(***************************************************************************)
EXTENDS Analytics

CONSTANT Announced  \* events of type CLAIM_APPROVED or PAYOUT_COMPLETED

ASSUME ExchangeAssumption ==
  /\ IsFiniteSet(BusEvents) /\ BusEvents # {}
  /\ {"analytics", "notification", "payout"} \subseteq Queues
  /\ Binding["notification"] # {} /\ "#" \notin Binding["payout"]

VARIABLES
  bus_consumer,  \* the notification service's bus thread and its message
  notes,         \* notification rows created, per event
  delivered      \* deliveries handed to Celery, per event

noteVars == <<bus_consumer, notes, delivered>>
eventVars == <<busVars, analyticsVars, noteVars>>

EventsInit ==
  /\ BusInit /\ AnalyticsInit
  /\ bus_consumer = Rest
  /\ notes = [e \in BusEvents |-> 0] /\ delivered = [e \in BusEvents |-> 0]

NoteAt(pc) == bus_consumer.pc = pc
NoteGo(pc) == bus_consumer' = [bus_consumer EXCEPT !.pc = pc]
noteOthers == <<event_rows, metrics, stats, cache, ingest, reader, resent>>

\* Events of other types are acknowledged as they are.
HandleMessage ==
  /\ NoteAt("idle") /\ Waiting("notification")
  /\ LET m == Head(boxes["notification"]) IN
       bus_consumer' = [pc |-> IF m.event \in Announced THEN "create" ELSE "ack", msg |-> m]
  /\ Get("notification")
  /\ UNCHANGED <<dead, published, analyticsVars, notes, delivered>>

CreateNotification ==
  /\ NoteAt("create") /\ NoteGo("enqueue")
  /\ notes' = [notes EXCEPT ![bus_consumer.msg.event] = @ + 1]
  /\ UNCHANGED <<busVars, analyticsVars, delivered>>

\* A mistake in the place of EnqueueDelivery: nothing is handed over.
EnqueueNothing ==
  /\ NoteAt("enqueue") /\ NoteGo("ack")
  /\ UNCHANGED <<busVars, analyticsVars, notes, delivered>>

EnqueueDelivery ==
  /\ NoteAt("enqueue") /\ NoteGo("ack")
  /\ delivered' = [delivered EXCEPT ![bus_consumer.msg.event] = @ + 1]
  /\ UNCHANGED <<busVars, analyticsVars, notes>>

NoteAck ==
  /\ NoteAt("ack") /\ bus_consumer' = Rest
  /\ UNCHANGED <<busVars, analyticsVars, notes, delivered>>

\* A mistake in the place of NoteError: the row is created again within the message.
NoteErrorRepeats ==
  /\ NoteAt("enqueue") /\ NoteGo("create")
  /\ UNCHANGED <<busVars, analyticsVars, notes, delivered>>

\* The database or the broker refuses; a row created before stays.
NoteError ==
  /\ bus_consumer.pc \in {"create", "enqueue"} /\ Fault /\ NoteGo("failed")
  /\ UNCHANGED <<busVars, noteOthers, notes, delivered>>

NoteRetry ==
  /\ NoteAt("failed") /\ NoteGo("ack")
  /\ Again("notification", bus_consumer.msg, "#")
  /\ UNCHANGED <<analyticsVars, notes, delivered>>

NoteCrash ==
  /\ ~NoteAt("idle") /\ Fault
  /\ PutBack("notification", bus_consumer.msg) /\ bus_consumer' = Rest
  /\ UNCHANGED <<dead, published, noteOthers, notes, delivered>>

NoteStep ==
  \/ HandleMessage \/ CreateNotification \/ EnqueueDelivery
  \/ NoteAck \/ NoteRetry

EventsNext ==
  \/ \E e \in BusEvents : PublishEvent(e) /\ UNCHANGED <<analyticsVars, noteVars>>
  \/ AnalyticsNext /\ UNCHANGED noteVars
  \/ NoteStep \/ NoteError \/ NoteCrash

\* Both consumer threads run on and a cached answer expires; producers, dashboard
\* requests and failures are not forced.
EventsSpec ==
  /\ EventsInit /\ [][EventsNext]_eventVars
  /\ WF_eventVars(IngestStep /\ UNCHANGED noteVars)
  /\ WF_eventVars(CacheExpires /\ UNCHANGED noteVars)
  /\ \A r \in Readers : WF_eventVars(StoreDashboard(r) /\ UNCHANGED noteVars)
  /\ WF_eventVars(NoteStep)

-----------------------------------------------------------------------------

\* The tables, queues and consumer threads have their shape.
EventsTypeOK ==
  /\ BusTypeOK /\ AnalyticsTypeOK
  /\ bus_consumer.msg \in BusMessage
  /\ bus_consumer.pc \in {"idle", "create", "enqueue", "ack", "failed"}
  /\ notes \in [BusEvents -> Nat] /\ delivered \in [BusEvents -> Nat]

\* Every failure, of either consumer, puts at most one more copy of an event before
\* the notification service: a user is told of an approval or a payment at most once
\* more than things went wrong, and no delivery is made for a row that does not exist.
ToldOncePerFailure ==
  \A e \in BusEvents :
    /\ delivered[e] <= notes[e]
    /\ notes[e] + Cardinality(Copies("notification", e)) <= 1 + failures

\* The payout queue gets an approval again when the analytics service fails on it
\* under its own key, and never because the notification service failed.
ApprovalCopies ==
  \A e \in BusEvents :
    Cardinality(Copies("payout", e)) <= 1 + resent[e]

\* A message reaches a dead-letter queue after more failures than the retry limit,
\* counted over all consumers: they share the header.
DeadAfterRetries ==
  \A q \in Queues : dead[q] # {} => failures > RetryLimit

\* Every published event is counted and its user's delivery handed over, or it is in
\* the dead-letter queue of the consumer that could not.
EventsArrive ==
  \A e \in BusEvents :
    e \in published ~>
      /\ event_rows[e] > 0 \/ e \in dead["analytics"]
      /\ e \in Announced => delivered[e] > 0 \/ e \in dead["notification"]

\* The analytics tables count every identified event once and their totals lag only
\* behind failures, whatever copies the consumers put on the shared exchange.
EventsCounted == EventsTypeOK /\ TotalsTrailRows /\ CountedOnce

\* Copies of an event multiply with failures only: for the user who is told, for the
\* payout queue, and on the way to the dead letters.
CopiesBounded == ToldOncePerFailure /\ ApprovalCopies /\ DeadAfterRetries
=============================================================================
