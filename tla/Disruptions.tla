----------------------------- MODULE Disruptions -----------------------------
(***************************************************************************)
(* From a disruption to its claims: the trigger service and the intake of  *)
(* the claims service, joined by the queue of DISRUPTION_DETECTED.  A      *)
(* disruption's UUID, its row number here, is the event id of its claims.  *)
(***************************************************************************)
EXTENDS Trigger, Intake

ASSUME EventsAssumption == 1 .. MaxRows \subseteq Events

dvars == <<tvars, ivars>>

\* The broker accepts the message of a cycle, or of POST /trigger/mock, and
\* routes it to the queue claims.disruption.
CycleAnnounces(r) ==
  /\ DisruptionPublished(r) /\ ReceiveEvent(cycle[r].row)
  /\ UNCHANGED <<claims, task, deadEvents, initiated, silent, bounds>>

ManualAnnounces(i) ==
  /\ ManualPublished(i) /\ ReceiveEvent(i)
  /\ UNCHANGED <<claims, task, deadEvents, initiated, silent, bounds>>

\* Callers of POST /claims/auto name disruptions that exist.
AutoRequested(t) ==
  \E n \in DOMAIN Users, e \in DOMAIN disruptions, k \in Keys : AutoCreate(t, n, e, k)

ServiceStep(t) == IntakeStep(t) \/ TakeAny(t)

DisruptionsNext ==
  \/ Quietly /\ UNCHANGED ivars
  \/ \E r \in Replicas : CycleAnnounces(r)
  \/ \E i \in manual : ManualAnnounces(i)
  \/ \E t \in IntakeThreads :
       /\ ServiceStep(t) \/ AutoRequested(t) \/ StatementFails(t) \/ IntakeCrash(t)
       /\ UNCHANGED tvars

\* Consumer threads keep running; nothing is assumed of schedulers, callers or
\* faults.
DisruptionsSpec ==
  /\ TriggerInit /\ IntakeInit /\ [][DisruptionsNext]_dvars
  /\ \A t \in IntakeWorkers : WF_dvars(IntakeStep(t) /\ UNCHANGED tvars)
  /\ \A t \in IntakeWorkers : WF_dvars(TakeAny(t) /\ UNCHANGED tvars)

-----------------------------------------------------------------------------
(* Properties of the composition.                                          *)

\* Consumer thread t has taken the message of event e and is not through with it.
Handles(t, e) == task[t].event = e /\ task[t].pc \notin {"idle", "done"}

\* An announced disruption is not forgotten halfway: until every insured user has a claim
\* or the message is in the dead-letter queue, the message is queued or a consumer is at
\* work on it, whatever batches stop between two users, are published again or die with
\* their process, and whoever else inserts the claims.
AnnouncedNotForgotten ==
  \A e \in announced :
    \/ \E r \in 0 .. IntakeRetries : inbox[<<e, r>>] > 0
    \/ \E t \in IntakeWorkers : Handles(t, e)
    \/ e \in deadEvents
    \/ Covered(e)

\* What was announced leads to a claim for every insured user, through partial
\* failures of the batch and redeliveries, or to the dead-letter queue.
AnnouncedIsCovered ==
  \A e \in Events : (e \in announced) ~> (Covered(e) \/ e \in deadEvents)
=============================================================================
