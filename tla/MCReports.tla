------------------------------ MODULE MCReports ------------------------------
(* Five events of one day and the next, of the kinds the services publish.     *)
EXTENDS Reports

Event(id, type, zone, user, amount, severity, at) ==
  [id |-> id, type |-> type, zone |-> zone, user |-> user, amount |-> amount,
   severity |-> severity, at |-> at]

MCProduced ==
  {Event(1, "DISRUPTION_DETECTED", "z1", None, 0, "HIGH", 0),
   Event(2, "DISRUPTION_DETECTED", "z1", None, 0, "LOW", 1),
   Event(3, "CLAIM_INITIATED", None, "u1", 0, None, 1),
   Event(4, "PAYOUT_COMPLETED", None, "u1", 5, None, 2),
   Event(5, "POLICY_CREATED", "z2", "u2", 3, None, 2)}

MCBucketSize == [hour |-> 1, day |-> 2]
=============================================================================
