------------------------------ MODULE MCEvents ------------------------------
(* Small instances of Events for TLC: an approval, whose message carries an id, *)
(* and a completed payout, whose message carries neither an id nor a time.      *)
EXTENDS Events, TLC

CONSTANTS approved, completed

MCRoutingKey == approved :> "claim.approved" @@ completed :> "payout.completed"
MCQueues == {"analytics", "notification", "payout"}
AllKeys == {"claim.approved", "payout.completed", "#"}
MCBinding == [q \in MCQueues |-> IF q = "payout" THEN {"claim.approved"} ELSE AllKeys]
=============================================================================
