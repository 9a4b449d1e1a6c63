------------------------------ MODULE MCPayout ------------------------------
(* Small instances of Payout for TLC.  Keys are spelled as the two callers in
   the repository derive them: claims-service sends claim-<id>, the payout
   consumer uses claim-approved-<id>.  All claims belong to one worker.      *)
EXTENDS PayoutRefinement

CONSTANT worker

MCUsers == {worker}
MCUserOf == [c \in Claims |-> worker]
MCKeys == {"claim", "claim-approved"} \X Claims
MCEventKey == [c \in Claims |-> <<"claim-approved", c>>]
=============================================================================
