------------------------------ MODULE MCTrigger ------------------------------
(* Two replicas of the trigger service, the first with two pooled connections, *)
(* polling one condition.                                                      *)
EXTENDS Trigger

CONSTANTS c1, c2, c3, r1, r2, rain

MCPoolOf == [c \in {c1, c2, c3} |-> IF c = c3 THEN r2 ELSE r1]

MCPolls == <<rain>>
=============================================================================
