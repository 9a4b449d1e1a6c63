---------------------------- MODULE MCDisruptions ----------------------------
(* One replica of the trigger service with one connection, and two insured   *)
(* users: the disruption may come from the scheduler or from the API.        *)
EXTENDS Disruptions

CONSTANTS r1, c1, rain, u1, u2, k1, a1, a2, w1

MCPoolOf == [c \in {c1} |-> r1]

MCPolls == <<rain>>

MCUsers == <<u1, u2>>
=============================================================================
