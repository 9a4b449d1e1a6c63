------------------------------- MODULE MCAccess -------------------------------
(* Calls of the owner of one phone, two attempts each.                         *)
EXTENDS Access

CONSTANTS q1, q2, q3

MCJobs == Calls \X (1 .. Attempts)
=============================================================================
