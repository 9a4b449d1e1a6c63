------------------------------ MODULE MCClaims ------------------------------
(* Small instances of Claims for TLC: all constants are given in the .cfg.   *)
EXTENDS Claims
=============================================================================
