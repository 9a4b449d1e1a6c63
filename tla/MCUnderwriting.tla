--------------------------- MODULE MCUnderwriting ---------------------------
(* A small instance of Underwriting for TLC. *)
EXTENDS Underwriting, TLC

CONSTANTS t1, t2

App(income, zone, week, days, paid, complete) ==
  [income |-> income, zone |-> zone, week |-> week, days |-> days, paid |-> paid,
   complete |-> complete]

\* One that can be covered, and a slightly cheaper one that is not paid.
MCApplications ==
  {App(20050, "HR-3", 4, 3, TRUE, FALSE), App(20049, "HR-3", 5, 7, FALSE, TRUE)}

Symmetry == Permutations(Threads)

MCTrainedScore == "LR-1" :> 9000 @@ "MR-2" :> 5000 @@ "HR-3" :> 1000

MCConsultations == {[zone |-> "LR-1", metrics |-> ClaimMetrics("HIGH", "weather")]}
=============================================================================
