----------------------------- MODULE MCLearning -----------------------------
(* Two trainings or two reviews, three of them in all, of two predictions that may be  *)
(* alike or of two zones, and two exports.  One labelled row is enough to be used.      *)
EXTENDS Learning

MCArtifacts == <<"risk_model_v1_1", "risk_model_v1_2">>

CONSTANTS LowRisk, HighRisk  \* zones

MCPayloads == {[zone |-> z, level |-> 50, score |-> 60] : z \in {LowRisk, HighRisk}}

\* A zone is compared and never looked at.
MCSymmetry == Permutations({LowRisk, HighRisk})

MCReviews == {[outcome |-> 90, label |-> None], [outcome |-> None, label |-> "LOW"],
              [outcome |-> None, label |-> None]}

MCBaselines ==
  [k \in 0..2 |-> [level |-> [mean |-> 45, deviation |-> 20],
                   score |-> [mean |-> 45, deviation |-> IF k = 1 THEN 5 ELSE 20]]]
=============================================================================
