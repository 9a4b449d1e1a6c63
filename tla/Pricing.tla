------------------------------ MODULE Pricing ------------------------------
(***************************************************************************)
(* PricingService.calculate of the policy and pricing service              *)
(* (src/backend/services/policy-pricing-service).  Money is in hundredths. *)
(* Zone rates are 3, 5 and 8 two-hundredths, the stabilization factor is   *)
(* 20 or 21 twentieths, risk multipliers and GST are in hundredths.        *)
(***************************************************************************)
EXTENDS Integers

Zones == {"LR-1", "MR-2", "HR-3"}

ZoneRate == [z \in Zones |-> IF z = "LR-1" THEN 3 ELSE IF z = "MR-2" THEN 5 ELSE 8]

\* A mistake in the place of StabilizationFactor: added to the later weeks.
StabilizationLate(week) == IF week > 4 THEN 21 ELSE 20

StabilizationFactor(week) == IF week <= 4 THEN 21 ELSE 20

\* n \div d rounded half up.
RoundHalfUp(n, d) == (2 * n + d) \div (2 * d)

BasePremium(income, zone, week, risk) ==
  RoundHalfUp(income * ZoneRate[zone] * StabilizationFactor(week) * risk, 400000)

Gst(base) == RoundHalfUp(18 * base, 100)

TotalPremium(income, zone, week, risk) ==
  LET base == BasePremium(income, zone, week, risk) IN base + Gst(base)
=============================================================================
