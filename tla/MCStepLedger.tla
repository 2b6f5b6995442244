---------------------------- MODULE MCStepLedger ----------------------------
(* Small instances of StepLedger.                                          *)
EXTENDS StepLedger, TLC

CONSTANTS a1, p1, p2, q1, q2

(* A flow of four steps with the shapes the six flows have: one check, two *)
(* checks, and a review step without checks.                               *)
MCRequired == <<<<"registry">>, <<"ubo_kyc", "sanctions">>, <<"business_credit">>, <<>>>>

MCSymmetry == Permutations({p1, p2}) \cup Permutations({q1, q2})

=============================================================================
