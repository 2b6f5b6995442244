------------------------------ MODULE MCAudit ------------------------------
(* Small instances of Audit: two steps with a check each, and a review.    *)
EXTENDS Audit

CONSTANTS a1, p1, q1, r1, r2, w1, noAnswers, noPost

MCChecks == <<<<"registry">>, <<"business_credit">>, <<>>>>

MCSameWorker == [r \in {r1, r2} |-> w1]

=============================================================================
