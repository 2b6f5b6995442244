---------------------------- MODULE MCOnboarding ----------------------------
(* Small instances of Onboarding: one application, two requests.          *)
EXTENDS Onboarding, TLC

CONSTANTS a1, p1, p2, q1, q2, q3, r1, r2, w1, w2, noAnswers, noPost

(* A flow of two steps: two checks, and a review without any.              *)
MCTwoChecks == <<<<"ubo_kyc", "sanctions">>, <<>>>>

MCSameWorker == [r \in {r1, r2} |-> w1]
MCOwnWorker == (r1 :> w1) @@ (r2 :> w2)

MCSymmetry == Permutations({p1, p2}) \cup Permutations({q1, q2, q3})
                \cup Permutations({r1, r2})

=============================================================================
