----------------------------- MODULE MCSession -----------------------------
(* Small instances of Session: a step with one check, and a review step.   *)
EXTENDS Session, TLC

CONSTANTS a1, a2, p1, p2, t1, t2, noAnswers, noApp, noForm

MCRequired == <<<<"registry">>, <<>>>>

MCPageSymmetry == Permutations({p1, p2}) \cup Permutations({t1, t2})
MCRaceSymmetry == Permutations({a1, a2}) \cup Permutations({t1, t2})

=============================================================================
