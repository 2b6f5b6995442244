----------------------------- MODULE CheckLoop -----------------------------
(***************************************************************************)
(* The contract between a handler and the checks it awaits: the loop of    *)
(* process_step_submission over the required integrations, as the handler  *)
(* sees it.  Onboarding relies on it, IntegrationRunner keeps it.          *)
(***************************************************************************)
EXTENDS Naturals, Sequences, Application

CONSTANT Required   \* the checks of the step, in order

VARIABLES
    pc,         \* run: in the loop; select: at the unit of work; reply; idle
    outcomes,   \* the verdicts collected so far
    failure     \* what the handler answers instead of a verdict

vars == <<pc, outcomes, failure>>

Init ==
    /\ pc = "run"
    /\ outcomes = <<>>
    /\ failure = "none"

(* The next check has a verdict; after the last one the loop is left.      *)
CheckReturns(outcome) ==
    /\ pc = "run"
    /\ Len(outcomes) < Len(Required)
    /\ outcomes' = Append(outcomes, outcome)
    /\ pc' = IF Len(outcomes) + 1 < Len(Required) THEN "run" ELSE "select"
    /\ UNCHANGED failure

(* 503 or 500: no verdict is kept.                                         *)
CheckFails ==
    /\ pc = "run"
    /\ pc' = "reply"
    /\ outcomes' = <<>>
    /\ failure' \in {"unavailable", "error"}

(* The handler is cancelled, or its process dies.                          *)
Stops ==
    /\ pc = "run"
    /\ pc' = "idle"
    /\ outcomes' = <<>>
    /\ failure' = "none"

Next == (\E outcome \in CheckOutcome : CheckReturns(outcome)) \/ CheckFails \/ Stops

Spec == Init /\ [][Next]_vars

=============================================================================
