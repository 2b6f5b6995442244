-------------------------- MODULE OnboardingData ---------------------------
(***************************************************************************)
(* The data of the onboarding service: the flow an application walks       *)
(* through, the rows of the four tables, and what a step's verdicts do to  *)
(* the application.  Shared by the promise (StepLedger) and by the         *)
(* request handlers that keep it (Onboarding).                             *)
(*                                                                         *)
(* A step is its position in FlowConfig.steps.  The answers of a step are  *)
(* one value: the form after validation, which is also what the payload    *)
(* fingerprint stands for (SHA-256 of the canonical JSON, taken to be free *)
(* of collisions), so two payloads have one fingerprint iff they are equal.*)
(***************************************************************************)
EXTENDS Naturals, Sequences, Application

CONSTANTS
    App,            \* application ids
    Answers,        \* validated answers of a step
    Integration,    \* names of the external checks
    RequestId,      \* values of X-Request-ID
    NumSteps,       \* number of steps of the flow
    Required,       \* Required[s]: the checks of step s, in the order they run
    NoAnswers       \* the step has no saved response

ASSUME FlowAssumption ==
    /\ NumSteps \in Nat \ {0}
    /\ Required \in [1 .. NumSteps -> Seq(Integration)]
    /\ \A s \in 1 .. NumSteps : \A j, k \in 1 .. Len(Required[s]) :
         Required[s][j] = Required[s][k] => j = k

ASSUME SentinelAssumption == NoAnswers \notin Answers

Steps == 1 .. NumSteps

\* Mutant: the last step has a successor.
NextStepOffByOne(s) == IF s <= NumSteps THEN s + 1 ELSE 0

(* FlowConfig.get_next_step_id; 0 stands for None.                         *)
NextStep(s) == IF s < NumSteps THEN s + 1 ELSE 0

(***************************************************************************)
(* The tables.                                                             *)
(***************************************************************************)

(* One integration_logs row.  The provider's raw response is represented   *)
(* by the answers it was asked about.                                      *)
LogRow == [service : Integration, outcome : CheckOutcome,
           answers : Answers, request_id : RequestId]

Reason == Integration \X CheckOutcome

(* One decisions row; outcome "NONE" means that there is no row.           *)
DecisionRecord == [outcome : ApplicationStatus \cup {"NONE"},
                   reasons : SUBSET Reason]

NoDecision == [outcome |-> "NONE", reasons |-> {}]

(***************************************************************************)
(* The effect of one step submission.  verdicts[k] is the outcome of the   *)
(* k-th required check.                                                    *)
(***************************************************************************)

Verdicts(s) == [1 .. Len(Required[s]) -> CheckOutcome]

RejectedBy(verdicts) == \E k \in DOMAIN verdicts : verdicts[k] = "REJECTED"
ReferredBy(verdicts) == \E k \in DOMAIN verdicts : verdicts[k] = "MANUAL_REVIEW"

\* Mutant: a referral is looked for before a rejection.
FinalStatusReferFirst(s, verdicts) ==
    CASE ReferredBy(verdicts) -> "MANUAL_REVIEW"
      [] ~ReferredBy(verdicts) /\ RejectedBy(verdicts) -> "REJECTED"
      [] ~ReferredBy(verdicts) /\ ~RejectedBy(verdicts)
            -> IF NextStep(s) = 0 THEN "APPROVED" ELSE "IN_PROGRESS"

\* Mutant: the end of the flow has a status the enumeration lacks.
FinalStatusCompleted(s, verdicts) ==
    IF RejectedBy(verdicts) \/ ReferredBy(verdicts) THEN "REJECTED"
    ELSE IF NextStep(s) = 0 THEN "COMPLETED" ELSE "IN_PROGRESS"

\* Mutant: referrals do not stop the flow.
FinalStatusIgnoresReferral(s, verdicts) ==
    CASE RejectedBy(verdicts) -> "REJECTED"
      [] ~RejectedBy(verdicts) /\ NextStep(s) = 0 -> "APPROVED"
      [] ~RejectedBy(verdicts) /\ NextStep(s) # 0 -> "IN_PROGRESS"

(* The worst verdict wins; with no adverse verdict the last step approves. *)
FinalStatus(s, verdicts) ==
    CASE RejectedBy(verdicts) -> "REJECTED"
      [] ~RejectedBy(verdicts) /\ ReferredBy(verdicts) -> "MANUAL_REVIEW"
      [] ~RejectedBy(verdicts) /\ ~ReferredBy(verdicts)
            -> IF NextStep(s) = 0 THEN "APPROVED" ELSE "IN_PROGRESS"

\* Mutant: only the worst results are kept.
ReasonsWorstOnly(s, verdicts) ==
    {<<Required[s][k], verdicts[k]>> :
        k \in {j \in DOMAIN verdicts : verdicts[j] = FinalStatus(s, verdicts)
                                       /\ verdicts[j] # "APPROVED"}}

(* Every adverse result, not only the first one.                           *)
Reasons(s, verdicts) ==
    {<<Required[s][k], verdicts[k]>> :
        k \in {j \in DOMAIN verdicts : verdicts[j] # "APPROVED"}}

Rows(s, answers, request_id, verdicts) ==
    {[service |-> Required[s][k], outcome |-> verdicts[k],
      answers |-> answers, request_id |-> request_id] : k \in DOMAIN verdicts}

=============================================================================
