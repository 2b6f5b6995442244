----------------------------- MODULE StepLedger -----------------------------
(***************************************************************************)
(* What the onboarding service promises about its tables, said without     *)
(* requests, sessions or workers: submissions are accepted one at a time,  *)
(* each one judged against the application as it is at that moment, and    *)
(* each one writes its step response, its log rows, the status, the        *)
(* version and, when it ends the flow, the decision in one step.           *)
(*                                                                         *)
(* README.md ("single unit of work", "concurrency is optimistic") states   *)
(* the promise; module Onboarding shows that the handlers keep it.         *)
(***************************************************************************)
EXTENDS OnboardingData

VARIABLES
    status,     \* applications.status; "ABSENT" when there is no row
    version,    \* applications.version; 0 when there is no row
    responses,  \* step_responses, by application and step
    logs,       \* integration_logs, by application
    decision    \* decisions, by application

vars == <<status, version, responses, logs, decision>>

Answered(a, s) == responses[a][s] # NoAnswers

TypeOK ==
    /\ status \in [App -> ApplicationStatus \cup {"ABSENT"}]
    /\ version \in [App -> Nat]
    /\ responses \in [App -> [Steps -> Answers \cup {NoAnswers}]]
    /\ logs \in [App -> SUBSET LogRow]
    /\ decision \in [App -> DecisionRecord]

Init ==
    /\ status = [a \in App |-> "ABSENT"]
    /\ version = [a \in App |-> 0]
    /\ responses = [a \in App |-> [s \in Steps |-> NoAnswers]]
    /\ logs = [a \in App |-> {}]
    /\ decision = [a \in App |-> NoDecision]

StartApplication(a) ==
    /\ status[a] = "ABSENT"
    /\ status' = [status EXCEPT ![a] = "STARTED"]
    /\ version' = [version EXCEPT ![a] = 1]
    /\ UNCHANGED <<responses, logs, decision>>

(***************************************************************************)
(* The submission of answers p to step s is accepted.                      *)
(***************************************************************************)

\* Mutant: one step may be skipped.
OpenToSkip(a, s) ==
    /\ IsCustomerSubmittable(status[a])
    /\ \A t \in 1 .. (s - 2) : Answered(a, t)

\* Mutant: only the order of the steps is checked, not the status.
OpenToOrderOnly(a, s) ==
    /\ status[a] # "ABSENT"
    /\ \A t \in 1 .. (s - 1) : Answered(a, t)

OpenTo(a, s) ==
    /\ IsCustomerSubmittable(status[a])
    /\ \A t \in 1 .. (s - 1) : Answered(a, t)

(* One log row per application, check and request: _app_service_request_uc.*)
FreshRows(a, s, request_id) ==
    \A row \in logs[a] : \A k \in 1 .. Len(Required[s]) :
        ~(row.service = Required[s][k] /\ row.request_id = request_id)

Accept(a, s, p, request_id, verdicts) ==
    /\ OpenTo(a, s)
    /\ responses[a][s] # p
    /\ FreshRows(a, s, request_id)
    /\ status' = [status EXCEPT ![a] = FinalStatus(s, verdicts)]
    /\ version' = [version EXCEPT ![a] = @ + 1]
    /\ responses' = [responses EXCEPT ![a][s] = p]
    /\ logs' = [logs EXCEPT ![a] = @ \cup Rows(s, p, request_id, verdicts)]
    /\ decision' =
         IF FinalStatus(s, verdicts) = "IN_PROGRESS" THEN decision
         ELSE [decision EXCEPT ![a] = [outcome |-> FinalStatus(s, verdicts),
                                       reasons |-> Reasons(s, verdicts)]]

Next ==
    \/ \E a \in App : StartApplication(a)
    \/ \E a \in App, s \in Steps, p \in Answers, request_id \in RequestId :
         \E verdicts \in Verdicts(s) : Accept(a, s, p, request_id, verdicts)

Spec == Init /\ [][Next]_vars

-----------------------------------------------------------------------------
(***************************************************************************)
(* Properties.                                                             *)
(***************************************************************************)

(* The saved responses of an application are a prefix of its flow: no      *)
(* order of submissions leaves a gap, which is what the resume lookup and  *)
(* the render guard take for granted when they search for the first step   *)
(* without a response.                                                     *)
ResponsesArePrefix ==
    \A a \in App, s \in Steps, t \in Steps :
        t < s /\ Answered(a, s) => Answered(a, t)

(* Check i came back clean about the answers that step s holds now.        *)
Cleared(a, s, i) ==
    \E row \in logs[a] : /\ row.service = i
                         /\ row.answers = responses[a][s]
                         /\ row.outcome = "APPROVED"

AllChecksCleared(a, s) ==
    \A k \in 1 .. Len(Required[s]) : Cleared(a, s, Required[s][k])

(* An approval is earned: every step of the flow holds answers, and every  *)
(* check the flow requires was passed by exactly the answers that are      *)
(* stored - also when the customer went back and replaced them.            *)
ApprovalIsEarned ==
    \A a \in App : status[a] = "APPROVED" =>
        \A s \in Steps : Answered(a, s) /\ AllChecksCleared(a, s)

HasRow(a, outcome) == \E row \in logs[a] : row.outcome = outcome

(* The log and the status tell one story: an application is rejected iff   *)
(* some check rejected it, and parked for review iff some check referred   *)
(* it and none rejected it.  No adverse verdict is ever on record for an   *)
(* application that is still open or was approved.                         *)
VerdictsDecide ==
    \A a \in App :
        /\ (status[a] = "REJECTED") <=> HasRow(a, "REJECTED")
        /\ (status[a] = "MANUAL_REVIEW") <=>
               HasRow(a, "MANUAL_REVIEW") /\ ~HasRow(a, "REJECTED")

AdverseRows(a) == {row \in logs[a] : row.outcome # "APPROVED"}

(* There is a decision row iff the application is closed; it carries the   *)
(* status, and its reasons are exactly the adverse rows of the log.        *)
DecisionMatchesRecord ==
    \A a \in App :
        /\ IsClosed(status[a]) => decision[a].outcome = status[a]
        /\ ~IsClosed(status[a]) => decision[a] = NoDecision
        /\ decision[a].reasons =
               {<<row.service, row.outcome>> : row \in AdverseRows(a)}

(* An application that is still open has a step left to do: its last step  *)
(* is unanswered, so the resume lookup never falls back to the last step.  *)
OpenHasStepLeft ==
    \A a \in App : IsCustomerSubmittable(status[a]) => ~Answered(a, NumSteps)

(* Once closed, an application never changes again, in any table.          *)
ClosedNeverChanges ==
    [][\A a \in App : IsClosed(status[a]) =>
          /\ status'[a] = status[a]
          /\ version'[a] = version[a]
          /\ responses'[a] = responses[a]
          /\ logs'[a] = logs[a]
          /\ decision'[a] = decision[a]]_vars

=============================================================================
