------------------------------ MODULE Journey ------------------------------
(***************************************************************************)
(* One application on its way through a real flow: the configuration       *)
(* (Flows), the validation of what is posted (Forms) and the checks        *)
(* (Screening), put on top of the serial ledger.  Where StepLedger lets    *)
(* any verdict happen, here the answers determine it.                      *)
(*                                                                         *)
(* A submission that is refused (400, 409) or not decided (503, 500)       *)
(* changes nothing and is no step; the ways it can be refused under        *)
(* concurrency are the subject of Onboarding.                              *)
(***************************************************************************)
EXTENDS Screening

CONSTANTS App, NoAnswers,
          MaxVersion    \* bounds the accepted submissions

VARIABLES key, status, version, responses, logs, decision

vars == <<key, status, version, responses, logs, decision>>

(* validate_step_payload applied to all there is to post, by flow and step.*)
Payloads ==
    [k \in FlowKey |->
       [s \in 1 .. Len(flow_registry[k]) |->
          CleanPayloads(flow_registry[k][s], k.country)]]

ChecksOf(k) ==
    [s \in 1 .. Len(flow_registry[k]) |-> flow_registry[k][s].required_integrations]

(* The serial ledger of the applications of one flow.  The version serves  *)
(* as request id: the middleware gives every request a fresh one.          *)
Ledger(k) == INSTANCE StepLedger WITH
    Answers <- UNION {Payloads[k][s] : s \in 1 .. Len(flow_registry[k])},
    Integration <- IntegrationName,
    RequestId <- 1 .. MaxVersion,
    NumSteps <- Len(flow_registry[k]),
    Required <- ChecksOf(k)

Init == \E k \in FlowKey : key = k /\ Ledger(k)!Init

StartApplication(a) ==
    \E k \in FlowKey :
        /\ key = k
        /\ Ledger(k)!StartApplication(a)
        /\ UNCHANGED key

Outcomes(k, s, form) ==
    [j \in 1 .. Len(ChecksOf(k)[s]) |-> Outcome(ChecksOf(k)[s][j], form)]

(* process_step_submission, when every provider answers.                   *)
Submit(a, k, s, form) ==
    /\ key = k
    /\ \A j \in 1 .. Len(ChecksOf(k)[s]) : Outcomes(k, s, form)[j] \in CheckOutcome
    /\ Ledger(k)!Accept(a, s, form, version[a], Outcomes(k, s, form))
    /\ UNCHANGED key

Next ==
    \E a \in App :
        \/ StartApplication(a)
        \/ /\ version[a] < MaxVersion
           /\ \E k \in {key} : \E s \in 1 .. Len(flow_registry[k]) :
                \E form \in Payloads[k][s] : Submit(a, k, s, form)

Spec == Init /\ [][Next]_vars

-----------------------------------------------------------------------------
(***************************************************************************)
(* Properties.                                                             *)
(***************************************************************************)

Flow == flow_registry[key]
Answered(a, s) == responses[a][s] # NoAnswers

(* No market is a trap: whatever the customer has answered so far, while   *)
(* his application is open there is an answer to its next step that passes *)
(* every check of that step.  A flow that does not ask for a field one of  *)
(* its checks needs, or whose validation refuses what the check wants,     *)
(* would turn every customer down (README.md:55, "adding a new market").   *)
NoDeadEnd ==
    \A a \in App, s \in 1 .. Len(Flow) :
        /\ status[a] \in CUSTOMER_SUBMITTABLE_STATUSES
        /\ ~Answered(a, s)
        => \E form \in Payloads[key][s] :
             \A j \in 1 .. Len(ChecksOf(key)[s]) : Outcomes(key, s, form)[j] = "APPROVED"

(* Nobody is approved, in any market and by any detour through earlier     *)
(* steps, without every confirmation his flow insists on.                  *)
ConfirmedWhenApproved ==
    \A a \in App : status[a] = "APPROVED" =>
        \A s \in 1 .. Len(Flow) : \A field \in Flow[s].requires_true :
            responses[a][s][field] = TRUE

(* The stored answers to a field, wherever the flow asks for it.           *)
Stored(a, field) ==
    {responses[a][s][field] :
        s \in {t \in 1 .. Len(Flow) : Answered(a, t) /\ field \in DOMAIN responses[a][t]}}

StoredAt(a, fields) ==
    {s \in 1 .. Len(Flow) : Answered(a, s) /\ fields \subseteq DOMAIN responses[a][s]}

(* The rules about numbers hold of numbers: validation lets nan through    *)
(* (forms.py:97-108), and nan passes each comparison it is part of         *)
(* (decisioning.py:49-72), though no other.  Indebtedness is limited up to *)
(* the rounding of the ratio, which is 0 for who has no income.            *)
Affordable(form) ==
    LET income == form["monthly_income"]
        expenses == form["monthly_expenses"]
        debts == form["outstanding_debts"] IN
    /\ NotANumber \notin {income, expenses} => income > expenses
    /\ NotANumber \notin {income, debts} /\ income > 0 => 20000 * debts <= 12001 * income

VolumeFits(form) ==
    LET turnover == form["annual_turnover"]
        volume == form["expected_monthly_volume"] IN
    /\ turnover # NotANumber => turnover > 0
    /\ NotANumber \notin {turnover, volume} => volume <= turnover

(* The rules of README.md:73-80, read off the answers in the tables and    *)
(* not off the checks: whoever is approved satisfies all of them that      *)
(* apply to what his flow asks.  Only the count of owners is safe from     *)
(* nan, which int() refuses.  (The identity rule is about a private        *)
(* customer: of the representatives of a company only the Spanish ones are *)
(* looked up, and no Spanish number ends in digits.)                       *)
RulesHoldWhenApproved ==
    \A a \in App : status[a] = "APPROVED" =>
        /\ Stored(a, "personal_identity_number") \cap {"ends 0000", "ends 1111"} = {}
        /\ Stored(a, "company_identifier") \cap {"starts 00", "ends 1111"} = {}
        /\ Stored(a, "tax_residency") \cap {"IR", "KP", "SY"} = {}
        /\ TRUE \notin Stored(a, "is_pep")
        /\ \A count \in Stored(a, "ubo_count") : count # NotANumber /\ count >= 1
        /\ \A share \in Stored(a, "largest_ownership_percent") :
             share # NotANumber => share < 75
        /\ FALSE \notin Stored(a, "has_signatory_authority")
        /\ "FINANCIAL_SERVICES" \notin Stored(a, "sector")
        /\ Stored(a, "iban") \cap {"ends 9999", "ends 0000"} = {}
        /\ \A s \in StoredAt(a, {"monthly_income", "monthly_expenses"}) :
             Affordable(responses[a][s])
        /\ \A s \in StoredAt(a, {"annual_turnover"}) : VolumeFits(responses[a][s])

(* A customer the bureau flags as a high leverage risk is referred         *)
(* (tests/test_decisioning.py:17).                                         *)
FlaggedIsReferred ==
    \A a \in App : \A row \in logs[a] :
        /\ row.service = "credit_bureau"
        /\ "HIGH_LEVERAGE_RISK" \in credit_assessment(row.answers).flags
        => row.outcome # "APPROVED"

(* Every number that is stored is a number: web/forms.py:101 refuses what  *)
(* is not with "must be a valid number".                                   *)
StoredNumbersAreNumbers ==
    \A a \in App, field \in NUMBER_FIELDS : NotANumber \notin Stored(a, field)

=============================================================================
