----------------------------- MODULE Screening -----------------------------
(***************************************************************************)
(* What a check says about a step's answers: the provider mocks            *)
(* (integrations/), the handlers of the runner that feed them, and the     *)
(* decision engine (domain/decisioning.py).                                *)
(*                                                                         *)
(* Money is in whole units, the debt to income ratio in units of 1/10000,  *)
(* which is what round(ratio, 4) leaves of it.  Where the ratio is half    *)
(* way between two such units, the float that stands for it is a little    *)
(* above or below, and round() goes by the float.                          *)
(***************************************************************************)
EXTENDS Forms, Application

CONSTANT FloatIsBelow   \* the <<income, debts>> whose ratio as a float is
                        \* below the exact one

(* form_data.get(field); a field the step does not ask for is None, which  *)
(* each handler converts to the default given here.                        *)
Get(form, field, default) == IF field \in DOMAIN form THEN form[field] ELSE default

(* Float arithmetic as far as it matters: not-a-number is contagious.      *)
Minus(x, y) == IF NotANumber \in {x, y} THEN NotANumber ELSE x - y
AtMost(x, y) == Less(x, y) \/ (x = y /\ x # NotANumber)

-----------------------------------------------------------------------------
(* Identity, registry and bank account: the provider's verdict stands.     *)

verify(pin) ==
    CASE pin = "ends 0000" -> "REJECTED"
      [] pin = "ends 1111" -> "MANUAL_REVIEW"
      [] pin \notin {"ends 0000", "ends 1111"} -> "APPROVED"

lookup_entity(company) ==
    CASE company = "starts 00" -> "REJECTED"
      [] company = "ends 1111" -> "MANUAL_REVIEW"
      [] company \notin {"starts 00", "ends 1111"} -> "APPROVED"

(* An IBAN that ends in 0000 hangs past every timeout of the runner.       *)
validate_iban(iban) ==
    CASE iban = "ends 0000" -> "unavailable"
      [] iban = "ends 9999" -> "MANUAL_REVIEW"
      [] iban \notin {"ends 0000", "ends 9999"} -> "APPROVED"

identity_check(form) ==
    verify(IF "personal_identity_number" \in DOMAIN form
           THEN form["personal_identity_number"]
           ELSE Get(form, "representative_id", ""))

-----------------------------------------------------------------------------
(* The other checks: facts from the provider, verdict from the engine.     *)

DTI_THRESHOLD == 6000                       \* 0.60
OWNERSHIP_CONCENTRATION_THRESHOLD == 75
HIGH_RISK_SECTORS == {"financial_services"}
SANCTIONED_RESIDENCIES == {"IR", "KP", "SY"}

(* outstanding_debts / monthly_income > DTI_THRESHOLD, before rounding.    *)
HighLeverage(income, debts) ==
    Less(0, income) /\ debts # NotANumber /\ debts * 10000 > DTI_THRESHOLD * income

(* round(debts / income, 4), in units of 1/10000.                          *)
Round(income, debts) ==
    LET up == (20000 * debts + income) \div (2 * income)
        half_way == 2 * income * up = 20000 * debts + income IN
    IF half_way /\ <<income, debts>> \in FloatIsBelow THEN up - 1 ELSE up

RoundedRatio(income, debts) ==
    CASE ~Less(0, income) -> 0
      [] Less(0, income) /\ debts = NotANumber -> NotANumber
      [] Less(0, income) /\ debts # NotANumber -> Round(income, debts)

evaluate(income, expenses, debts) ==
    LET surplus == Minus(income, expenses) IN
    [disposable_income |-> surplus,
     debt_to_income_ratio |-> RoundedRatio(income, debts),
     flags |-> CASE AtMost(surplus, 0) -> {"NEGATIVE_SURPLUS"}
                 [] ~AtMost(surplus, 0) /\ HighLeverage(income, debts)
                        -> {"HIGH_LEVERAGE_RISK"}
                 [] ~AtMost(surplus, 0) /\ ~HighLeverage(income, debts) -> {}]

(* Rejected on the one condition, else referred on the other.              *)
Judge(reject, refer) ==
    CASE reject -> "REJECTED"
      [] ~reject /\ refer -> "MANUAL_REVIEW"
      [] ~reject /\ ~refer -> "APPROVED"

credit_assessment(form) ==
    evaluate(Get(form, "monthly_income", 0), Get(form, "monthly_expenses", 0),
             Get(form, "outstanding_debts", 0))

assess_affordability(assessment) ==
    Judge(AtMost(assessment.disposable_income, 0),
          Less(DTI_THRESHOLD, assessment.debt_to_income_ratio))

(* MockSanctionsCheckService.                                              *)
check(tax_residency, is_pep) ==
    [sanctions_hit |-> tax_residency \in SANCTIONED_RESIDENCIES, pep_hit |-> is_pep]

assess_sanctions(screening) == Judge(screening.sanctions_hit, screening.pep_hit)

(* int() of a count that is not a number raises ValueError.                *)
assess_ownership(form) ==
    LET ubo_count == Get(form, "ubo_count", 0) IN
    IF ubo_count = NotANumber THEN "error"
    ELSE Judge(ubo_count <= 0,
               AtMost(OWNERSHIP_CONCENTRATION_THRESHOLD,
                      Get(form, "largest_ownership_percent", 0)))

Lower(sector) ==
    CASE sector = "RETAIL" -> "retail"
      [] sector = "FINANCIAL_SERVICES" -> "financial_services"
      [] sector \notin {"RETAIL", "FINANCIAL_SERVICES"} -> sector

\* Mutant: the sector is compared as the form leaves it.
BusinessCreditNoLower(form) ==
    LET turnover == Get(form, "annual_turnover", 0) IN
    Judge(AtMost(turnover, 0),
          \/ Get(form, "sector", "") \in HIGH_RISK_SECTORS
          \/ Less(turnover, Get(form, "expected_monthly_volume", 0)))

assess_business_credit(form) ==
    LET turnover == Get(form, "annual_turnover", 0) IN
    Judge(AtMost(turnover, 0),
          \/ Lower(Get(form, "sector", "")) \in HIGH_RISK_SECTORS
          \/ Less(turnover, Get(form, "expected_monthly_volume", 0)))

assess_representative_authority(form) ==
    Judge(FALSE, ~Get(form, "has_signatory_authority", FALSE))

-----------------------------------------------------------------------------
(* IntegrationRunner's dispatch: a verdict, or "unavailable" or "error".   *)
Outcome(integration, form) ==
    CASE integration = "identity" -> identity_check(form)
      [] integration = "registry" -> lookup_entity(Get(form, "company_identifier", ""))
      [] integration = "bank_account" -> validate_iban(Get(form, "iban", ""))
      [] integration = "address_lookup" -> "APPROVED"
      [] integration = "credit_bureau" -> assess_affordability(credit_assessment(form))
      [] integration = "sanctions" 
            -> assess_sanctions(check(Get(form, "tax_residency", ""),
                                      Get(form, "is_pep", FALSE)))
      [] integration = "ubo_kyc" -> assess_ownership(form)
      [] integration = "business_credit" -> assess_business_credit(form)
      [] integration = "representative" -> assess_representative_authority(form)

=============================================================================
