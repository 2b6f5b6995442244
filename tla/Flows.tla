------------------------------- MODULE Flows -------------------------------
(***************************************************************************)
(* The configuration: the six onboarding flows, one per market and account *)
(* type, and the field catalogue.  Titles, descriptions, labels and the    *)
(* sensitivity of a field are left out.  Every field of every flow is      *)
(* required (FormFieldConfig.is_required), so only requires_true is kept.  *)
(***************************************************************************)
EXTENDS Naturals, Sequences

Country == {"SWEDEN", "SPAIN", "POLAND"}
AccountType == {"private", "business"}

IntegrationName ==
    {"identity", "address_lookup", "sanctions", "credit_bureau", "registry",
     "representative", "ubo_kyc", "business_credit", "bank_account"}

(* FIELD_CATALOG, by field type.                                           *)
BOOLEAN_FIELDS == {"is_pep", "has_signatory_authority", "consent"}
NUMBER_FIELDS ==
    {"monthly_income", "monthly_expenses", "outstanding_debts",
     "annual_turnover", "expected_monthly_volume", "ubo_count",
     "largest_ownership_percent"}
SELECT_FIELDS == {"legal_form", "tax_residency", "sector"}
TEXT_FIELDS ==
    {"personal_identity_number", "representative_id", "company_identifier",
     "representative_name", "legal_name", "address", "province",
     "phone_number", "iban"}

FlowStep(step_id, fields, requires_true, required_integrations) ==
    [step_id |-> step_id, fields |-> fields, requires_true |-> requires_true,
     required_integrations |-> required_integrations]

review_consent == FlowStep("review_consent", {"consent"}, {"consent"}, <<>>)

-----------------------------------------------------------------------------
(* The three private flows differ in what they ask about the address.      *)
IndividualFlow(contact_fields) ==
  <<FlowStep("collect_identity", {"personal_identity_number"}, {}, <<"identity">>),
    FlowStep("confirm_contact", contact_fields, {}, <<"address_lookup">>),
    FlowStep("regulatory_declarations", {"is_pep", "tax_residency"}, {}, <<"sanctions">>),
    FlowStep("financial_profile",
        {"monthly_income", "monthly_expenses", "outstanding_debts"}, {},
        <<"credit_bureau">>),
    review_consent>>

sweden_individual_flow == IndividualFlow({"address", "phone_number"})
poland_individual_flow == IndividualFlow({"address", "phone_number"})
spain_individual_flow == IndividualFlow({"address", "province", "phone_number"})

Company == {"company_identifier", "legal_name", "legal_form"}
Activity == {"sector", "annual_turnover", "expected_monthly_volume"}

\* Mutant: the authority is checked but not asked for.
BusinessFlowNoAuthority(company, representative_checks, profile, profile_checks) ==
  <<FlowStep("business_identity", company, {}, <<"registry">>),
    FlowStep("representative", {"representative_name", "representative_id"}, {},
        representative_checks),
    FlowStep("beneficial_owners", {"ubo_count", "largest_ownership_percent"}, {},
        <<"ubo_kyc", "sanctions">>),
    FlowStep("business_profile", profile, {}, profile_checks),
    review_consent>>

(* The three business flows differ in the company's address, the identity  *)
(* check of the representative, and the bank account.                      *)
BusinessFlow(company, representative_checks, profile, profile_checks) ==
  <<FlowStep("business_identity", company, {}, <<"registry">>),
    FlowStep("representative",
        {"representative_name", "representative_id", "has_signatory_authority"},
        {"has_signatory_authority"}, representative_checks),
    FlowStep("beneficial_owners", {"ubo_count", "largest_ownership_percent"}, {},
        <<"ubo_kyc", "sanctions">>),
    FlowStep("business_profile", profile, {}, profile_checks),
    review_consent>>

sweden_business_flow ==
    BusinessFlow(Company, <<"representative">>, Activity, <<"business_credit">>)
poland_business_flow ==
    BusinessFlow(Company, <<"representative">>,
                 Activity \cup {"iban"}, <<"business_credit", "bank_account">>)
spain_business_flow ==
    BusinessFlow(Company \cup {"address"}, <<"identity", "representative">>,
                 Activity \cup {"iban"}, <<"business_credit", "bank_account">>)

-----------------------------------------------------------------------------
(* flow_registry: the key is the upper-case country and the lower-case     *)
(* account type, as create_application stores them.                        *)
FlowKey == [country : Country, account_type : AccountType]

flow_registry ==
  [k \in FlowKey |->
     CASE k = [country |-> "SWEDEN", account_type |-> "private"] -> sweden_individual_flow
       [] k = [country |-> "SWEDEN", account_type |-> "business"] -> sweden_business_flow
       [] k = [country |-> "SPAIN", account_type |-> "private"] -> spain_individual_flow
       [] k = [country |-> "SPAIN", account_type |-> "business"] -> spain_business_flow
       [] k = [country |-> "POLAND", account_type |-> "private"] -> poland_individual_flow
       [] k = [country |-> "POLAND", account_type |-> "business"] -> poland_business_flow]

=============================================================================
