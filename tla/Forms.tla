------------------------------- MODULE Forms -------------------------------
(***************************************************************************)
(* web/forms.py: from what the browser posts for a step to the answers the *)
(* service sees, or a 400.                                                 *)
(*                                                                         *)
(* A text is a class of texts: "malformed" does not match the pattern of   *)
(* its field (or is blank), and of the well-formed ones those are told     *)
(* apart that a provider treats differently.  A number is an integer or    *)
(* "nan", which float() takes in every number field; infinite amounts are  *)
(* left out.                                                               *)
(***************************************************************************)
EXTENDS Integers, Flows

CONSTANTS
    Amount,         \* the amounts of money that are tried
    NotANumber,     \* "nan", which float() takes
    Garbage         \* blank, or a text float() refuses

ASSUME NumberAssumption ==
    /\ Amount \subseteq Int \cup {NotANumber}
    /\ NotANumber \notin Int
    /\ Garbage \notin Int \cup {NotANumber}

(* x < y of floats: false when either is not a number.                     *)
Less(x, y) == x # NotANumber /\ y # NotANumber /\ x < y

(* What may be posted in a field.                                          *)
Entry(field) ==
    CASE field \in {"personal_identity_number", "representative_id"}
            -> {"malformed", "plain", "ends 0000", "ends 1111"}
      [] field = "company_identifier"
            -> {"malformed", "plain", "starts 00", "ends 1111"}
      [] field = "iban" -> {"malformed", "plain", "ends 9999", "ends 0000"}
      [] field \in {"representative_name", "legal_name", "address", "province",
                    "phone_number"} -> {"malformed", "plain"}
      [] field = "legal_form" -> {"unlisted", "listed"}
      [] field = "tax_residency" -> {"unlisted", "SE", "IR"}
      [] field = "sector" -> {"unlisted", "retail", "financial_services"}
      [] field \in BOOLEAN_FIELDS -> {"off", "on"}
      [] field = "ubo_count" -> {Garbage, NotANumber, -1, 0, 1}
      [] field = "largest_ownership_percent"
            -> {Garbage, NotANumber, -1, 74, 75, 100, 101}
      [] field \in {"monthly_income", "monthly_expenses", "outstanding_debts",
                    "annual_turnover", "expected_monthly_volume"}
            -> {Garbage, -1} \cup Amount

(* Which classes of text the patterns of a country let through: a Spanish  *)
(* DNI/NIE ends in a letter and a Spanish NIF begins with one.             *)
ValidText(field, country, text) ==
    /\ text # "malformed"
    /\ field \in {"personal_identity_number", "representative_id"} /\ country = "SPAIN"
         => text \notin {"ends 0000", "ends 1111"}
    /\ field = "company_identifier" /\ country = "SPAIN" => text # "starts 00"

ValidNumber(field, n) ==
    /\ n # Garbage
    /\ ~Less(n, 0)
    /\ field = "largest_ownership_percent" => ~Less(100, n)
    /\ field = "ubo_count" => ~Less(n, 1)

\* Mutant: requires_true is not looked at.
ValidCheckboxAny(step, field, entry) == TRUE

ValidCheckbox(step, field, entry) ==
    field \in step.requires_true => entry = "on"

Valid(step, country, field, entry) ==
    CASE field \in BOOLEAN_FIELDS -> ValidCheckbox(step, field, entry)
      [] field \in NUMBER_FIELDS -> ValidNumber(field, entry)
      [] field \in SELECT_FIELDS -> entry # "unlisted"
      [] field \in TEXT_FIELDS -> ValidText(field, country, entry)

(* text_value.upper() of the options that are not in upper case already.   *)
Upper(entry) ==
    CASE entry = "retail" -> "RETAIL"
      [] entry = "financial_services" -> "FINANCIAL_SERVICES"
      [] entry \notin {"retail", "financial_services"} -> entry

Clean(field, entry) ==
    CASE field \in BOOLEAN_FIELDS -> entry = "on"
      [] field \in SELECT_FIELDS -> Upper(entry)
      [] field \in NUMBER_FIELDS \cup TEXT_FIELDS -> entry

(* What validation leaves of some entry in a field.                        *)
CleanEntries(step, country, field) ==
    {Clean(field, entry) : entry \in {e \in Entry(field) : Valid(step, country, field, e)}}

(* A valid answer to each of some fields of one kind.                      *)
CleanParts(step, country, fields) ==
    {part \in [fields -> UNION {CleanEntries(step, country, f) : f \in fields}] :
        \A f \in fields : part[f] \in CleanEntries(step, country, f)}

(* The parts of a form put together.  They are kept apart because TLC      *)
(* compares no text with a number.                                         *)
Together(fields, flags, numbers, texts) ==
    [f \in fields |->
       CASE f \in BOOLEAN_FIELDS -> flags[f]
         [] f \in NUMBER_FIELDS -> numbers[f]
         [] f \notin BOOLEAN_FIELDS \cup NUMBER_FIELDS -> texts[f]]

(* The answers validate_step_payload returns for some form or other: the   *)
(* fields are validated one by one, and the form is refused when one is.   *)
CleanPayloads(step, country) ==
    LET parts(kind) == CleanParts(step, country, step.fields \cap kind) IN
    {Together(step.fields, flags, numbers, texts) :
       flags \in parts(BOOLEAN_FIELDS), numbers \in parts(NUMBER_FIELDS),
       texts \in parts(TEXT_FIELDS \cup SELECT_FIELDS)}

=============================================================================
