--------------------------- MODULE Journey_proofs ---------------------------
(***************************************************************************)
(* What the outcome of a journey says about the answers, for any number of *)
(* applications and submissions and any set of amounts.                    *)
(*                                                                         *)
(* The argument has three parts.  The configuration gives every check the  *)
(* fields it reads (FlowsAreScreened).  Along a journey, every answer that *)
(* is held was let through by validation and, unless the application was   *)
(* stopped, passed the checks of its step (Inv).  A passed check is a rule *)
(* about its answers (the lemmas that come first).                         *)
(***************************************************************************)
EXTENDS Journey, TLAPS

Fields == BOOLEAN_FIELDS \cup NUMBER_FIELDS \cup TEXT_FIELDS \cup SELECT_FIELDS

LEMMA KindsAreDisjoint ==
    /\ BOOLEAN_FIELDS \cap NUMBER_FIELDS = {}
    /\ BOOLEAN_FIELDS \cap (TEXT_FIELDS \cup SELECT_FIELDS) = {}
    /\ NUMBER_FIELDS \cap (TEXT_FIELDS \cup SELECT_FIELDS) = {}
    /\ TEXT_FIELDS \cap SELECT_FIELDS = {}
  BY DEF BOOLEAN_FIELDS, NUMBER_FIELDS, TEXT_FIELDS, SELECT_FIELDS

-----------------------------------------------------------------------------
(* The answers validation returns are the valid ones, field by field: no   *)
(* field is lost, none is added, and every combination is let through.     *)

LEMMA PartsAreClean ==
    ASSUME NEW step, NEW country, NEW fields, NEW part
    PROVE  part \in CleanParts(step, country, fields) <=>
             /\ part = [f \in fields |-> part[f]]
             /\ \A f \in fields : part[f] \in CleanEntries(step, country, f)
<1> DEFINE all == UNION {CleanEntries(step, country, f) : f \in fields}
<1>1. part \in [fields -> all] <=>
        /\ part = [f \in fields |-> part[f]]
        /\ \A f \in fields : part[f] \in all
  OBVIOUS
<1>2. \A f \in fields : CleanEntries(step, country, f) \subseteq all
  OBVIOUS
<1> HIDE DEF all
<1>3. (\A f \in fields : part[f] \in CleanEntries(step, country, f))
        => \A f \in fields : part[f] \in all
  BY <1>2
<1>4. CleanParts(step, country, fields) =
        {p \in [fields -> all] : \A f \in fields : p[f] \in CleanEntries(step, country, f)}
  BY DEF CleanParts, all
<1> QED BY <1>1, <1>3, <1>4

LEMMA PayloadIsClean ==
    ASSUME NEW step, NEW country, step.fields \subseteq Fields,
           NEW form \in CleanPayloads(step, country)
    PROVE  /\ DOMAIN form = step.fields
           /\ \A f \in step.fields : form[f] \in CleanEntries(step, country, f)
<1> DEFINE B == step.fields \cap BOOLEAN_FIELDS
           N == step.fields \cap NUMBER_FIELDS
           T == step.fields \cap (TEXT_FIELDS \cup SELECT_FIELDS)
<1>1. PICK flags \in CleanParts(step, country, B),
           numbers \in CleanParts(step, country, N),
           texts \in CleanParts(step, country, T) :
        form = Together(step.fields, flags, numbers, texts)
  BY DEF CleanPayloads
<1>2. /\ \A f \in B : flags[f] \in CleanEntries(step, country, f)
      /\ \A f \in N : numbers[f] \in CleanEntries(step, country, f)
      /\ \A f \in T : texts[f] \in CleanEntries(step, country, f)
  BY PartsAreClean
<1>3. ASSUME NEW f \in step.fields PROVE form[f] \in CleanEntries(step, country, f)
  <2>1. CASE f \in BOOLEAN_FIELDS
    BY <1>1, <1>2, <2>1, KindsAreDisjoint DEF Together
  <2>2. CASE f \in NUMBER_FIELDS
    BY <1>1, <1>2, <2>2, KindsAreDisjoint DEF Together
  <2>3. CASE f \in TEXT_FIELDS \cup SELECT_FIELDS
    BY <1>1, <1>2, <2>3, KindsAreDisjoint DEF Together
  <2> QED BY <2>1, <2>2, <2>3 DEF Fields
<1> QED BY <1>1, <1>3 DEF Together

LEMMA CleanIsPayload ==
    ASSUME NEW step, NEW country, NEW form, step.fields \subseteq Fields,
           form = [f \in step.fields |-> form[f]],
           \A f \in step.fields : form[f] \in CleanEntries(step, country, f)
    PROVE  form \in CleanPayloads(step, country)
<1> DEFINE B == step.fields \cap BOOLEAN_FIELDS
           N == step.fields \cap NUMBER_FIELDS
           T == step.fields \cap (TEXT_FIELDS \cup SELECT_FIELDS)
           flags == [f \in B |-> form[f]]
           numbers == [f \in N |-> form[f]]
           texts == [f \in T |-> form[f]]
           merged == Together(step.fields, flags, numbers, texts)
<1>1. /\ flags \in CleanParts(step, country, B)
      /\ numbers \in CleanParts(step, country, N)
      /\ texts \in CleanParts(step, country, T)
  BY PartsAreClean
<1>2. merged \in CleanPayloads(step, country)
  <2> HIDE DEF flags, numbers, texts
  <2> QED BY <1>1 DEF CleanPayloads
<1>3. ASSUME NEW f \in step.fields PROVE merged[f] = form[f]
  <2>1. CASE f \in BOOLEAN_FIELDS
    BY <2>1 DEF Together
  <2>2. CASE f \in NUMBER_FIELDS
    BY <2>2, KindsAreDisjoint DEF Together
  <2>3. CASE f \in TEXT_FIELDS \cup SELECT_FIELDS
    BY <2>3, KindsAreDisjoint DEF Together
  <2> QED BY <2>1, <2>2, <2>3 DEF Fields
<1>4. merged = form
  BY <1>3 DEF Together
<1> QED BY <1>2, <1>4

-----------------------------------------------------------------------------
(* What validation leaves of the entries of a field, by the kind of field. *)

LEMMA CleanFlag ==
    ASSUME NEW step, NEW country, NEW f \in BOOLEAN_FIELDS
    PROVE  /\ CleanEntries(step, country, f) \subseteq BOOLEAN
           /\ f \in step.requires_true =>
                \A v \in CleanEntries(step, country, f) : v = TRUE
           /\ TRUE \in CleanEntries(step, country, f)
           /\ f \notin step.requires_true => FALSE \in CleanEntries(step, country, f)
<1>1. Entry(f) = {"off", "on"}
  BY Zenon DEF Entry, BOOLEAN_FIELDS
<1>2. ASSUME NEW e
      PROVE  /\ Valid(step, country, f, e) <=> ValidCheckbox(step, f, e)
             /\ Clean(f, e) = (e = "on")
  BY KindsAreDisjoint, Zenon DEF Valid, Clean
<1> QED BY <1>1, <1>2 DEF CleanEntries, ValidCheckbox

Money == {"monthly_income", "monthly_expenses", "outstanding_debts",
          "annual_turnover", "expected_monthly_volume"}

LEMMA CleanNumber ==
    ASSUME NEW step, NEW country, NEW f \in NUMBER_FIELDS
    PROVE  CleanEntries(step, country, f) = {e \in Entry(f) : ValidNumber(f, e)}
<1>1. ASSUME NEW e
      PROVE  /\ Valid(step, country, f, e) <=> ValidNumber(f, e)
             /\ Clean(f, e) = e
  BY KindsAreDisjoint, Zenon DEF Valid, Clean
<1> QED BY <1>1 DEF CleanEntries

LEMMA CleanMoney ==
    ASSUME NEW step, NEW country, NEW f \in Money
    PROVE  /\ CleanEntries(step, country, f) \subseteq Nat \cup {NotANumber}
           /\ \A n \in Amount \cap Nat : n \in CleanEntries(step, country, f)
<1>1. Entry(f) = {Garbage, -1} \cup Amount
  BY Zenon DEF Entry, Money, BOOLEAN_FIELDS
<1>2. f \in NUMBER_FIELDS /\ f \notin {"largest_ownership_percent", "ubo_count"}
  BY DEF Money, NUMBER_FIELDS
<1>3. CleanEntries(step, country, f) = {e \in {Garbage, -1} \cup Amount : ValidNumber(f, e)}
  BY <1>1, <1>2, CleanNumber
<1>4. ASSUME NEW n \in Int PROVE ValidNumber(f, n) <=> n >= 0
  BY <1>2, NumberAssumption DEF ValidNumber, Less
<1>5. ~ValidNumber(f, Garbage) /\ ~ValidNumber(f, -1)
  BY <1>4 DEF ValidNumber
<1>6. \A n \in Amount \cap Nat : n \in CleanEntries(step, country, f)
  BY <1>3, <1>4
<1>7. ASSUME NEW n \in CleanEntries(step, country, f)
      PROVE  n \in Amount /\ (n = NotANumber \/ n \in Nat)
  <2>1. n \in {Garbage, -1} \cup Amount /\ ValidNumber(f, n)
    BY <1>3
  <2>2. n \in Amount
    BY <2>1, <1>5
  <2>3. n = NotANumber \/ n \in Int
    BY <2>2, NumberAssumption
  <2> QED BY <2>1, <2>2, <2>3, <1>4
<1> QED BY <1>6, <1>7

LEMMA CleanShare ==
    ASSUME NEW step, NEW country
    PROVE  /\ CleanEntries(step, country, "largest_ownership_percent")
                \subseteq Nat \cup {NotANumber}
           /\ CleanEntries(step, country, "ubo_count") \subseteq {NotANumber, 1}
           /\ 74 \in CleanEntries(step, country, "largest_ownership_percent")
           /\ 1 \in CleanEntries(step, country, "ubo_count")
<1>1. /\ Entry("largest_ownership_percent") = {Garbage, NotANumber, -1, 74, 75, 100, 101}
      /\ Entry("ubo_count") = {Garbage, NotANumber, -1, 0, 1}
  BY Zenon DEF Entry, BOOLEAN_FIELDS
<1>2. {"largest_ownership_percent", "ubo_count"} \subseteq NUMBER_FIELDS
  BY DEF NUMBER_FIELDS
<1> QED BY <1>1, <1>2, CleanNumber, NumberAssumption DEF ValidNumber, Less

-----------------------------------------------------------------------------
(* The verdict of a check, read as a rule about the answers it was given.  *)

LEMMA Given ==
    ASSUME NEW form, NEW field, NEW default, field \in DOMAIN form
    PROVE  Get(form, field, default) = form[field]
  BY DEF Get

LEMMA IdentityRule ==
    ASSUME NEW form, "personal_identity_number" \in DOMAIN form,
           Outcome("identity", form) = "APPROVED"
    PROVE  form["personal_identity_number"] \notin {"ends 0000", "ends 1111"}
<1>1. Outcome("identity", form) = verify(form["personal_identity_number"])
  BY DEF Outcome, identity_check
<1> QED BY <1>1 DEF verify

LEMMA RegistryRule ==
    ASSUME NEW form, "company_identifier" \in DOMAIN form,
           Outcome("registry", form) = "APPROVED"
    PROVE  form["company_identifier"] \notin {"starts 00", "ends 1111"}
<1>1. Outcome("registry", form) = lookup_entity(form["company_identifier"])
  BY Given DEF Outcome
<1> QED BY <1>1 DEF lookup_entity

LEMMA AccountRule ==
    ASSUME NEW form, "iban" \in DOMAIN form,
           Outcome("bank_account", form) = "APPROVED"
    PROVE  form["iban"] \notin {"ends 9999", "ends 0000"}
<1>1. Outcome("bank_account", form) = validate_iban(form["iban"])
  BY Given DEF Outcome
<1> QED BY <1>1 DEF validate_iban

LEMMA SanctionsRule ==
    ASSUME NEW form, {"tax_residency", "is_pep"} \subseteq DOMAIN form,
           form["is_pep"] \in BOOLEAN,
           Outcome("sanctions", form) = "APPROVED"
    PROVE  form["tax_residency"] \notin {"IR", "KP", "SY"} /\ ~form["is_pep"]
<1> DEFINE hit == form["tax_residency"] \in SANCTIONED_RESIDENCIES
<1>1. Outcome("sanctions", form) = Judge(hit, form["is_pep"])
  BY Given DEF Outcome, assess_sanctions, check
<1>2. ~hit /\ ~form["is_pep"]
  BY <1>1, Zenon DEF Judge
<1> QED BY <1>2 DEF SANCTIONED_RESIDENCIES

LEMMA OwnershipRule ==
    ASSUME NEW form, {"ubo_count", "largest_ownership_percent"} \subseteq DOMAIN form,
           form["largest_ownership_percent"] \in Nat \cup {NotANumber},
           Outcome("ubo_kyc", form) = "APPROVED"
    PROVE  /\ form["ubo_count"] # NotANumber
           /\ form["largest_ownership_percent"] # NotANumber =>
                form["largest_ownership_percent"] < 75
<1> DEFINE none == form["ubo_count"] <= 0
           large == AtMost(75, form["largest_ownership_percent"])
<1>1. Outcome("ubo_kyc", form) = assess_ownership(form)
  BY DEF Outcome
<1>2. form["ubo_count"] # NotANumber /\ assess_ownership(form) = Judge(none, large)
  BY <1>1, Given DEF assess_ownership, OWNERSHIP_CONCENTRATION_THRESHOLD
<1>3. ~large
  BY <1>1, <1>2, Zenon DEF Judge
<1> QED BY <1>2, <1>3, NumberAssumption DEF AtMost, Less

LEMMA BusinessCreditRule ==
    ASSUME NEW form,
           {"sector", "annual_turnover", "expected_monthly_volume"} \subseteq DOMAIN form,
           form["annual_turnover"] \in Nat \cup {NotANumber},
           form["expected_monthly_volume"] \in Nat \cup {NotANumber},
           Outcome("business_credit", form) = "APPROVED"
    PROVE  form["sector"] # "FINANCIAL_SERVICES" /\ VolumeFits(form)
<1> DEFINE nothing == AtMost(form["annual_turnover"], 0)
           risky == \/ Lower(form["sector"]) \in HIGH_RISK_SECTORS
                    \/ Less(form["annual_turnover"], form["expected_monthly_volume"])
<1>1. Outcome("business_credit", form) = Judge(nothing, risky)
  BY Given DEF Outcome, assess_business_credit
<1>2. ~nothing /\ ~risky
  BY <1>1, Zenon DEF Judge
<1>3. form["sector"] # "FINANCIAL_SERVICES"
  BY <1>2 DEF Lower, HIGH_RISK_SECTORS
<1>4. VolumeFits(form)
  BY <1>2, NumberAssumption DEF VolumeFits, AtMost, Less
<1> QED BY <1>3, <1>4

LEMMA RepresentativeRule ==
    ASSUME NEW form, "has_signatory_authority" \in DOMAIN form,
           form["has_signatory_authority"] \in BOOLEAN,
           Outcome("representative", form) = "APPROVED"
    PROVE  form["has_signatory_authority"] = TRUE
<1>1. Outcome("representative", form) = Judge(FALSE, ~form["has_signatory_authority"])
  BY Given DEF Outcome, assess_representative_authority
<1> QED BY <1>1, Zenon DEF Judge

(* Debts of 0.60005 of the income are half way: the float decides.         *)
Below60005(i, d) ==
    \/ 20000 * d < 12001 * i
    \/ 20000 * d = 12001 * i /\ <<i, d>> \in FloatIsBelow

LEMMA Rounding ==
    ASSUME NEW i \in Int, NEW d \in Int, i > 0, d >= 0
    PROVE  /\ RoundedRatio(i, d) \in Nat
           /\ RoundedRatio(i, d) <= 6000 <=> Below60005(i, d)
<1> DEFINE n == 20000 * d + i
           m == 2 * i
           q == n \div m
           half_way == m * q = n
           below == <<i, d>> \in FloatIsBelow
           ratio == RoundedRatio(i, d)
<1>1. ratio = IF half_way /\ below THEN q - 1 ELSE q
  <2>1. Less(0, i) /\ d # NotANumber
    BY NumberAssumption DEF Less
  <2>2. ratio = Round(i, d)
    BY <2>1, Zenon DEF RoundedRatio
  <2> QED BY <2>2 DEF Round
<1>2. n \in Int /\ m \in Int /\ m > 0 /\ n > 0
  OBVIOUS
<1>3. q \in Int /\ q * m <= n /\ n < (q + 1) * m
  BY <1>2
<1>4. /\ 20000 * d < 12001 * i <=> n < 6001 * m
      /\ 20000 * d = 12001 * i <=> n = 6001 * m
  OBVIOUS
<1> HIDE DEF q, n, m, below, ratio
<1>5. 0 <= q
  <2>1. ASSUME q + 1 <= 0 PROVE FALSE
    <3>1. (q + 1) * m <= 0
      BY <1>2, <1>3, <2>1
    <3> QED BY <3>1, <1>2, <1>3
  <2> QED BY <2>1, <1>3
<1>6. half_way => q # 0
  BY <1>2
<1>7. q <= 6000 <=> n < 6001 * m
  <2>1. ASSUME q <= 6000 PROVE n < 6001 * m
    <3>1. (q + 1) * m <= 6001 * m
      BY <1>2, <1>3, <2>1
    <3> QED BY <3>1, <1>2, <1>3
  <2>2. ASSUME 6001 <= q PROVE 6001 * m <= n
    <3>1. 6001 * m <= q * m
      BY <1>2, <1>3, <2>2
    <3> QED BY <3>1, <1>2, <1>3
  <2> QED BY <2>1, <2>2, <1>2, <1>3
<1>8. n = 6001 * m <=> half_way /\ q = 6001
  <2>1. ASSUME n = 6001 * m PROVE q = 6001
    <3>1. ASSUME 6002 <= q PROVE FALSE
      <4>1. 6002 * m <= q * m
        BY <1>2, <1>3, <3>1
      <4> QED BY <4>1, <2>1, <1>2, <1>3
    <3> QED BY <3>1, <2>1, <1>2, <1>3, <1>7
  <2>2. ASSUME half_way, q = 6001 PROVE n = 6001 * m
    BY <2>2, <1>2
  <2>3. ASSUME n = 6001 * m PROVE half_way
    BY <2>1, <2>3, <1>2
  <2> QED BY <2>1, <2>2, <2>3
<1>9. ratio <= 6000 <=> q <= 6000 \/ (half_way /\ q = 6001 /\ below)
  BY <1>1, <1>3
<1>10. ratio \in Nat
  BY <1>1, <1>3, <1>5, <1>6
<1>11. Below60005(i, d) <=> n < 6001 * m \/ (n = 6001 * m /\ below)
  BY <1>4 DEF Below60005, below
<1> QED BY <1>7, <1>8, <1>9, <1>10, <1>11 DEF ratio

(***************************************************************************)
(* How far the bureau's flag and the engine's verdict disagree: a customer *)
(* with a surplus is flagged HIGH_LEVERAGE_RISK and approved nevertheless  *)
(* exactly when his debts are above 0.60 and below 0.60005 of his income,  *)
(* or are 0.60005 of it and the float of that ratio is below.              *)
(* (integrations/credit.py:15, :23; domain/decisioning.py:51)              *)
(***************************************************************************)
THEOREM LeverageGap ==
    ASSUME NEW income \in Nat, NEW expenses \in Nat, NEW debts \in Nat,
           income > expenses
    PROVE  /\ "HIGH_LEVERAGE_RISK" \in evaluate(income, expenses, debts).flags
           /\ assess_affordability(evaluate(income, expenses, debts)) = "APPROVED"
           <=> 12000 * income < 20000 * debts /\ Below60005(income, debts)
<1> DEFINE e == evaluate(income, expenses, debts)
<1>1. Minus(income, expenses) = income - expenses
  BY NumberAssumption DEF Minus
<1>2. ~AtMost(Minus(income, expenses), 0)
  BY <1>1 DEF AtMost, Less
<1>3. /\ e.disposable_income = Minus(income, expenses)
      /\ e.debt_to_income_ratio = RoundedRatio(income, debts)
  BY DEF evaluate
<1>4. HighLeverage(income, debts) <=> 12000 * income < 20000 * debts
  BY SMT, NumberAssumption DEF HighLeverage, Less, DTI_THRESHOLD
<1>5. "HIGH_LEVERAGE_RISK" \in e.flags <=> HighLeverage(income, debts)
  BY <1>2 DEF evaluate
<1> DEFINE poor == AtMost(e.disposable_income, 0)
           burdened == Less(DTI_THRESHOLD, e.debt_to_income_ratio)
           low == Below60005(income, debts)
<1>6. ~poor /\ (burdened <=> ~low)
  <2>1. RoundedRatio(income, debts) \in Nat
    BY Rounding
  <2>2. burdened <=> 6000 < RoundedRatio(income, debts)
    BY <2>1, <1>3, NumberAssumption DEF DTI_THRESHOLD, Less
  <2>3. ~poor
    BY <1>2, <1>3
  <2> HIDE DEF burdened, e
  <2>4. income \in Int /\ income > 0 /\ debts \in Int /\ debts >= 0
    OBVIOUS
  <2>5. ASSUME burdened PROVE ~low
    BY <2>1, <2>2, <2>4, <2>5, Rounding
  <2>6. ASSUME ~burdened PROVE low
    BY <2>1, <2>2, <2>4, <2>6, Rounding
  <2> HIDE DEF low
  <2> QED BY <2>3, <2>5, <2>6, Zenon
<1>7. assess_affordability(e) = "APPROVED" <=> ~burdened
  <2>1. assess_affordability(e) = Judge(poor, burdened)
    BY DEF assess_affordability
  <2>2. ~poor
    BY <1>6
  <2> HIDE DEF e, poor, burdened
  <2> QED BY <2>1, <2>2, Zenon DEF Judge
<1> QED BY <1>4, <1>5, <1>6, <1>7

LEMMA CreditRule ==
    ASSUME NEW form,
           {"monthly_income", "monthly_expenses", "outstanding_debts"} \subseteq DOMAIN form,
           form["monthly_income"] \in Nat \cup {NotANumber},
           form["monthly_expenses"] \in Nat \cup {NotANumber},
           form["outstanding_debts"] \in Nat \cup {NotANumber},
           Outcome("credit_bureau", form) = "APPROVED"
    PROVE  Affordable(form)
<1> DEFINE income == form["monthly_income"]
           expenses == form["monthly_expenses"]
           debts == form["outstanding_debts"]
           poor == AtMost(Minus(income, expenses), 0)
           burdened == Less(DTI_THRESHOLD, RoundedRatio(income, debts))
<1>1. Outcome("credit_bureau", form) = Judge(poor, burdened)
  BY Given DEF Outcome, assess_affordability, credit_assessment, evaluate
<1>2. ~poor /\ ~burdened
  BY <1>1, Zenon DEF Judge
<1>3. ASSUME NotANumber \notin {income, expenses}
      PROVE  income > expenses
  BY <1>2, <1>3, NumberAssumption DEF Minus, AtMost, Less
<1>4. ASSUME NotANumber \notin {income, debts}, income > 0
      PROVE  20000 * debts <= 12001 * income
  <2>1. ~(6000 < RoundedRatio(income, debts)) /\ RoundedRatio(income, debts) \in Nat
    <3>1. RoundedRatio(income, debts) \in Nat
      BY <1>4, Rounding
    <3> QED BY <3>1, <1>2, NumberAssumption DEF Less, DTI_THRESHOLD
  <2>2. income \in Nat /\ debts \in Nat
    BY <1>4
  <2>3. Below60005(income, debts)
    BY <2>1, <2>2, <1>4, Rounding
  <2> HIDE DEF income, debts
  <2> QED BY <2>2, <2>3 DEF Below60005
<1> QED BY <1>3, <1>4 DEF Affordable

-----------------------------------------------------------------------------
(* Answers every check is pleased with, n being some income or turnover.   *)

Pleases(f, v, n) ==
    /\ f \in TEXT_FIELDS => v = "plain"
    /\ f = "tax_residency" => v = "SE"
    /\ f = "sector" => v = "RETAIL"
    /\ f = "is_pep" => v = FALSE
    /\ f = "has_signatory_authority" => v = TRUE
    /\ f \in {"monthly_income", "annual_turnover"} => v = n
    /\ f \in {"monthly_expenses", "outstanding_debts", "expected_monthly_volume"} => v = 0
    /\ f = "ubo_count" => v = 1
    /\ f = "largest_ownership_percent" => v = 74

LEMMA CleanText ==
    ASSUME NEW step, NEW country, NEW f \in TEXT_FIELDS
    PROVE  "plain" \in CleanEntries(step, country, f)
<1>1. "plain" \in Entry(f)
  <2>1. CASE f \in {"personal_identity_number", "representative_id"}
    BY <2>1, Zenon DEF Entry, BOOLEAN_FIELDS
  <2>2. CASE f = "company_identifier"
    BY <2>2, Zenon DEF Entry, BOOLEAN_FIELDS
  <2>3. CASE f = "iban"
    BY <2>3, Zenon DEF Entry, BOOLEAN_FIELDS
  <2>4. CASE f \in {"representative_name", "legal_name", "address", "province",
                    "phone_number"}
    BY <2>4, Zenon DEF Entry, BOOLEAN_FIELDS
  <2> QED BY <2>1, <2>2, <2>3, <2>4 DEF TEXT_FIELDS
<1>2. /\ Valid(step, country, f, "plain") <=> ValidText(f, country, "plain")
      /\ Clean(f, "plain") = "plain"
  BY KindsAreDisjoint, Zenon DEF Valid, Clean
<1> QED BY <1>1, <1>2 DEF CleanEntries, ValidText

LEMMA CleanSelect ==
    ASSUME NEW step, NEW country
    PROVE  /\ "listed" \in CleanEntries(step, country, "legal_form")
           /\ "SE" \in CleanEntries(step, country, "tax_residency")
           /\ "RETAIL" \in CleanEntries(step, country, "sector")
<1>1. /\ "listed" \in Entry("legal_form")
      /\ "SE" \in Entry("tax_residency")
      /\ "retail" \in Entry("sector")
  BY Zenon DEF Entry, BOOLEAN_FIELDS
<1>2. ASSUME NEW f \in SELECT_FIELDS, NEW e
      PROVE  /\ Valid(step, country, f, e) <=> e # "unlisted"
             /\ Clean(f, e) = Upper(e)
  BY KindsAreDisjoint, Zenon DEF Valid, Clean
<1>3. Upper("listed") = "listed" /\ Upper("SE") = "SE" /\ Upper("retail") = "RETAIL"
  BY Zenon DEF Upper
<1>4. {"legal_form", "tax_residency", "sector"} = SELECT_FIELDS
  BY DEF SELECT_FIELDS
<1> QED BY <1>1, <1>2, <1>3, <1>4 DEF CleanEntries

LEMMA SomeAnswerPleases ==
    ASSUME NEW step, NEW country, NEW f \in Fields, "is_pep" \notin step.requires_true,
           NEW n \in Amount \cap Nat, 0 \in Amount
    PROVE  \E v \in CleanEntries(step, country, f) : Pleases(f, v, n)
<1>1. CASE f \in TEXT_FIELDS
  BY <1>1, CleanText DEF Pleases, TEXT_FIELDS
<1>2. CASE f \in SELECT_FIELDS
  BY <1>2, CleanSelect DEF Pleases, TEXT_FIELDS, SELECT_FIELDS
<1>3. CASE f \in BOOLEAN_FIELDS
  BY <1>3, CleanFlag DEF Pleases, TEXT_FIELDS, BOOLEAN_FIELDS
<1>4. CASE f \in Money
  BY <1>4, CleanMoney DEF Pleases, TEXT_FIELDS, Money
<1>5. CASE f \in {"ubo_count", "largest_ownership_percent"}
  BY <1>5, CleanShare DEF Pleases, TEXT_FIELDS
<1> QED BY <1>1, <1>2, <1>3, <1>4, <1>5 DEF Fields, NUMBER_FIELDS, Money

LEMMA PleasedChecks ==
    ASSUME NEW form, NEW n \in Nat, n > 0, \A f \in DOMAIN form : Pleases(f, form[f], n),
           NEW check_name \in IntegrationName,
           check_name = "credit_bureau" =>
             {"monthly_income", "monthly_expenses", "outstanding_debts"} \subseteq DOMAIN form,
           check_name = "ubo_kyc" =>
             {"ubo_count", "largest_ownership_percent"} \subseteq DOMAIN form,
           check_name = "business_credit" =>
             {"sector", "annual_turnover", "expected_monthly_volume"} \subseteq DOMAIN form,
           check_name = "representative" => "has_signatory_authority" \in DOMAIN form
    PROVE  Outcome(check_name, form) = "APPROVED"
<1>1. CASE check_name = "identity"
  <2>1. Outcome(check_name, form) = identity_check(form)
    BY <1>1, Zenon DEF Outcome
  <2>2. \E pin \in {"plain", ""} : identity_check(form) = verify(pin)
    BY DEF identity_check, Get, Pleases, TEXT_FIELDS
  <2> QED BY <2>1, <2>2, Zenon DEF verify
<1>2. CASE check_name = "registry"
  <2>1. Outcome(check_name, form) = lookup_entity(Get(form, "company_identifier", ""))
    BY <1>2, Zenon DEF Outcome
  <2>2. Get(form, "company_identifier", "") \in {"plain", ""}
    BY DEF Get, Pleases, TEXT_FIELDS
  <2> QED BY <2>1, <2>2, Zenon DEF lookup_entity
<1>3. CASE check_name = "bank_account"
  <2>1. Outcome(check_name, form) = validate_iban(Get(form, "iban", ""))
    BY <1>3, Zenon DEF Outcome
  <2>2. Get(form, "iban", "") \in {"plain", ""}
    BY DEF Get, Pleases, TEXT_FIELDS
  <2> QED BY <2>1, <2>2, Zenon DEF validate_iban
<1>4. CASE check_name = "address_lookup"
  BY <1>4, Zenon DEF Outcome
<1>5. CASE check_name = "sanctions"
  <2> DEFINE residency == Get(form, "tax_residency", "")
             pep == Get(form, "is_pep", FALSE)
  <2>1. Outcome(check_name, form) = Judge(residency \in SANCTIONED_RESIDENCIES, pep)
    BY <1>5 DEF Outcome, assess_sanctions, check
  <2>2. residency \notin SANCTIONED_RESIDENCIES /\ ~pep
    BY DEF Get, Pleases, SANCTIONED_RESIDENCIES
  <2> HIDE DEF residency, pep
  <2> QED BY <2>1, <2>2, Zenon DEF Judge
<1>6. CASE check_name = "credit_bureau"
  <2> DEFINE income == form["monthly_income"]
             poor == AtMost(Minus(income, form["monthly_expenses"]), 0)
             burdened == Less(DTI_THRESHOLD, RoundedRatio(income, form["outstanding_debts"]))
  <2>1. Outcome(check_name, form) = Judge(poor, burdened)
    BY <1>6, Given DEF Outcome, assess_affordability, credit_assessment, evaluate
  <2>2. income = n /\ form["monthly_expenses"] = 0 /\ form["outstanding_debts"] = 0
    BY <1>6 DEF Pleases
  <2>3. ~poor
    BY <2>2, NumberAssumption DEF Minus, AtMost, Less
  <2>4. ~burdened
    <3>1. RoundedRatio(n, 0) \in Nat /\ RoundedRatio(n, 0) <= 6000
      <4>1. Below60005(n, 0)
        BY DEF Below60005
      <4> QED BY <4>1, Rounding
    <3> QED BY <3>1, <2>2 DEF Less, DTI_THRESHOLD
  <2> HIDE DEF poor, burdened
  <2> QED BY <2>1, <2>3, <2>4, Zenon DEF Judge
<1>7. CASE check_name = "ubo_kyc"
  <2> DEFINE none == form["ubo_count"] <= 0
             large == AtMost(75, form["largest_ownership_percent"])
  <2>1. form["ubo_count"] = 1 /\ form["largest_ownership_percent"] = 74
    BY <1>7 DEF Pleases
  <2>2. Outcome(check_name, form) = Judge(none, large)
    BY <1>7, <2>1, Given, NumberAssumption
       DEF Outcome, assess_ownership, OWNERSHIP_CONCENTRATION_THRESHOLD
  <2>3. ~none /\ ~large
    BY <2>1 DEF AtMost, Less
  <2> HIDE DEF none, large
  <2> QED BY <2>2, <2>3, Zenon DEF Judge
<1>8. CASE check_name = "business_credit"
  <2> DEFINE nothing == AtMost(form["annual_turnover"], 0)
             risky == \/ Lower(form["sector"]) \in HIGH_RISK_SECTORS
                      \/ Less(form["annual_turnover"], form["expected_monthly_volume"])
  <2>1. Outcome(check_name, form) = Judge(nothing, risky)
    BY <1>8, Given DEF Outcome, assess_business_credit
  <2>2. /\ form["sector"] = "RETAIL"
        /\ form["annual_turnover"] = n
        /\ form["expected_monthly_volume"] = 0
    BY <1>8 DEF Pleases
  <2>3. Lower("RETAIL") = "retail"
    BY Zenon DEF Lower
  <2>4. ~nothing /\ ~risky
    BY <2>2, <2>3, NumberAssumption DEF AtMost, Less, HIGH_RISK_SECTORS
  <2> HIDE DEF nothing, risky
  <2> QED BY <2>1, <2>4, Zenon DEF Judge
<1>9. CASE check_name = "representative"
  <2>1. Outcome(check_name, form) = Judge(FALSE, ~form["has_signatory_authority"])
    BY <1>9, Given DEF Outcome, assess_representative_authority
  <2>2. form["has_signatory_authority"] = TRUE
    BY <1>9 DEF Pleases
  <2> QED BY <2>1, <2>2, Zenon DEF Judge
<1> QED BY <1>1, <1>2, <1>3, <1>4, <1>5, <1>6, <1>7, <1>8, <1>9 DEF IntegrationName

-----------------------------------------------------------------------------
(* The flows.                                                              *)

Runs(step, check_name) ==
    \E j \in 1 .. Len(step.required_integrations) :
        step.required_integrations[j] = check_name

(* Where a field is asked for, the check that judges it runs, with all it  *)
(* reads; where a check runs that approves nobody without an answer, the   *)
(* answer is asked for.                                                    *)
Screened(step) ==
    LET asks(field) == field \in step.fields IN
    /\ asks("personal_identity_number") => Runs(step, "identity")
    /\ asks("company_identifier") => Runs(step, "registry")
    /\ asks("tax_residency") \/ asks("is_pep") =>
         Runs(step, "sanctions") /\ {"tax_residency", "is_pep"} \subseteq step.fields
    /\ asks("iban") => Runs(step, "bank_account")
    /\ asks("monthly_income") \/ Runs(step, "credit_bureau") =>
         /\ Runs(step, "credit_bureau")
         /\ {"monthly_income", "monthly_expenses", "outstanding_debts"}
              \subseteq step.fields
    /\ asks("ubo_count") \/ asks("largest_ownership_percent") \/ Runs(step, "ubo_kyc") =>
         /\ Runs(step, "ubo_kyc")
         /\ {"ubo_count", "largest_ownership_percent"} \subseteq step.fields
    /\ asks("annual_turnover") \/ asks("sector") \/ Runs(step, "business_credit") =>
         /\ Runs(step, "business_credit")
         /\ {"sector", "annual_turnover", "expected_monthly_volume"}
              \subseteq step.fields
    /\ Runs(step, "representative") <=> asks("has_signatory_authority")

WellFormed(step) ==
    /\ step.fields \subseteq Fields
    /\ step.requires_true \subseteq step.fields \cap (BOOLEAN_FIELDS \ {"is_pep"})
    /\ step.required_integrations \in Seq(IntegrationName)
    /\ \A i, j \in 1 .. Len(step.required_integrations) :
         step.required_integrations[i] = step.required_integrations[j] => i = j
    /\ Screened(step)

-----------------------------------------------------------------------------
(* The inductive invariant.                                                *)

Passed(s, form) ==
    \A j \in 1 .. Len(ChecksOf(key)[s]) : Outcomes(key, s, form)[j] = "APPROVED"

AnyAnswers == UNION {Payloads[key][s] : s \in 1 .. Len(Flow)}

Typed ==
    /\ key \in FlowKey
    /\ status \in [App -> ApplicationStatus \cup {"ABSENT"}]
    /\ responses \in [App -> [1 .. Len(Flow) -> AnyAnswers \cup {NoAnswers}]]

(* What is held for a step is an answer to that step.                      *)
AnswersFit ==
    \A a \in App, s \in 1 .. Len(Flow) :
        Answered(a, s) => responses[a][s] \in Payloads[key][s]

PassedSoFar ==
    \A a \in App : status[a] \notin {"MANUAL_REVIEW", "REJECTED"} =>
        \A s \in 1 .. Len(Flow) : Answered(a, s) => Passed(s, responses[a][s])

ApprovedIsComplete ==
    \A a \in App : status[a] = "APPROVED" =>
        \A s \in 1 .. Len(Flow) :
            responses[a][s] \in Payloads[key][s] /\ Passed(s, responses[a][s])

Inv == Typed /\ AnswersFit /\ PassedSoFar /\ ApprovedIsComplete

-----------------------------------------------------------------------------
(* The configuration, flow by flow.                                        *)

LEMMA SixFlows ==
    ASSUME NEW k \in FlowKey
    PROVE  \/ flow_registry[k] = sweden_individual_flow
           \/ flow_registry[k] = sweden_business_flow
           \/ flow_registry[k] = spain_individual_flow
           \/ flow_registry[k] = spain_business_flow
           \/ flow_registry[k] = poland_individual_flow
           \/ flow_registry[k] = poland_business_flow
<1>1. \/ k = [country |-> "SWEDEN", account_type |-> "private"]
      \/ k = [country |-> "SWEDEN", account_type |-> "business"]
      \/ k = [country |-> "SPAIN", account_type |-> "private"]
      \/ k = [country |-> "SPAIN", account_type |-> "business"]
      \/ k = [country |-> "POLAND", account_type |-> "private"]
      \/ k = [country |-> "POLAND", account_type |-> "business"]
  BY DEF FlowKey, Country, AccountType
<1> DEFINE R(c, t) == k = [country |-> c, account_type |-> t]
<1>2. flow_registry[k] =
        CASE R("SWEDEN", "private") -> sweden_individual_flow
          [] R("SWEDEN", "business") -> sweden_business_flow
          [] R("SPAIN", "private") -> spain_individual_flow
          [] R("SPAIN", "business") -> spain_business_flow
          [] R("POLAND", "private") -> poland_individual_flow
          [] R("POLAND", "business") -> poland_business_flow
  BY Zenon DEF flow_registry
<1>3. \/ R("SWEDEN", "private") \/ R("SWEDEN", "business") \/ R("SPAIN", "private")
      \/ R("SPAIN", "business") \/ R("POLAND", "private") \/ R("POLAND", "business")
  BY <1>1
<1> HIDE DEF R
<1> QED BY <1>2, <1>3, Zenon

LEMMA IndividualIsWellFormed ==
    ASSUME NEW contact_fields, contact_fields \subseteq {"address", "province", "phone_number"}
    PROVE  LET flow == IndividualFlow(contact_fields) IN
           Len(flow) = 5 /\ \A s \in 1 .. 5 : WellFormed(flow[s])
<1> DEFINE flow == IndividualFlow(contact_fields)
<1>1. /\ Len(flow) = 5
      /\ flow[1] = FlowStep("collect_identity", {"personal_identity_number"}, {}, <<"identity">>)
      /\ flow[2] = FlowStep("confirm_contact", contact_fields, {}, <<"address_lookup">>)
      /\ flow[3] = FlowStep("regulatory_declarations", {"is_pep", "tax_residency"}, {},
                            <<"sanctions">>)
      /\ flow[4] = FlowStep("financial_profile",
                            {"monthly_income", "monthly_expenses", "outstanding_debts"}, {},
                            <<"credit_bureau">>)
      /\ flow[5] = review_consent
  BY DEF IndividualFlow
<1> HIDE DEF flow
<1> USE DEF WellFormed, Screened, Runs, FlowStep, Fields, IntegrationName,
            BOOLEAN_FIELDS, NUMBER_FIELDS, TEXT_FIELDS, SELECT_FIELDS
<1>2. WellFormed(flow[1])
  BY <1>1
<1>3. WellFormed(flow[2])
  BY <1>1
<1>4. WellFormed(flow[3])
  BY <1>1
<1>5. WellFormed(flow[4])
  BY <1>1
<1>6. WellFormed(flow[5])
  BY <1>1 DEF review_consent
<1>7. \A s \in 1 .. 5 : s = 1 \/ s = 2 \/ s = 3 \/ s = 4 \/ s = 5
  OBVIOUS
<1> HIDE DEF WellFormed
<1>8. \A s \in 1 .. 5 : WellFormed(flow[s])
  BY <1>2, <1>3, <1>4, <1>5, <1>6, <1>7
<1> QED BY <1>1, <1>8 DEF flow

LEMMA BusinessIsWellFormed ==
    ASSUME NEW company, NEW representative_checks, NEW profile, NEW profile_checks,
           company \in {Company, Company \cup {"address"}},
           \/ representative_checks = <<"representative">>
           \/ representative_checks = <<"identity", "representative">>,
           \/ profile = Activity /\ profile_checks = <<"business_credit">>
           \/ /\ profile = Activity \cup {"iban"}
              /\ profile_checks = <<"business_credit", "bank_account">>
    PROVE  LET flow == BusinessFlow(company, representative_checks, profile, profile_checks) IN
           Len(flow) = 5 /\ \A s \in 1 .. 5 : WellFormed(flow[s])
<1> DEFINE flow == BusinessFlow(company, representative_checks, profile, profile_checks)
<1>1. /\ Len(flow) = 5
      /\ flow[1] = FlowStep("business_identity", company, {}, <<"registry">>)
      /\ flow[2] = FlowStep("representative",
                      {"representative_name", "representative_id", "has_signatory_authority"},
                      {"has_signatory_authority"}, representative_checks)
      /\ flow[3] = FlowStep("beneficial_owners",
                      {"ubo_count", "largest_ownership_percent"}, {}, <<"ubo_kyc", "sanctions">>)
      /\ flow[4] = FlowStep("business_profile", profile, {}, profile_checks)
      /\ flow[5] = review_consent
  BY DEF BusinessFlow
<1> HIDE DEF flow
<1> USE DEF WellFormed, Screened, Runs, FlowStep, Fields, IntegrationName,
            BOOLEAN_FIELDS, NUMBER_FIELDS, TEXT_FIELDS, SELECT_FIELDS
<1>2. WellFormed(flow[1])
  BY <1>1 DEF Company
<1>3. WellFormed(flow[2])
  <2>1. CASE representative_checks = <<"representative">>
    BY <1>1, <2>1
  <2>2. CASE representative_checks = <<"identity", "representative">>
    BY <1>1, <2>2
  <2> QED BY <2>1, <2>2
<1>4. WellFormed(flow[3])
  BY <1>1
<1>5. WellFormed(flow[4])
  <2>1. CASE profile = Activity /\ profile_checks = <<"business_credit">>
    BY <1>1, <2>1 DEF Activity
  <2>2. CASE /\ profile = Activity \cup {"iban"}
             /\ profile_checks = <<"business_credit", "bank_account">>
    BY <1>1, <2>2 DEF Activity
  <2> QED BY <2>1, <2>2
<1>6. WellFormed(flow[5])
  BY <1>1 DEF review_consent
<1>7. \A s \in 1 .. 5 : s = 1 \/ s = 2 \/ s = 3 \/ s = 4 \/ s = 5
  OBVIOUS
<1> HIDE DEF WellFormed
<1>8. \A s \in 1 .. 5 : WellFormed(flow[s])
  BY <1>2, <1>3, <1>4, <1>5, <1>6, <1>7
<1> QED BY <1>1, <1>8 DEF flow

(***************************************************************************)
(* In every market, a field that a rule of the bank is about is asked for  *)
(* in a step that runs the check of that rule, together with everything    *)
(* the check reads, and no check is run without the answers it cannot do   *)
(* without (flows/*.py; README.md:55, "adding a new market").              *)
(***************************************************************************)
THEOREM FlowsAreScreened ==
    \A k \in FlowKey :
        /\ Len(flow_registry[k]) = 5
        /\ \A s \in 1 .. Len(flow_registry[k]) : WellFormed(flow_registry[k][s])
<1> SUFFICES ASSUME NEW k \in FlowKey
             PROVE  /\ Len(flow_registry[k]) = 5
                    /\ \A s \in 1 .. 5 : WellFormed(flow_registry[k][s])
  OBVIOUS
<1>1. CASE flow_registry[k] = sweden_individual_flow
  BY <1>1, IndividualIsWellFormed DEF sweden_individual_flow
<1>2. CASE flow_registry[k] = spain_individual_flow
  BY <1>2, IndividualIsWellFormed DEF spain_individual_flow
<1>3. CASE flow_registry[k] = poland_individual_flow
  BY <1>3, IndividualIsWellFormed DEF poland_individual_flow
<1>4. CASE flow_registry[k] = sweden_business_flow
  BY <1>4, BusinessIsWellFormed DEF sweden_business_flow
<1>5. CASE flow_registry[k] = spain_business_flow
  BY <1>5, BusinessIsWellFormed DEF spain_business_flow
<1>6. CASE flow_registry[k] = poland_business_flow
  BY <1>6, BusinessIsWellFormed DEF poland_business_flow
<1> QED BY <1>1, <1>2, <1>3, <1>4, <1>5, <1>6, SixFlows

LEMMA AskedForms ==
    ASSUME NEW k \in FlowKey, NEW s \in 1 .. Len(flow_registry[k])
    PROVE  /\ WellFormed(flow_registry[k][s])
           /\ Payloads[k][s] = CleanPayloads(flow_registry[k][s], k.country)
           /\ ChecksOf(k)[s] = flow_registry[k][s].required_integrations
           /\ \A form \in Payloads[k][s] :
                /\ DOMAIN form = flow_registry[k][s].fields
                /\ \A f \in DOMAIN form :
                     form[f] \in CleanEntries(flow_registry[k][s], k.country, f)
<1> DEFINE step == flow_registry[k][s]
<1>1. WellFormed(step)
  BY FlowsAreScreened
<1>2. Payloads[k][s] = CleanPayloads(step, k.country)
  BY DEF Payloads
<1>3. ChecksOf(k)[s] = step.required_integrations
  BY DEF ChecksOf
<1> HIDE DEF step
<1>4. step.fields \subseteq Fields
  BY <1>1 DEF WellFormed
<1>5. \A form \in Payloads[k][s] :
        /\ DOMAIN form = step.fields
        /\ \A f \in DOMAIN form : form[f] \in CleanEntries(step, k.country, f)
  BY <1>2, <1>4, PayloadIsClean
<1> QED BY <1>1, <1>2, <1>3, <1>5 DEF step

(* Every step of every flow has answers that pass its checks.              *)
LEMMA EveryStepCanPass ==
    ASSUME 0 \in Amount, NEW n \in Amount \cap Nat, n > 0,
           NEW k \in FlowKey, NEW s \in 1 .. Len(flow_registry[k])
    PROVE  \E form \in Payloads[k][s] :
             \A j \in 1 .. Len(ChecksOf(k)[s]) : Outcomes(k, s, form)[j] = "APPROVED"
<1> DEFINE step == flow_registry[k][s]
           entries(f) == CleanEntries(step, k.country, f)
           form == [f \in step.fields |-> CHOOSE v \in entries(f) : Pleases(f, v, n)]
<1>1. /\ WellFormed(step)
      /\ Payloads[k][s] = CleanPayloads(step, k.country)
      /\ ChecksOf(k)[s] = step.required_integrations
  BY AskedForms
<1> HIDE DEF step
<1>2. step.fields \subseteq Fields /\ "is_pep" \notin step.requires_true
  BY <1>1 DEF WellFormed
<1>3. ASSUME NEW f \in step.fields
      PROVE  form[f] \in entries(f) /\ Pleases(f, form[f], n)
  <2>1. \E v \in entries(f) : Pleases(f, v, n)
    BY <1>2, SomeAnswerPleases
  <2> HIDE DEF entries
  <2> QED BY <2>1
<1>4. DOMAIN form = step.fields /\ form = [f \in step.fields |-> form[f]]
  OBVIOUS
<1> HIDE DEF form
<1>5. form \in Payloads[k][s]
  BY <1>1, <1>2, <1>3, <1>4, CleanIsPayload
<1>6. ASSUME NEW j \in 1 .. Len(ChecksOf(k)[s])
      PROVE  Outcomes(k, s, form)[j] = "APPROVED"
  <2> DEFINE name == step.required_integrations[j]
  <2>1. Outcomes(k, s, form)[j] = Outcome(name, form)
    BY <1>1 DEF Outcomes
  <2>2. name \in IntegrationName /\ Runs(step, name)
    BY <1>1 DEF WellFormed, Runs
  <2> HIDE DEF name
  <2>3. /\ name = "credit_bureau" =>
             {"monthly_income", "monthly_expenses", "outstanding_debts"} \subseteq DOMAIN form
        /\ name = "ubo_kyc" =>
             {"ubo_count", "largest_ownership_percent"} \subseteq DOMAIN form
        /\ name = "business_credit" =>
             {"sector", "annual_turnover", "expected_monthly_volume"} \subseteq DOMAIN form
        /\ name = "representative" => "has_signatory_authority" \in DOMAIN form
    BY <1>1, <1>4, <2>2 DEF WellFormed, Screened
  <2>4. \A f \in DOMAIN form : Pleases(f, form[f], n)
    BY <1>3, <1>4
  <2>5. Outcome(name, form) = "APPROVED"
    BY <2>2, <2>3, <2>4, PleasedChecks
  <2> QED BY <2>1, <2>5
<1> QED BY <1>5, <1>6

-----------------------------------------------------------------------------
(* The rules of a step, for answers that passed its checks.                *)

(* The rules of README.md:73-80 about one form, as far as it asks.         *)
TextRules(form) ==
    LET asked(field) == field \in DOMAIN form IN
    /\ asked("personal_identity_number") =>
         form["personal_identity_number"] \notin {"ends 0000", "ends 1111"}
    /\ asked("company_identifier") =>
         form["company_identifier"] \notin {"starts 00", "ends 1111"}
    /\ asked("iban") => form["iban"] \notin {"ends 9999", "ends 0000"}
    /\ asked("tax_residency") => form["tax_residency"] \notin {"IR", "KP", "SY"}
    /\ asked("is_pep") => form["is_pep"] = FALSE
    /\ asked("has_signatory_authority") => form["has_signatory_authority"] = TRUE

NumberRules(form) ==
    LET asked(field) == field \in DOMAIN form IN
    /\ asked("ubo_count") => form["ubo_count"] # NotANumber /\ form["ubo_count"] >= 1
    /\ asked("largest_ownership_percent") =>
         (form["largest_ownership_percent"] # NotANumber =>
            form["largest_ownership_percent"] < 75)
    /\ asked("monthly_income") => Affordable(form)
    /\ asked("sector") => form["sector"] # "FINANCIAL_SERVICES"
    /\ asked("annual_turnover") => VolumeFits(form)

LEMMA PassedCheck ==
    ASSUME NEW k \in FlowKey, NEW s \in 1 .. Len(flow_registry[k]), NEW form,
           \A j \in 1 .. Len(ChecksOf(k)[s]) : Outcomes(k, s, form)[j] = "APPROVED",
           NEW check_name, Runs(flow_registry[k][s], check_name)
    PROVE  Outcome(check_name, form) = "APPROVED"
<1>1. ChecksOf(k)[s] = flow_registry[k][s].required_integrations
  BY DEF ChecksOf
<1>2. PICK j \in 1 .. Len(ChecksOf(k)[s]) : ChecksOf(k)[s][j] = check_name
  BY <1>1 DEF Runs
<1>3. Outcomes(k, s, form)[j] = Outcome(check_name, form)
  BY <1>2 DEF Outcomes
<1> QED BY <1>2, <1>3

LEMMA PassedTextRules ==
    ASSUME NEW k \in FlowKey, NEW s \in 1 .. Len(flow_registry[k]),
           NEW form \in Payloads[k][s],
           \A j \in 1 .. Len(ChecksOf(k)[s]) : Outcomes(k, s, form)[j] = "APPROVED"
    PROVE  TextRules(form)
<1> DEFINE step == flow_registry[k][s]
<1>1. /\ WellFormed(step)
      /\ DOMAIN form = step.fields
      /\ \A f \in DOMAIN form : form[f] \in CleanEntries(step, k.country, f)
  BY AskedForms
<1>2. \A name : Runs(step, name) => Outcome(name, form) = "APPROVED"
  BY PassedCheck
<1> HIDE DEF step
<1>3. Screened(step)
  BY <1>1 DEF WellFormed
<1>4. ASSUME "personal_identity_number" \in DOMAIN form
      PROVE  form["personal_identity_number"] \notin {"ends 0000", "ends 1111"}
  BY <1>1, <1>2, <1>3, <1>4, IdentityRule DEF Screened
<1>5. ASSUME "company_identifier" \in DOMAIN form
      PROVE  form["company_identifier"] \notin {"starts 00", "ends 1111"}
  BY <1>1, <1>2, <1>3, <1>5, RegistryRule DEF Screened
<1>6. ASSUME "iban" \in DOMAIN form
      PROVE  form["iban"] \notin {"ends 9999", "ends 0000"}
  BY <1>1, <1>2, <1>3, <1>6, AccountRule DEF Screened
<1>7. ASSUME "tax_residency" \in DOMAIN form \/ "is_pep" \in DOMAIN form
      PROVE  form["tax_residency"] \notin {"IR", "KP", "SY"} /\ form["is_pep"] = FALSE
  <2>1. {"tax_residency", "is_pep"} \subseteq DOMAIN form /\ Runs(step, "sanctions")
    BY <1>1, <1>3, <1>7 DEF Screened
  <2>2. form["is_pep"] \in BOOLEAN
    BY <1>1, <2>1, CleanFlag DEF BOOLEAN_FIELDS
  <2> QED BY <1>2, <2>1, <2>2, SanctionsRule
<1>8. ASSUME "has_signatory_authority" \in DOMAIN form
      PROVE  form["has_signatory_authority"] = TRUE
  <2>1. Runs(step, "representative")
    BY <1>1, <1>3, <1>8 DEF Screened
  <2>2. form["has_signatory_authority"] \in BOOLEAN
    BY <1>1, <1>8, CleanFlag DEF BOOLEAN_FIELDS
  <2> QED BY <1>2, <1>8, <2>1, <2>2, RepresentativeRule
<1> QED BY <1>4, <1>5, <1>6, <1>7, <1>8 DEF TextRules

LEMMA PassedNumberRules ==
    ASSUME NEW k \in FlowKey, NEW s \in 1 .. Len(flow_registry[k]),
           NEW form \in Payloads[k][s],
           \A j \in 1 .. Len(ChecksOf(k)[s]) : Outcomes(k, s, form)[j] = "APPROVED"
    PROVE  NumberRules(form)
<1> DEFINE step == flow_registry[k][s]
<1>1. /\ WellFormed(step)
      /\ DOMAIN form = step.fields
      /\ \A f \in DOMAIN form : form[f] \in CleanEntries(step, k.country, f)
  BY AskedForms
<1>2. \A name : Runs(step, name) => Outcome(name, form) = "APPROVED"
  BY PassedCheck
<1> HIDE DEF step
<1>3. Screened(step)
  BY <1>1 DEF WellFormed
<1>4. \A f \in Money \cap DOMAIN form : form[f] \in Nat \cup {NotANumber}
  BY <1>1, CleanMoney
<1>5. ASSUME "ubo_count" \in DOMAIN form \/ "largest_ownership_percent" \in DOMAIN form
      PROVE  /\ form["ubo_count"] # NotANumber /\ form["ubo_count"] >= 1
             /\ form["largest_ownership_percent"] # NotANumber =>
                  form["largest_ownership_percent"] < 75
  <2>1. Runs(step, "ubo_kyc") /\ {"ubo_count", "largest_ownership_percent"} \subseteq DOMAIN form
    BY <1>1, <1>3, <1>5 DEF Screened
  <2>2. /\ form["largest_ownership_percent"] \in Nat \cup {NotANumber}
        /\ form["ubo_count"] \in {NotANumber, 1}
    BY <1>1, <2>1, CleanShare
  <2>3. /\ form["ubo_count"] # NotANumber
        /\ form["largest_ownership_percent"] # NotANumber =>
             form["largest_ownership_percent"] < 75
    BY <1>2, <2>1, <2>2, OwnershipRule
  <2> QED BY <2>2, <2>3
<1>6. ASSUME "monthly_income" \in DOMAIN form
      PROVE  Affordable(form)
  <2>1. /\ Runs(step, "credit_bureau")
        /\ {"monthly_income", "monthly_expenses", "outstanding_debts"} \subseteq DOMAIN form
    BY <1>1, <1>3, <1>6 DEF Screened
  <2>2. /\ form["monthly_income"] \in Nat \cup {NotANumber}
        /\ form["monthly_expenses"] \in Nat \cup {NotANumber}
        /\ form["outstanding_debts"] \in Nat \cup {NotANumber}
    BY <1>4, <2>1 DEF Money
  <2> QED BY <1>2, <2>1, <2>2, CreditRule
<1>7. ASSUME "sector" \in DOMAIN form \/ "annual_turnover" \in DOMAIN form
      PROVE  form["sector"] # "FINANCIAL_SERVICES" /\ VolumeFits(form)
  <2>1. /\ Runs(step, "business_credit")
        /\ {"sector", "annual_turnover", "expected_monthly_volume"} \subseteq DOMAIN form
    BY <1>1, <1>3, <1>7 DEF Screened
  <2>2. /\ form["annual_turnover"] \in Nat \cup {NotANumber}
        /\ form["expected_monthly_volume"] \in Nat \cup {NotANumber}
    BY <1>4, <2>1 DEF Money
  <2> QED BY <1>2, <2>1, <2>2, BusinessCreditRule
<1> QED BY <1>5, <1>6, <1>7 DEF NumberRules

-----------------------------------------------------------------------------
(* The journey.                                                            *)

(* What a submission makes of the status.                                  *)
LEMMA FinalVerdict ==
    ASSUME NEW k \in FlowKey, NEW s \in 1 .. Len(flow_registry[k]), NEW form,
           \A j \in 1 .. Len(ChecksOf(k)[s]) : Outcomes(k, s, form)[j] \in CheckOutcome
    PROVE  LET final == Ledger(k)!FinalStatus(s, Outcomes(k, s, form)) IN
           /\ final \in ApplicationStatus
           /\ final \notin {"MANUAL_REVIEW", "REJECTED"} =>
                \A j \in 1 .. Len(ChecksOf(k)[s]) : Outcomes(k, s, form)[j] = "APPROVED"
           /\ final = "APPROVED" => s = Len(flow_registry[k])
<1> DEFINE outcomes == Outcomes(k, s, form)
           final == Ledger(k)!FinalStatus(s, outcomes)
           rejected == Ledger(k)!RejectedBy(outcomes)
           referred == Ledger(k)!ReferredBy(outcomes)
           last == Ledger(k)!NextStep(s) = 0
<1>1. DOMAIN outcomes = 1 .. Len(ChecksOf(k)[s])
  BY DEF Outcomes
<1>2. last <=> s = Len(flow_registry[k])
  BY FlowsAreScreened DEF Ledger!NextStep
<1>3. /\ rejected => final = "REJECTED"
      /\ ~rejected /\ referred => final = "MANUAL_REVIEW"
      /\ ~rejected /\ ~referred => final = IF last THEN "APPROVED" ELSE "IN_PROGRESS"
  <2> HIDE DEF outcomes
  <2> QED BY Zenon DEF Ledger!FinalStatus
<1>4. ~rejected /\ ~referred =>
        \A j \in 1 .. Len(ChecksOf(k)[s]) : outcomes[j] = "APPROVED"
  BY <1>1 DEF Ledger!RejectedBy, Ledger!ReferredBy, CheckOutcome
<1> HIDE DEF outcomes, final, rejected, referred, last
<1>5. CASE rejected
  BY <1>3, <1>5 DEF final, outcomes, ApplicationStatus
<1>6. CASE ~rejected /\ referred
  BY <1>3, <1>6 DEF final, outcomes, ApplicationStatus
<1>7. CASE ~rejected /\ ~referred
  BY <1>2, <1>3, <1>4, <1>7 DEF final, outcomes, ApplicationStatus
<1> QED BY <1>5, <1>6, <1>7

LEMMA InitInv == Init => Inv
<1> SUFFICES ASSUME Init PROVE Inv
  OBVIOUS
<1>1. key \in FlowKey
  BY DEF Init
<1>2. /\ status = [a \in App |-> "ABSENT"]
      /\ responses = [a \in App |-> [s \in 1 .. Len(Flow) |-> NoAnswers]]
  BY DEF Init, Flow, Ledger!Init, Ledger!Steps
<1> QED BY <1>1, <1>2
     DEF Inv, Typed, AnswersFit, PassedSoFar, ApprovedIsComplete, Answered

LEMMA StartInv ==
    ASSUME Inv, NEW a \in App, StartApplication(a)
    PROVE  Inv'
<1>1. /\ status[a] = "ABSENT"
      /\ status' = [status EXCEPT ![a] = "STARTED"]
      /\ UNCHANGED <<key, responses>>
  BY DEF StartApplication, Ledger!StartApplication
<1>2. Typed
  BY DEF Inv
<1>3. status' \in [App -> ApplicationStatus \cup {"ABSENT"}]
  BY <1>1, <1>2 DEF Typed, ApplicationStatus
<1>4. Flow' = Flow /\ AnyAnswers' = AnyAnswers
  BY <1>1 DEF Flow, AnyAnswers
<1>5. Typed'
  BY <1>1, <1>2, <1>3, <1>4 DEF Typed
<1>6. AnswersFit'
  BY <1>1, <1>4 DEF Inv, AnswersFit, Answered
<1>7. \A b \in App : /\ status'[b] \in {"STARTED", status[b]}
                     /\ status'[b] # "STARTED" => status'[b] = status[b]
                     /\ status'[b] # status[b] => status[b] = "ABSENT"
  BY <1>1, <1>2 DEF Typed
<1>8. PassedSoFar' /\ ApprovedIsComplete'
  BY <1>1, <1>4, <1>7 DEF Inv, PassedSoFar, ApprovedIsComplete, Answered, Passed
<1> QED BY <1>5, <1>6, <1>8 DEF Inv

LEMMA SubmitInv ==
    ASSUME Inv, NEW a \in App, NEW k \in FlowKey, NEW s \in 1 .. Len(flow_registry[k]),
           NEW form \in Payloads[k][s], Submit(a, k, s, form)
    PROVE  Inv'
<1> DEFINE final == Ledger(k)!FinalStatus(s, Outcomes(k, s, form))
<1>1. Typed /\ key = k
  BY DEF Inv, Submit
<1>2. /\ status[a] \in {"STARTED", "IN_PROGRESS"}
      /\ \A t \in 1 .. (s - 1) : Answered(a, t)
  BY DEF Submit, Ledger!Accept, Ledger!OpenTo, Ledger!IsCustomerSubmittable,
         Ledger!CUSTOMER_SUBMITTABLE_STATUSES, Ledger!Answered, Answered
<1>3. /\ status' = [status EXCEPT ![a] = final]
      /\ responses' = [responses EXCEPT ![a][s] = form]
      /\ key' = key
  BY DEF Submit, Ledger!Accept
<1>4. /\ final \in ApplicationStatus
      /\ final \notin {"MANUAL_REVIEW", "REJECTED"} => Passed(s, form)
      /\ final = "APPROVED" => s = Len(Flow)
  BY <1>1, FinalVerdict DEF Submit, Passed, Flow
<1> HIDE DEF final
<1>5. /\ Flow' = Flow /\ AnyAnswers' = AnyAnswers
      /\ s \in 1 .. Len(Flow) /\ form \in AnyAnswers
  BY <1>1, <1>3 DEF Flow, AnyAnswers
<1>6. /\ status'[a] = final
      /\ responses'[a][s] = form
      /\ \A t \in 1 .. Len(Flow) : t # s => responses'[a][t] = responses[a][t]
      /\ \A b \in App \ {a} : status'[b] = status[b] /\ responses'[b] = responses[b]
  BY <1>1, <1>3, <1>5 DEF Typed
<1>7. Typed'
  <2>1. status' \in [App -> ApplicationStatus \cup {"ABSENT"}]
    BY <1>1, <1>3, <1>4 DEF Typed
  <2>2. responses' \in [App -> [1 .. Len(Flow) -> AnyAnswers \cup {NoAnswers}]]
    BY <1>1, <1>3, <1>5 DEF Typed
  <2> QED BY <1>1, <1>3, <1>5, <2>1, <2>2 DEF Typed
<1>8. ASSUME NEW b \in App, NEW t \in 1 .. Len(Flow), Answered(b, t)'
      PROVE  /\ responses'[b][t] \in Payloads[key][t]
             /\ status'[b] \notin {"MANUAL_REVIEW", "REJECTED"} =>
                  Passed(t, responses'[b][t])
  <2>1. CASE b = a /\ t = s
    BY <2>1, <1>1, <1>4, <1>6
  <2>2. CASE b = a /\ t # s
    <3>1. Answered(a, t) /\ responses'[a][t] = responses[a][t]
      BY <1>6, <1>8, <2>2 DEF Answered
    <3> QED BY <3>1, <1>2, <2>2 DEF Inv, AnswersFit, PassedSoFar
  <2>3. CASE b # a
    <3>1. Answered(b, t) /\ responses'[b][t] = responses[b][t] /\ status'[b] = status[b]
      BY <1>6, <1>8, <2>3 DEF Answered
    <3> QED BY <3>1 DEF Inv, AnswersFit, PassedSoFar
  <2> QED BY <2>1, <2>2, <2>3
<1>9. \A t, p : Passed(t, p)' <=> Passed(t, p)
  BY <1>3 DEF Passed
<1>10. AnswersFit' /\ PassedSoFar'
  BY <1>3, <1>5, <1>8, <1>9 DEF AnswersFit, PassedSoFar
<1>11. ASSUME NEW b \in App, NEW t \in 1 .. Len(Flow), status'[b] = "APPROVED"
       PROVE  responses'[b][t] \in Payloads[key][t] /\ Passed(t, responses'[b][t])
  <2>1. CASE b = a /\ t = s
    BY <2>1, <1>1, <1>4, <1>6, <1>11
  <2>2. CASE b = a /\ t # s
    <3>1. s = Len(Flow)
      BY <1>4, <1>6, <1>11, <2>2
    <3>2. t \in 1 .. (s - 1)
      BY <3>1, <2>2
    <3>3. Answered(a, t) /\ responses'[a][t] = responses[a][t]
      BY <3>2, <1>2, <1>6, <2>2
    <3> QED BY <3>3, <1>2, <2>2 DEF Inv, AnswersFit, PassedSoFar
  <2>3. CASE b # a
    BY <1>6, <1>11, <2>3 DEF Inv, ApprovedIsComplete
  <2> QED BY <2>1, <2>2, <2>3
<1>12. ApprovedIsComplete'
  BY <1>3, <1>5, <1>9, <1>11 DEF ApprovedIsComplete
<1> QED BY <1>7, <1>10, <1>12 DEF Inv

LEMMA NextInv == Inv /\ [Next]_vars => Inv'
<1> SUFFICES ASSUME Inv, [Next]_vars PROVE Inv'
  OBVIOUS
<1>1. ASSUME NEW a \in App, StartApplication(a) PROVE Inv'
  BY <1>1, StartInv
<1>2. ASSUME NEW a \in App, NEW k \in {key}, NEW s \in 1 .. Len(flow_registry[k]),
             NEW form \in Payloads[k][s], Submit(a, k, s, form)
      PROVE  Inv'
  <2>1. k \in FlowKey
    BY <1>2 DEF Inv, Typed
  <2> QED BY <1>2, <2>1, SubmitInv
<1>3. CASE UNCHANGED vars
  BY <1>3 DEF Inv, Typed, AnswersFit, PassedSoFar, ApprovedIsComplete, Answered,
              Passed, AnyAnswers, Flow, vars
<1> QED BY <1>1, <1>2, <1>3 DEF Next

(***************************************************************************)
(* Along every journey the answers that are held are answers to their      *)
(* steps and passed their checks, unless the application was stopped.      *)
(***************************************************************************)
THEOREM Invariance == Spec => []Inv
<1> QED BY InitInv, NextInv, PTL DEF Spec

(***************************************************************************)
(* Nobody is approved without the confirmations his flow insists on, with  *)
(* whatever numbers (web/forms.py:131; flows/*.py, requires_true).         *)
(***************************************************************************)
THEOREM Confirmed == Spec => []ConfirmedWhenApproved
<1>1. Inv => ConfirmedWhenApproved
  <2> SUFFICES ASSUME Inv, NEW a \in App, status[a] = "APPROVED",
                      NEW s \in 1 .. Len(Flow), NEW field \in Flow[s].requires_true
               PROVE  responses[a][s][field] = TRUE
    BY DEF ConfirmedWhenApproved
  <2>1. key \in FlowKey /\ responses[a][s] \in Payloads[key][s]
    BY DEF Inv, Typed, ApprovedIsComplete
  <2>2. /\ WellFormed(Flow[s])
        /\ DOMAIN responses[a][s] = Flow[s].fields
        /\ \A f \in DOMAIN responses[a][s] :
             responses[a][s][f] \in CleanEntries(Flow[s], key.country, f)
    BY <2>1, AskedForms DEF Flow
  <2>3. field \in Flow[s].fields /\ field \in BOOLEAN_FIELDS
    BY <2>2 DEF WellFormed
  <2>4. \A v \in CleanEntries(Flow[s], key.country, field) : v = TRUE
    BY <2>3, CleanFlag
  <2>5. responses[a][s][field] \in CleanEntries(Flow[s], key.country, field)
    BY <2>2, <2>3
  <2> QED BY <2>4, <2>5, Zenon
<1> QED BY <1>1, Invariance, PTL

LEMMA StoredAvoids ==
    ASSUME NEW a, NEW field, NEW bad,
           \A s \in 1 .. Len(Flow) : field \in DOMAIN responses[a][s] =>
                                      responses[a][s][field] \notin bad
    PROVE  Stored(a, field) \cap bad = {}
  BY DEF Stored

(***************************************************************************)
(* The rules of README.md:73-80 hold of the answers of everybody who is    *)
(* approved, in every flow and for any set of amounts.  Where validation   *)
(* lets "nan" through (web/forms.py:97-108), a rule about numbers is       *)
(* silent on the comparison the nan is in, as domain/decisioning.py:49-72  *)
(* is, and on no other: neither the other half of the rule nor the rules   *)
(* about other answers suffer.                                             *)
(***************************************************************************)
THEOREM RulesHold == Spec => []RulesHoldWhenApproved
<1>1. Inv => RulesHoldWhenApproved
  <2> SUFFICES ASSUME Inv PROVE RulesHoldWhenApproved
    OBVIOUS
  <2>1. ASSUME NEW a \in App, status[a] = "APPROVED", NEW s \in 1 .. Len(Flow)
        PROVE  TextRules(responses[a][s]) /\ NumberRules(responses[a][s])
    <3>1. /\ key \in FlowKey
          /\ responses[a][s] \in Payloads[key][s]
          /\ \A j \in 1 .. Len(ChecksOf(key)[s]) :
               Outcomes(key, s, responses[a][s])[j] = "APPROVED"
      BY <2>1 DEF Inv, Typed, ApprovedIsComplete, Passed
    <3> QED BY <3>1, PassedTextRules, PassedNumberRules DEF Flow
  <2>2. ASSUME NEW a \in App, status[a] = "APPROVED"
        PROVE  /\ Stored(a, "personal_identity_number") \cap {"ends 0000", "ends 1111"} = {}
               /\ Stored(a, "company_identifier") \cap {"starts 00", "ends 1111"} = {}
               /\ Stored(a, "tax_residency") \cap {"IR", "KP", "SY"} = {}
               /\ Stored(a, "is_pep") \cap {TRUE} = {}
               /\ Stored(a, "sector") \cap {"FINANCIAL_SERVICES"} = {}
               /\ Stored(a, "iban") \cap {"ends 9999", "ends 0000"} = {}
    <3>1. ASSUME NEW s \in 1 .. Len(Flow), "personal_identity_number" \in DOMAIN responses[a][s]
          PROVE  responses[a][s]["personal_identity_number"] \notin {"ends 0000", "ends 1111"}
      BY <2>1, <2>2, <3>1 DEF TextRules
    <3>2. ASSUME NEW s \in 1 .. Len(Flow), "company_identifier" \in DOMAIN responses[a][s]
          PROVE  responses[a][s]["company_identifier"] \notin {"starts 00", "ends 1111"}
      BY <2>1, <2>2, <3>2 DEF TextRules
    <3>3. ASSUME NEW s \in 1 .. Len(Flow), "tax_residency" \in DOMAIN responses[a][s]
          PROVE  responses[a][s]["tax_residency"] \notin {"IR", "KP", "SY"}
      BY <2>1, <2>2, <3>3 DEF TextRules
    <3>4. ASSUME NEW s \in 1 .. Len(Flow), "is_pep" \in DOMAIN responses[a][s]
          PROVE  responses[a][s]["is_pep"] \notin {TRUE}
      BY <2>1, <2>2, <3>4 DEF TextRules
    <3>5. ASSUME NEW s \in 1 .. Len(Flow), "sector" \in DOMAIN responses[a][s]
          PROVE  responses[a][s]["sector"] \notin {"FINANCIAL_SERVICES"}
      BY <2>1, <2>2, <3>5 DEF NumberRules
    <3>6. ASSUME NEW s \in 1 .. Len(Flow), "iban" \in DOMAIN responses[a][s]
          PROVE  responses[a][s]["iban"] \notin {"ends 9999", "ends 0000"}
      BY <2>1, <2>2, <3>6 DEF TextRules
    <3> QED BY <3>1, <3>2, <3>3, <3>4, <3>5, <3>6, StoredAvoids
  <2>3. ASSUME NEW a \in App, status[a] = "APPROVED",
               NEW share \in Stored(a, "largest_ownership_percent"), share # NotANumber
        PROVE  share < 75
    BY <2>1, <2>3 DEF Stored, NumberRules
  <2>4. ASSUME NEW a \in App, status[a] = "APPROVED",
               NEW s \in StoredAt(a, {"monthly_income", "monthly_expenses"})
        PROVE  Affordable(responses[a][s])
    BY <2>1, <2>4 DEF StoredAt, NumberRules
  <2>5. ASSUME NEW a \in App, status[a] = "APPROVED",
               NEW s \in StoredAt(a, {"annual_turnover"})
        PROVE  VolumeFits(responses[a][s])
    BY <2>1, <2>5 DEF StoredAt, NumberRules
  <2>6. ASSUME NEW a \in App, status[a] = "APPROVED"
        PROVE  TRUE \notin Stored(a, "is_pep") /\ "FINANCIAL_SERVICES" \notin Stored(a, "sector")
    <3>1. Stored(a, "is_pep") \cap {TRUE} = {} /\ Stored(a, "sector") \cap {"FINANCIAL_SERVICES"} = {}
      BY <2>2, <2>6
    <3> QED BY <3>1
  <2>7. ASSUME NEW a \in App, status[a] = "APPROVED", NEW count \in Stored(a, "ubo_count")
        PROVE  count # NotANumber /\ count >= 1
    BY <2>1, <2>7 DEF Stored, NumberRules
  <2>8. ASSUME NEW a \in App, status[a] = "APPROVED"
        PROVE  FALSE \notin Stored(a, "has_signatory_authority")
    <3>1. ASSUME NEW s \in 1 .. Len(Flow), "has_signatory_authority" \in DOMAIN responses[a][s]
          PROVE  responses[a][s]["has_signatory_authority"] \notin {FALSE}
      BY <2>1, <2>8, <3>1 DEF TextRules
    <3>2. Stored(a, "has_signatory_authority") \cap {FALSE} = {}
      BY <3>1, StoredAvoids
    <3> QED BY <3>2
  <2> HIDE DEF Inv
  <2> QED BY <2>2, <2>3, <2>4, <2>5, <2>6, <2>7, <2>8, Zenon DEF RulesHoldWhenApproved
<1> QED BY <1>1, Invariance, PTL

(***************************************************************************)
(* No market is a trap: an open application can pass its next step, in     *)
(* every flow, as long as somebody may have an income or a turnover and    *)
(* may have no expenses and no debts.                                      *)
(***************************************************************************)
THEOREM NoDeadEnds ==
    ASSUME 0 \in Amount, NEW n \in Amount \cap Nat, n > 0
    PROVE  Spec => []NoDeadEnd
<1>1. Inv => NoDeadEnd
  <2> SUFFICES ASSUME key \in FlowKey, NEW s \in 1 .. Len(flow_registry[key])
               PROVE  \E form \in Payloads[key][s] :
                        \A j \in 1 .. Len(ChecksOf(key)[s]) :
                          Outcomes(key, s, form)[j] = "APPROVED"
    BY DEF Inv, Typed, NoDeadEnd, Flow
  <2> QED BY EveryStepCanPass
<1> QED BY <1>1, Invariance, PTL

-----------------------------------------------------------------------------
(* A journey through flow k is a behaviour of the serial ledger of flow k. *)

(* The version is the number of what was written, counted from one.        *)
Numbered ==
    /\ version \in [App -> Nat]
    /\ \A a \in App : status[a] # "ABSENT" => version[a] > 0

LEMMA StepIsLedgerStep ==
    ASSUME Inv, Numbered, MaxVersion \in Nat, NEW k \in FlowKey, key = k, [Next]_vars
    PROVE  Numbered' /\ key' = k /\ [Ledger(k)!Next]_(Ledger(k)!vars)
<1>1. Typed
  BY DEF Inv
<1>2. ASSUME NEW a \in App, StartApplication(a)
      PROVE  Numbered' /\ key' = k /\ Ledger(k)!Next
  <2>1. key' = k /\ Ledger(k)!StartApplication(a)
    BY <1>2 DEF StartApplication
  <2>2. Numbered'
    BY <1>1, <2>1 DEF Typed, Numbered, Ledger!StartApplication
  <2> QED BY <2>1, <2>2 DEF Ledger!Next
<1>3. ASSUME NEW a \in App, NEW s \in 1 .. Len(flow_registry[k]), version[a] < MaxVersion,
             NEW form \in Payloads[k][s], Submit(a, k, s, form)
      PROVE  Numbered' /\ key' = k /\ Ledger(k)!Next
  <2>1. /\ key' = k
        /\ version[a] < MaxVersion
        /\ Ledger(k)!Accept(a, s, form, version[a], Outcomes(k, s, form))
    BY <1>3 DEF Submit
  <2>2. status[a] # "ABSENT" /\ version' = [version EXCEPT ![a] = @ + 1]
    BY <2>1 DEF Ledger!Accept, Ledger!OpenTo, Ledger!IsCustomerSubmittable,
                Ledger!CUSTOMER_SUBMITTABLE_STATUSES
  <2>3. \A b \in App \ {a} : status'[b] = status[b]
    BY <1>1, <2>1 DEF Typed, Ledger!Accept
  <2>4. Numbered'
    BY <1>1, <2>2, <2>3 DEF Numbered
  <2>5. version[a] \in 1 .. MaxVersion
    BY <2>1, <2>2 DEF Numbered
  <2>6. /\ s \in Ledger(k)!Steps
        /\ form \in UNION {Payloads[k][t] : t \in 1 .. Len(flow_registry[k])}
    BY DEF Ledger!Steps
  <2>7. Outcomes(k, s, form) \in Ledger(k)!Verdicts(s)
    BY <1>3 DEF Submit, Outcomes, Ledger!Verdicts, CheckOutcome, Ledger!CheckOutcome
  <2> QED BY <2>1, <2>4, <2>5, <2>6, <2>7 DEF Ledger!Next
<1>4. CASE UNCHANGED vars
  BY <1>4 DEF vars, Numbered, Ledger!vars
<1> QED BY <1>2, <1>3, <1>4 DEF Next

(***************************************************************************)
(* Every journey is a behaviour of the serial ledger of its flow, which    *)
(* thus may be used for what the ledger promises.                          *)
(***************************************************************************)
THEOREM KeepsLedger ==
    ASSUME MaxVersion \in Nat, NEW k \in FlowKey
    PROVE  Spec /\ key = k => Ledger(k)!Spec
<1> DEFINE InFlow == key = k
           LNext == Ledger(k)!Next
           lvars == Ledger(k)!vars
<1>1. Init => Numbered
  BY DEF Init, Numbered, Ledger!Init
<1>2. Inv /\ Numbered /\ InFlow /\ [Next]_vars => Numbered' /\ InFlow' /\ [LNext]_lvars
  BY StepIsLedgerStep
<1>3. Init /\ InFlow => Ledger(k)!Init
  BY DEF Init
<1>4. Spec /\ InFlow => Ledger(k)!Init /\ [][LNext]_lvars
  <2> HIDE DEF InFlow, LNext, lvars
  <2> QED BY <1>1, <1>2, <1>3, Invariance, PTL DEF Spec
<1>5. Ledger(k)!Spec <=> Ledger(k)!Init /\ [][LNext]_lvars
  BY PTL DEF Ledger!Spec
<1> QED BY <1>4, <1>5, PTL

=============================================================================
