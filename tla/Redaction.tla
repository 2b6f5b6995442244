----------------------------- MODULE Redaction -----------------------------
(***************************************************************************)
(* What integration_logs.raw_response_json keeps of an answer: the         *)
(* payloads that the nine checks write (services/integration_runner.py and *)
(* integrations/) and their masking (services/redaction.py).               *)
(*                                                                         *)
(* A JSON value is a pair of its kind and its content: a dict or a list    *)
(* with its members, a leaf, or text that json.loads refuses.  A leaf is   *)
(* the customer's answer to a field, copied or easily computed back, or a  *)
(* fact that is not.                                                       *)
(***************************************************************************)
EXTENDS Flows

CONSTANTS
    Json,     \* the JSON values a provider may answer with
    Height    \* how deep each of them is nested

-----------------------------------------------------------------------------
(* domain/fields.py: a field is sensitive unless it opts out.              *)

FieldId == TEXT_FIELDS \cup NUMBER_FIELDS \cup SELECT_FIELDS \cup BOOLEAN_FIELDS

NotSensitive ==
    {"legal_form", "sector", "is_pep", "has_signatory_authority", "ubo_count",
     "largest_ownership_percent", "consent"}

sensitive_field_keys == FieldId \ NotSensitive

_PROVIDER_SIGNAL_KEYS == {"disposable_income", "matched_country"}

\* Mutant: only the catalogue's keys are masked.
CatalogueKeysOnly == sensitive_field_keys

sensitive_log_keys == sensitive_field_keys \cup _PROVIDER_SIGNAL_KEYS

-----------------------------------------------------------------------------
(* JSON values.                                                            *)

Leaf(x) == <<"leaf", x>>
Dict(f) == <<"dict", f>>
List(s) == <<"list", s>>
Unparsable == <<"unparsable", "">>

Kind(data) == data[1]
Content(data) == data[2]
Holds(data) == Kind(data) \in {"dict", "list"}

AnswerTo(field) == Leaf(<<"answer", field>>)
Fact(name) == Leaf(<<"fact", name>>)
_MASK == Leaf(<<"fact", "[REDACTED]">>)

\* Mutant: lists are left as they are.
RedactNoLists(deeper, data) ==
    IF Kind(data) # "dict" THEN data
    ELSE Dict([name \in DOMAIN Content(data) |->
                 IF name \in sensitive_log_keys THEN _MASK
                 ELSE deeper[Content(data)[name]]])

(* One call of _deep_redact, given what the deeper calls return.           *)
Redact(deeper, data) ==
    CASE Kind(data) = "dict" ->
            Dict([name \in DOMAIN Content(data) |->
                    IF name \in sensitive_log_keys THEN _MASK
                    ELSE deeper[Content(data)[name]]])
      [] Kind(data) = "list" ->
            List([k \in DOMAIN Content(data) |-> deeper[Content(data)[k]]])
      [] OTHER -> data

_deep_redact[data \in Json] == Redact(_deep_redact, data)

redact_integration_payload(text) ==
    IF Kind(text) = "unparsable" THEN Dict(<<>>) ELSE _deep_redact[text]

-----------------------------------------------------------------------------
(* The payloads of the checks.  With no expenses the surplus is the        *)
(* income, so it counts as an answer.                                      *)
RawResponse(service) ==
    CASE service = "identity" ->
            {Dict([verification_status |-> Fact("status")])}
      [] service = "registry" ->
            {Dict([registry_status |-> Fact("status")])}
      [] service = "bank_account" ->
            {Dict([iban_status |-> Fact("status")])}
      [] service = "address_lookup" ->
            {Dict([address_confidence |-> Fact("0.95"), status |-> Fact("FETCHED")])}
      [] service = "representative" ->
            {Dict([authority |-> Fact("confirmed or not")])}
      [] service = "sanctions" ->
            {Dict([sanctions_hit |-> Fact("hit"), pep_hit |-> AnswerTo("is_pep"),
                   matched_country |-> country]) :
                country \in {AnswerTo("tax_residency"), Fact("none")}}
      [] service = "ubo_kyc" ->
            {Dict([ubo_count |-> AnswerTo("ubo_count"),
                   largest_ownership_percent |-> AnswerTo("largest_ownership_percent")])}
      [] service = "business_credit" ->
            {Dict([annual_turnover |-> AnswerTo("annual_turnover"),
                   expected_monthly_volume |-> AnswerTo("expected_monthly_volume"),
                   sector |-> AnswerTo("sector")])}
      [] service = "credit_bureau" ->
            {Dict([score |-> Fact("score"),
                   disposable_income |-> AnswerTo("monthly_income"),
                   debt_to_income_ratio |-> Fact("ratio"),
                   debt_flags |-> List(flags)]) :
                flags \in {<<>>, <<Fact("NEGATIVE_SURPLUS")>>, <<Fact("HIGH_LEVERAGE_RISK")>>}}

(* JSON is finite: what a value holds is less deep than the value itself.  *)
ASSUME JsonAssumption ==
    /\ \A service \in IntegrationName : RawResponse(service) \subseteq Json
    /\ Height \in [Json -> Nat]
    /\ \A data \in Json :
         /\ Kind(data) \in {"dict", "list", "leaf"}
         /\ Holds(data) => \A d \in DOMAIN Content(data) :
              Content(data)[d] \in Json /\ Height[Content(data)[d]] < Height[data]

-----------------------------------------------------------------------------
(* What masking is to do, told by paths.                                   *)

(* The values within a JSON value, each with the keys and positions that   *)
(* lead to it, by the number of these.                                     *)
Held(node) ==
    IF ~Holds(node.value) THEN {}
    ELSE {[path |-> Append(node.path, <<Kind(node.value), d>>),
           value |-> Content(node.value)[d]] : d \in DOMAIN Content(node.value)}

Nodes(data) ==
    LET nodes[n \in Nat] ==
          IF n = 0 THEN {[path |-> <<>>, value |-> data]}
          ELSE UNION {Held(node) : node \in nodes[n - 1]}
    IN nodes

SensitiveStep == {"dict"} \X sensitive_log_keys
Clear(path) == \A i \in 1 .. Len(path) : path[i] \notin SensitiveStep

(* The only sensitive key of the path is its last.                         *)
Cut(path) ==
    /\ path # <<>>
    /\ \A i \in 1 .. Len(path) : path[i] \in SensitiveStep <=> i = Len(path)

(* What is seen of a node: the content of a leaf, the keys or the length   *)
(* of what holds others.                                                   *)
Seen(path, value) ==
    <<path, Kind(value), IF Holds(value) THEN DOMAIN Content(value) ELSE Content(value)>>

(* Each value below sensitive keys is replaced, with all beside it, by one *)
(* mask at the first of these keys; everything else is kept.               *)
MaskedAt(json, n) ==
    {Seen(node.path, IF Cut(node.path) THEN _MASK ELSE node.value) :
        node \in {m \in Nodes(json)[n] : Clear(m.path) \/ Cut(m.path)}}

SeenAt(json, n) == {Seen(node.path, node.value) : node \in Nodes(json)[n]}

-----------------------------------------------------------------------------
(* A provider may answer in a shape of its own (README.md:64, "walks       *)
(* nested structures"): the payload is somewhere in it, and every answer   *)
(* is what the payload has there or goes by the name of its field.         *)
EndsWith(path, end) ==
    \E i \in 0 .. Len(path) : end = SubSeq(path, i + 1, Len(path))

Carries(json, payload) ==
    /\ \E n \in 0 .. Height[json] : \E node \in Nodes(json)[n] : node.value = payload
    /\ \A n \in 0 .. Height[json], field \in FieldId : \A node \in Nodes(json)[n] :
           node.value = AnswerTo(field) =>
               \/ \E i \in 1 .. n : node.path[i] = <<"dict", field>>
               \/ \E m \in 0 .. n : \E part \in Nodes(payload)[m] :
                    part.value = node.value /\ EndsWith(node.path, part.path)

Reply(service) ==
    {json \in Json : \E payload \in RawResponse(service) : Carries(json, payload)}

(* The checks whose payload is masked exactly, in whatever shape.  Text    *)
(* that is no JSON leaves nothing.                                         *)
MaskedExactly ==
    {service \in IntegrationName :
        /\ Nodes(redact_integration_payload(Unparsable))[1] = {}
        /\ \A json \in Reply(service) : \A n \in 0 .. Height[json] + 1 :
             SeenAt(redact_integration_payload(json), n) = MaskedAt(json, n)}

(* The fields whose answers are in a payload in clear, once it is masked.  *)
ClearIn(json) ==
    {field \in FieldId : \E n \in 0 .. Height[json] :
        \E node \in Nodes(redact_integration_payload(json))[n] :
            node.value = AnswerTo(field)}

(* The fields whose answers a check may leave in the log in clear.         *)
AnswersInClear ==
    [service \in IntegrationName |-> UNION {ClearIn(json) : json \in Reply(service)}]

=============================================================================
