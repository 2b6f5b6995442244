----------------------------- MODULE MCJourney -----------------------------
(* Small instances of Journey: one application in any of the six flows.    *)
EXTENDS AuditTrail

LOCAL INSTANCE SequencesExt

CONSTANTS
    a1,
    EnvelopeKeys,   \* keys a provider may wrap its payload in
    MaxDepth        \* bound: how deep it wraps it

(* Around the thresholds: nothing, and ratios just above 0.60 on either    *)
(* side of where rounding to four places draws the line.                   *)
MCAmount == {0, 60005, 60006, 100000}

(* 60005 / 100000 as a float is 0.60004999999999997...                     *)
MCFloatIsBelow == {<<100000, 60005>>}

(* The same, and what is no number.                                        *)
MCAmountNan == MCAmount \cup {NotANumber}

MCAmountText == {NotANumber, 0, 100000}

-----------------------------------------------------------------------------
(* Payloads in envelopes: in a dict, in a dict that has a list beside it,  *)
(* in a list.                                                              *)
Wrapper == [into : {"dict", "dict and list", "list"}, name : EnvelopeKeys]

Account == Dict([iban |-> AnswerTo("iban"), score |-> Fact("score")])

Wrap(payload, w) ==
    CASE w.into = "dict" -> Dict([k \in {w.name} |-> payload])
      [] w.into = "dict and list" ->
            Dict([k \in {w.name, "accounts"} |->
                    IF k = w.name THEN payload ELSE List(<<Account>>)])
      [] w.into = "list" -> List(<<Account, payload>>)

Envelope == UNION {[1 .. n -> Wrapper] : n \in 0 .. MaxDepth}

Shapes ==
    {FoldLeft(Wrap, payload, envelope) :
        payload \in UNION {RawResponse(service) : service \in IntegrationName},
        envelope \in Envelope}

WithMembers(values, i) ==
    values \cup UNION {{Content(data)[d] : d \in DOMAIN Content(data)} :
                          data \in {v \in values : Holds(v)}}

MCJson == FoldLeft(WithMembers, Shapes, [i \in 1 .. MaxDepth + 3 |-> i])

MCHeight[data \in MCJson] ==
    IF ~Holds(data) THEN 0
    ELSE 1 + Max({0} \cup {MCHeight[Content(data)[d]] : d \in DOMAIN Content(data)})

=============================================================================
