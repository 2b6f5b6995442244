CONSTANTS
    a1 = a1
    App = {a1}
    NoAnswers = NoAnswers
    MaxVersion = 7
    NotANumber = NotANumber
    Garbage = Garbage
    Amount <- MCAmount
    FloatIsBelow <- MCFloatIsBelow
    EnvelopeKeys = {"applicant_profile", "accounts", "address"}
    MaxDepth = 2
    Json <- MCJson
    Height <- MCHeight
SPECIFICATION Spec
INVARIANTS
    FlaggedIsReferred
CHECK_DEADLOCK FALSE
