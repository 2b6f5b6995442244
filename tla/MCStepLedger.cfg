CONSTANTS
    a1 = a1
    p1 = p1
    p2 = p2
    q1 = q1
    q2 = q2
    App = {a1}
    Answers = {p1, p2}
    Integration = {"registry", "ubo_kyc", "sanctions", "business_credit"}
    RequestId = {q1, q2}
    NumSteps = 4
    Required <- MCRequired
    NoAnswers = NoAnswers
SPECIFICATION Spec
SYMMETRY MCSymmetry
INVARIANTS
    TypeOK
    ResponsesArePrefix
    ApprovalIsEarned
    VerdictsDecide
    DecisionMatchesRecord
    OpenHasStepLeft
PROPERTIES
    ClosedNeverChanges
CHECK_DEADLOCK FALSE
