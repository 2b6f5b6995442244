CONSTANTS
    a1 = a1
    p1 = p1
    q1 = q1
    r1 = r1
    r2 = r2
    w1 = w1
    noAnswers = noAnswers
    noPost = noPost
    App = {a1}
    Answers = {p1}
    Integration = {"registry", "business_credit"}
    RequestId = {q1}
    NumSteps = 3
    Required <- MCChecks
    NoAnswers = noAnswers
    Request = {r1, r2}
    Worker = {w1}
    WorkerOf <- MCSameWorker
    NoPost = noPost
SPECIFICATION FairAuditSpec
INVARIANTS
    RowsAreAnnounced
    StatusLinesAreTrue
    DecisionIsLastWord
    DecisionPageIsFinal
    RedirectIsReachable
PROPERTIES
    EveryPostIsAnswered
CHECK_DEADLOCK FALSE
