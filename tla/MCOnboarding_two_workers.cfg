CONSTANTS
    a1 = a1
    p1 = p1
    p2 = p2
    q1 = q1
    q2 = q2
    q3 = q3
    r1 = r1
    r2 = r2
    w1 = w1
    w2 = w2
    noAnswers = noAnswers
    noPost = noPost
    App = {a1}
    Answers = {p1, p2}
    Integration = {"ubo_kyc", "sanctions"}
    RequestId = {q1, q2}
    NumSteps = 2
    Required <- MCTwoChecks
    NoAnswers = noAnswers
    Request = {r1, r2}
    Worker = {w1, w2}
    WorkerOf <- MCOwnWorker
    NoPost = noPost
SPECIFICATION Spec
SYMMETRY MCSymmetry
INVARIANTS
    TypeOK
    OneWinnerPerVersion
    ConflictMeansProgress
PROPERTIES
    LedgerSpec
CHECK_DEADLOCK FALSE
