CONSTANTS
    a1 = a1
    a2 = a2
    p1 = p1
    p2 = p2
    t1 = t1
    t2 = t2
    noAnswers = noAnswers
    noApp = noApp
    noForm = noForm
    App = {a1}
    Answers = {p1}
    Integration = {"registry", "credit_bureau"}
    RequestId = {}
    NumSteps = 2
    Required <- MCRequired
    NoAnswers = noAnswers
    Tab = {t1, t2}
    Review = {2}
    NoApp = noApp
    NoForm = noForm
    MaxVersion = 5
SPECIFICATION PerseveringSpec
PROPERTIES
    PersevereToDecision
CHECK_DEADLOCK FALSE
