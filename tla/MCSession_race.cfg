CONSTANTS
    a1 = a1
    a2 = a2
    p1 = p1
    p2 = p2
    t1 = t1
    t2 = t2
    noAnswers = noAnswers
    noApp = noApp
    noForm = noForm
    App = {a1, a2}
    Answers = {p1}
    Integration = {"registry"}
    RequestId = {}
    NumSteps = 2
    Required <- MCRequired
    NoAnswers = noAnswers
    Tab = {t1, t2}
    Review = {2}
    NoApp = noApp
    NoForm = noForm
    MaxVersion = 2
SPECIFICATION Spec
SYMMETRY MCRaceSymmetry
PROPERTIES
    SessionLostOnlyToRace
CHECK_DEADLOCK FALSE
