SPECIFICATION Spec
CONSTANTS
    s1 = s1
    s2 = s2
    c1 = c1
    w1 = w1
    w2 = w2
    Sessions = {s1, s2}
    Clients = {c1}
    ClientOf <- OneClient
    Workers = {w1, w2}
    Lifetimes = {2}
    Window = 2
    KeptFor = 2
    MaxClock = 3
    MaxEdits = 1
    NoSession = NoSession
INVARIANTS
    ApprovedAsSubmitted
    ApprovedWasSubmitted
    RemindedOnce
PROPERTIES
    ClosedStays
    ExpiryTakesHold
CONSTRAINT TwoAtTheStart
