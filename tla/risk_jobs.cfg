SPECIFICATION Spec
CONSTANTS
    c1 = c1
    w1 = w1
    w2 = w2
    Clients = {c1}
    Levels = {"LOW", "HIGH"}
    Workers = {w1, w2}
    MaxDeliveries = 2
    MaxRequests = 2
    MaxReviews = 1
    MaxQueued = 1
    MaxFaults = 1
    NoClient = NoClient
    NoJob = NoJob
INVARIANTS
    ChangeAssessed
    HighAnnounced
    OrgAssessmentStands
PROPERTIES
    ReviewHappens
CHECK_DEADLOCK FALSE
