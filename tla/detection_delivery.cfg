SPECIFICATION Spec
CONSTANTS
    o1 = o1
    o2 = o2
    o3 = o3
    w1 = w1
    w2 = w2
    Operations = {o1, o2, o3}
    Amounts = {9, 10}
    Dates <- MCDates
    AggregationWindow = 1
    FrequentWindow = 1
    Week = 7
    MaxClock = 1
    Threshold = 10
    isPep = FALSE
    isHighRisk = FALSE
    Registered <- MCRegistered
    MinFrequent = 3
    MinRequests = 2
    MinStructured = 2
    MaxAttempts = 2
    MaxDeliveries = 2
    MaxFaults = 1
    MaxChanges = 1
    Refresh = Refresh
    Workers = {w1, w2}
    NoJob = NoJob
INVARIANTS
    LargeOperationAlerted
    TogetherAlerted
    AlertTold
CONSTRAINT Third
SYMMETRY Symmetry
CHECK_DEADLOCK FALSE
