SPECIFICATION Spec
CONSTANTS
    a1 = a1
    a2 = a2
    n1 = n1
    n2 = n2
    m1 = m1
    Alerts = {a1, a2}
    Notices = {n1, n2}
    Workers = {w1}
    Months = {m1}
    MonthOf <- MCMonthOf
    Reportable = {a1}
    Dated = {}
    PatchStatuses = {"CANCELLED"}
    Overlap = FALSE
    MaxCycle = 1
    MaxCrashes = 1
    NoNotice = NoNotice
    Gone = Gone
SYMMETRY Symmetry
INVARIANTS
    FileMatchesLinks
    RecordCountCoversLinks
    AuditTrailCurrent
    AlertsFollowNotice
    NoDoubleReport
PROPERTIES
    ImplementsLifecycle
    FiledAlertStays
CHECK_DEADLOCK FALSE
