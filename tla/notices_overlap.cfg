SPECIFICATION Spec
CONSTANTS
    a1 = a1
    a2 = a2
    n1 = n1
    n2 = n2
    m1 = m1
    Alerts = {a1}
    Notices = {n1, n2}
    Workers = {w1, w2}
    Months = {m1}
    MonthOf <- MCMonthOf
    Reportable = {a1}
    Dated = {a1}
    PatchStatuses = {"UNBORN", "DETECTED", "CANCELLED"}
    Overlap = TRUE
    MaxCycle = 0
    MaxCrashes = 0
    NoNotice = NoNotice
    Gone = Gone
SYMMETRY Symmetry
VIEW GuardView
INVARIANTS
    LinkedNoticeExists
PROPERTIES
    NoAlertStolen
CHECK_DEADLOCK FALSE
