\* Three concurrent requests on one version.
CONSTANTS
    alerts = alerts
    cases = cases
    k1 = k1
    k2 = k2
    a = a
    b = b
    p1 = p1
    p2 = p2
    p3 = p3
    Categories = {alerts, cases}
    Alerts = alerts
    Keys = {k1, k2}
    Contents = {a, b}
    Uploads <- MCUploads
    Clients = {p1, p2, p3}
    None = None
SYMMETRY ClientSymmetry
SPECIFICATION Spec
CHECK_DEADLOCK FALSE
INVARIANTS
    ReportCoversAll
PROPERTY OutcomeIsFrozen
