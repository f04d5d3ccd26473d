SPECIFICATION Spec
CONSTANTS
    Clusters = {"c", "x"}
    Managed = {"c"}
    Servers = {"s"}
    Profiles = {"p"}
    Apps = {"a"}
    Existing = {"app", "appset", "prof"}
    Ops = {"app", "profile", "appset"}
    MaxEdits = 1
    MaxFaults = 1
INVARIANTS
    TypeOK
    QuietMeansInSync
PROPERTIES
    UserEditsKept
CHECK_DEADLOCK FALSE
