SPECIFICATION ResyncFairSpec
CONSTANTS
    Clusters = {"c", "x"}
    Managed = {"c"}
    Servers = {"s"}
    Profiles = {"p"}
    Apps = {"a"}
    Existing = {"app", "appset", "prof"}
    Ops = {"register", "delete app", "resync"}
    MaxEdits = 1
    MaxFaults = 0
PROPERTIES
    EventuallyInSync
CHECK_DEADLOCK FALSE
