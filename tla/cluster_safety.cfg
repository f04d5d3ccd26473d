SPECIFICATION Spec
CONSTANTS
    Profiles = {"p"}
    UserAnns = {"nil", "p"}
    Overrides = {TRUE, FALSE}
    MaxLag = 2
    MaxFaults = 1
    MaxEdits = 4
    MaxRemovals = 1
INVARIANTS
    TypeOK
    NoOrphanApps
    OverrideBacksClusterApp
    CreatedMeansDeployed
PROPERTIES
    ImplementsLifecycle
    SafeTeardown
CHECK_DEADLOCK FALSE
