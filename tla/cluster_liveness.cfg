SPECIFICATION FairSpec
CONSTANTS
    Profiles = {"p"}
    UserAnns = {"nil", "p"}
    Overrides = {TRUE, FALSE}
    MaxLag = 2
    MaxFaults = 1
    MaxEdits = 3
    MaxRemovals = 0
PROPERTIES
    EventuallyDeployed
    TeardownEnds
    ProfilesSettle
CHECK_DEADLOCK FALSE
