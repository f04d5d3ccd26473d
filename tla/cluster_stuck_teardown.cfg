SPECIFICATION FairSpec
CONSTANTS
    Profiles = {"p"}
    UserAnns = {"p"}
    Overrides = {TRUE}
    MaxLag = 2
    MaxFaults = 1
    MaxEdits = 2
    MaxRemovals = 0
PROPERTIES
    EventuallyGone
CHECK_DEADLOCK FALSE
