SPECIFICATION Spec
CONSTANTS
    Profiles = {"p"}
    UserAnns = {"nil"}
    Overrides = {FALSE}
    MaxLag = 2
    MaxFaults = 0
    MaxEdits = 1
    MaxRemovals = 0
INVARIANTS
    BaseAnnotationsKept
CHECK_DEADLOCK FALSE
