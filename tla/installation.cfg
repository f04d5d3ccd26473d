SPECIFICATION Spec
CONSTANTS
    Procs = {p, q}
    MaxRuns = 3
    MaxFaults = 2
    MaxEdits = 1
SYMMETRY Symmetry
INVARIANTS TypeOK SuccessMeansInstalled ControllersHaveAccess
CHECK_DEADLOCK FALSE
