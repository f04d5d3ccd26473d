SPECIFICATION Spec
CONSTANTS
    Procs = {p1, p2}
    Profiles = {n, m}
    None = None
    MaxCommands = 5
SYMMETRY Symmetry
INVARIANTS TypeOK Consistent DeleteCleansUp NgUpdateReplaces ExternalSucceeds
CHECK_DEADLOCK FALSE
