SPECIFICATION FairSpec
CONSTANTS
    Secrets = {"absent", "nokey", "bad", "ok"}
    NamedChoices = {TRUE, FALSE}
    ValidChoices = {TRUE, FALSE}
    FaultSteps = {"idle", "AddFinalizer", "GetCluster", "GetSecret",
                  "InstallRBAC", "CreateCluster", "UpdateStatus", "GetClusterDel",
                  "DeleteCluster", "RemoveFinalizer"}
    MaxLag = 3
    MaxFaults = 2
    MaxEdits = 7
INVARIANTS
    TypeOK
    NoOrphanRegistration
    CompleteMeansRegistered
PROPERTIES
    FinalStatesStay
    EventuallyRegistered
    EventuallyGone
CHECK_DEADLOCK FALSE
