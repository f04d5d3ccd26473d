SPECIFICATION FairSpec
CONSTANTS
    Accounts = {"a", "b"}
    FaultSteps = {"idle", "GetSecret", "GetTarget", "GetServiceAccount",
                  "ListSecrets", "CreateTarget", "UpdateStatus"}
    MaxLag = 2
    MaxFaults = 1
    MaxEdits = 3
    MaxChanges = 1
INVARIANTS
    CompleteMeansDelivered
PROPERTIES
    FinalStatesStay
    EventuallyDelivered
CHECK_DEADLOCK FALSE
