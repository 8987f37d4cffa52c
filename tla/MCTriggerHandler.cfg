SPECIFICATION Spec
CONSTANTS
    Handlers = {1, 2}
    Plans <- BlockPlans
    Trigger <- Triggers
    BackoffTimes = 1
    Scripts = {"quick", "deaf"}
    Deaf = {"deaf"}
    Silent = {"silent"}
    Requesters <- Obligations
    Keys = {"policy", "host"}
    Storages = {"http", "smtp"}
    StorageOf <- PolicyStorages
    Nobody = Nobody
INVARIANTS
    OneClientPerKey
    OneMatchAtATime
    SendsWithinPolicy
PROPERTIES
    ImplementsDuties
    TasksEnd
    ShutdownEndsTasks
CHECK_DEADLOCK FALSE
