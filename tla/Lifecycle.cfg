SPECIFICATION LiveSpec
CONSTANTS
    Handlers = {"chain", "consensus", "dns"}
    Requested = {"chain", "consensus"}
    Signals = {"SIGINT"}
    Outcomes = {TRUE, FALSE}
    StateTypes <- AllTypes
    Waiters <- AllWaiters
INVARIANTS
    TypeOK
    ChainStartedMeansRunning
    OneStarterAtATime
    StartedServicesStop
    StorageClosesLast
PROPERTIES
    InterruptExits
CHECK_DEADLOCK FALSE
