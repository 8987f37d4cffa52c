SPECIFICATION FairSpec
CONSTANTS
    Window = 3
    HistorySize = 2
    Batches <- MCBatches
    Histories <- MCHistories
    Expectations <- MCExpectations
INVARIANTS
    AllTriggeredWhenJoined
    NoFalseOutOfOrder
PROPERTIES
    Terminates
    ImplementsOrderedDelivery
