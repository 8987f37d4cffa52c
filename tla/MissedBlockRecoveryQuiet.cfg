SPECIFICATION FairSpec
CONSTANTS
    Blocks = {1, 2, 3, 4}
    Jobs = {j1}
    Watchers = {w1}
    InitialEntries = {1, 2, 3, 4}
    Undetected = {}
    InitialConfirmed = 4
    MaxConfirmed = 6
    MaxCount = 2
    max_retries = 2
    max_block_age = 3
    max_blocks_per_run = 2
    StorageFails = FALSE
    Crashes = FALSE
INVARIANTS
    TriggeredOnce
    RecoveringIsInProgress
    MissedBlocksTracked
PROPERTIES
    EventuallyResolved
    ImplementsLifecycle
