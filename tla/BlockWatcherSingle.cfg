SPECIFICATION FairSpec
CONSTANTS
    Runs = {r1}
    MaxHeight = 6
    InitialHeight = 2
    InitialFiles <- NoFileYet
    confirmation_blocks = 1
    max_past_blocks = 2
    store_blocks = TRUE
    records_missed = TRUE
    MaxLag = 0
    MaxLeftOut = 0
    StorageFails = FALSE
    Crashes = FALSE
INVARIANTS
    NoDuplicateProcessing
PROPERTIES
    LastNeverRegresses
    EventuallyNotified
