SPECIFICATION Spec
CONSTANTS
    Blocks = {1}
    Jobs = {j1, j2}
    Watchers = {w1, w2}
    InitialEntries = {}
    Undetected = {1}
    InitialConfirmed = 1
    MaxConfirmed = 1
    MaxCount = 2
    max_retries = 2
    max_block_age = 0
    max_blocks_per_run = 2
    StorageFails = TRUE
    Crashes = TRUE
SYMMETRY Overlapping
INVARIANTS
    GivenUpOnlyAfterMaxRetries
