SPECIFICATION Spec
CONSTANTS
    Runs = {r1, r2}
    MaxHeight = 5
    InitialHeight = 4
    InitialFiles <- AnyFile
    confirmation_blocks = 0
    max_past_blocks = 3
    store_blocks = TRUE
    records_missed = TRUE
    MaxLag = 1
    MaxLeftOut = 1
    StorageFails = TRUE
    Crashes = TRUE
SYMMETRY RunsAlike
VIEW LossView
INVARIANTS
    NoSilentLoss
