SPECIFICATION RunsSpec
CONSTANTS
    HistorySize = 2
    Runs = {r1, r2}
    MaxBlock = 4
    MaxChecks = 6
INVARIANTS
    HistoryIsRecent
    DuplicatesAreFar
    OutOfOrderMeansOvertaken
