SPECIFICATION Spec
CONSTANTS
    Installations <- AllInstallations
    Normalized <- SpokenNames
    WellFormedSlugs = {"", "alpha", "beta", "gamma", "delta"}
    Slugs = {"alpha", "beta", "gamma", "delta"}
    CronIntervalMs = 1000
    LastBlock <- ChainEnds
INVARIANTS
    AcceptedIsComplete
    ActiveNetworksAreWatched
    NoMatchLost
PROPERTIES
    EventuallyNotified
    ShutdownCompletes
CHECK_DEADLOCK FALSE
