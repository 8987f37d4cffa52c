SPECIFICATION TransportsSpec
CONSTANTS
    u1 = u1
    u2 = u2
    u3 = u3
    Tasks = {t1, t2}
    Urls = {u1, u2, u3}
    Configurations <- UpToThreeUrls
    Conditions = {"up", "limited", "down"}
    MaxChanges = 2
    MaxWsChanges = 1
    max_reconnect_attempts = 2
INVARIANTS
    UrlsConserved
    RotationsAreAtomic
    AnswersAreTheirOwn
PROPERTIES
    EveryRequestReturns
