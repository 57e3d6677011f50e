SPECIFICATION FairSpec
CONSTANTS
    Copies = {c1}
    Consumers = {i1, i2}
    Tokens = {t1, t2, t3}
    NoToken = NoToken
    NoCopy = NoCopy
    MaxRetryCount = 2
    RetryInterval = 1
    HandlerTimeout = 1
    MaxCrashes = 1
    Faults = {"handler", "slow", "database", "dead", "channel"}
    Prompt = TRUE
INVARIANTS
    AwaitedAlone
PROPERTIES
    EventuallySettled
