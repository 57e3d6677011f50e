SPECIFICATION FairSpec
CONSTANTS
    Msgs = {m1, m2}
    Dispatchers = {d1, d2}
    Tokens = {t1, t2, t3, t4}
    NoToken = NoToken
    NoMsg = NoMsg
    Poison = {m2}
    Mortal = {d1}
    BatchSize = 1
    Lease = 2
    MaxBackoff = 2
    Retention = 1
    AttemptCap = 1
    Faults = {"ambiguous"}
    Timely = TRUE
PROPERTIES
    EventuallyDelivered
    EventuallyCleaned
