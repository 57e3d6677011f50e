SPECIFICATION FairSpec
CONSTANTS
    Alerts = {a1, a2, a3}
    NoAlert = NoAlert
    i1 = i1
    i2 = i2
    w1 = w1
    w2 = w2
    Instances = {i1, i2}
    Workers = {w1, w2}
    Placements <- MCPlacements
    NoWorker = NoWorker
    Users = {u1}
    MaxFaults = 1
INVARIANTS
    ActiveBounded
PROPERTIES
    EventuallyAlarmed
    EventuallyCleared
