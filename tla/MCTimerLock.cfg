SPECIFICATION FairSpec
CONSTANTS
    Instances = {i1, i2, i3}
    NoOne = NoOne
    Stale = Stale
    Expiry = 9
    LeastInterval = 1
    MostInterval = 30
    Answer = 2
    Grace = 1
    Period = 3
    MaxFaults = 3
INVARIANTS
    TypeOK
    OneBody
PROPERTIES
    RunsAgain
