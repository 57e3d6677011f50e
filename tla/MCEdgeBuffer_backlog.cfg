SPECIFICATION FairSpec
CONSTANTS
    Points = {p1, p2, p3}
    Collectors = {c1}
    NoPoint = NoPoint
    Nobody = Nobody
    Capacity = 1
    BatchLimit = 1
    Retention = 1
    Faults = {}
PROPERTIES
    BacklogReplayed
