SPECIFICATION Spec
CONSTANTS
    Points = {p1, p2, p3, p4}
    Collectors = {c1, c2}
    NoPoint = NoPoint
    Nobody = Nobody
    Capacity = 1
    BatchLimit = 2
    Retention = 1
    Faults = {"ambiguous", "disk", "restart", "cancel"}
SYMMETRY Symmetry
INVARIANTS
    TypeOK
    Accounted
    DuplicateHasCause
PROPERTIES
    StoredUntilSent
