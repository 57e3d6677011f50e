SPECIFICATION Spec
CONSTANTS
    Msgs = {m1, m2}
    Dispatchers = {d1, d2}
    Tokens = {t1, t2, t3, t4}
    NoToken = NoToken
    NoMsg = NoMsg
    Poison = {}
    Mortal = {d1, d2}
    BatchSize = 2
    Lease = 2
    MaxBackoff = 1
    Retention = 1
    AttemptCap = 1
    Faults = {"database", "ambiguous", "republish"}
    Timely = FALSE
SYMMETRY Symmetry
INVARIANTS
    TypeOK
    LeaseIsExclusive
    DuplicateHasCause
PROPERTIES
    KeptUntilSent
    LeaseIsFenced
