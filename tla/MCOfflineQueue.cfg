SPECIFICATION FairSpec
CONSTANTS
    Ops = {1}
    Accounts = {a1, a2}
    NoAccount = NoAccount
    Pages = {p1}
    Workers = {w1}
    NoOp = NoOp
    MaxRetries = 2
    MaxCloses = 1
    Faults = {"network", "session", "cancel", "tabs"}
INVARIANTS
    DuplicateHasCause
PROPERTIES
    KeptUntilAnswered
    SentByOwner
    EventuallyLeaves
