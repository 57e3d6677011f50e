SPECIFICATION Spec
CONSTANTS
    Slots = {s1}
    Rounds = {r1, r2}
    lead = lead
    manager = manager
    Nobody = Nobody
    Users <- MCUsers
    RoleOf <- MCRoleOf
    Templates <- MCTemplates
    NoTemplate = NoTemplate
    NoOrder = NoOrder
    NoRow = NoRow
    MaxTime = 3
    Faults = {"abort", "template"}
SYMMETRY Symmetry
CHECK_DEADLOCK FALSE
INVARIANTS
    TypeOK
    ChainInOrder
    FinishedChainAccepts
PROPERTIES
    EventsChain
    WholeRequests
