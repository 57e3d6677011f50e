SPECIFICATION Spec
CONSTANTS
    Slots = {s1, s2}
    Rounds = {r1, r2, r3, r4}
    lead = lead
    manager = manager
    Nobody = Nobody
    Users <- MCUsers
    RoleOf <- MCRoleOf
    Templates <- TwoSteps
    NoTemplate = NoTemplate
    NoOrder = NoOrder
    NoRow = NoRow
    MaxTime = 1
    Faults = {"template"}
SYMMETRY Symmetry
CHECK_DEADLOCK FALSE
INVARIANTS
    MilestonesRecorded
    DecidersEntitled
