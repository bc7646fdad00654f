\* Two contacts, four operations, two launches at most, one error.
SPECIFICATION Spec
CONSTANTS
    Contact = {c1, c2}
    Op = {o1, o2, o3, o4}
    Plans <- MCPlans
    MaxFaults = 1
SYMMETRY Symmetry
CHECK_DEADLOCK FALSE
INVARIANTS
    IInv
    EachLaunchReachesAll
    CompletedDripIsOver
    LastContactCompletes
    FiringsAreCounted
    MaxTriggersKept
