\* Two workspaces and their accounts, two rows, two operations under way at once.
SPECIFICATION Spec
CONSTANTS
    Workspace = {w1, w2}
    FbUser = {u1, u2}
    Account = {a1, a2}
    Row = {q1, q2}
    Op = {o1, o2}
    None = None
SYMMETRY Symmetry
CHECK_DEADLOCK FALSE
INVARIANTS
    OneAccountUnlessFlowsCross
    OneRowUnlessConnectsRace
    PageBelongsToItsAccount
    SubscribedPageHears
