\* Two campaigns sharing the queue (one may be a copy of the other), no fault: every
\* interleaving of three requests and two worker slots.
SPECIFICATION Spec
CONSTANTS
    Campaign = {c1, c2}
    Contact = {x1, x2}
    Request = {r1, r2, r3}
    Worker = {w1, w2}
    NoCampaign = NoCampaign
    NoJob = NoJob
    MaxFaults = 0
SYMMETRY Symmetry
CHECK_DEADLOCK FALSE
INVARIANTS
    ExactAccounting
    LastWorkerCompletes
    CompletedIsDrained
PROPERTIES
    ImplementsLedger
