\* Two sends of any kind on one token and two subscriptions, one fault, with receipts,
\* opt-ins and opt-outs in between.
SPECIFICATION Spec
CONSTANTS
    Send = {s1, s2}
    Token = {t1}
    Subscription = {x1, x2}
    None = None
    MaxPeriods = 2
    MaxFaults = 1
SYMMETRY Symmetry
CHECK_DEADLOCK FALSE
INVARIANTS
    IInv
    RowTellsOutcome
    SpendingIsExact
PROPERTIES
    StatusMovesForward
    SpentIsRefused
