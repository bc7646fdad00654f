\* Is a message of the inbox that went out shown as sent?
SPECIFICATION Spec
CONSTANTS
    Send = {s1}
    Token = {t1}
    Subscription = {x1}
    None = None
    MaxPeriods = 1
    MaxFaults = 0
CHECK_DEADLOCK FALSE
INVARIANTS
    AcceptedIsNotFailed
