\* Two sessions, three operations on them, one error, scheduled fairly.
SPECIFICATION FairSpec
CONSTANTS
    Session = {s1, s2}
    Op = {o1, o2, o3}
    None = None
    MaxTokens = 3
    MaxFaults = 1
CHECK_DEADLOCK FALSE
INVARIANTS
    UnapprovedHasNoSession
    DeactivationEndsSessions
    StoredIsCurrent
    LogoutForgets
PROPERTIES
    EndedIsForgotten
