\* Two segments, two contacts, three operations, one change of a contact, one error.
SPECIFICATION Spec
CONSTANTS
    Segment = {s1, s2}
    Contact = {x1, x2}
    Trait = {hot, cold}
    Op = {o1, o2, o3}
    None = None
    MaxChanges = 1
    MaxFaults = 1
SYMMETRY Symmetry
CHECK_DEADLOCK FALSE
INVARIANTS
    CountIsExact
    CampaignKeepsSegment
PROPERTIES
    AudienceIsCounted
