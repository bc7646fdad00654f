\* Three calls of both kinds on the counters of a page and a contact, with a crash or a
\* Redis error: every interleaving with the expiry of either counter, scheduled fairly.
SPECIFICATION FairSpec
CONSTANTS
    Page = Page
    Workspace = Workspace
    Contact = Contact
    Key = {Page, Contact}
    Limit <- SmallLimits
    ServiceKeys <- ServiceRoutes
    WorkerKeys <- WorkerRoutes
    Call = {p1, p2, p3}
    MaxFaults = 1
CHECK_DEADLOCK FALSE
INVARIANTS
    CounterIsExact
    EndlessCounterIsNegative
    GrantsBounded
PROPERTIES
    QuotaComesBack
