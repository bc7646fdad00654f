\* One recipient, up to two crashes or database errors, three requests (launch, pause and
\* resume among them), scheduled fairly.
SPECIFICATION FairSpec
CONSTANTS
    Campaign = {c1}
    Contact = {x1}
    Request = {r1, r2, r3}
    Worker = {w1}
    NoCampaign = NoCampaign
    NoJob = NoJob
    MaxFaults = 2
CHECK_DEADLOCK FALSE
INVARIANTS
    IInv
    OneSendPerRun
    SentNeverOverstated
PROPERTIES
    EveryJobEnds
    CampaignEnds
