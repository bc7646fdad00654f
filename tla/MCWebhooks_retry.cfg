\* Two requests, no fault: does a retry recover what failed?
SPECIFICATION Spec
CONSTANTS
    ann = ann
    hello = hello
    again = again
    click = click
    link = link
    Sender <- MCSender
    Event = {hello, again}
    SenderOf <- MCSenderOf
    KindOf <- MCKindOf
    Post = {p1, p2}
    Worker = {w1, w2}
    NoEvent = NoEvent
    NoJob = NoJob
    MaxRetries = 1
    MaxExpiries = 1
    MaxFaults = 0
CHECK_DEADLOCK FALSE
INVARIANTS
    RetryRecovers
