\* Two requests with two messages of a new contact, or one of them twice.
SPECIFICATION FairSpec
CONSTANTS
    ann = ann
    hello = hello
    again = again
    click = click
    link = link
    Sender <- MCSender
    Event = {hello, again}
    SenderOf <- MCSenderOf
    KindOf <- MCKindOf
    Post = {p1, p2}
    Worker = {w1, w2}
    NoEvent = NoEvent
    NoJob = NoJob
    MaxRetries = 1
    MaxExpiries = 0
    MaxFaults = 1
CHECK_DEADLOCK FALSE
PROPERTIES
    EveryJobEnds
    NewcomerIsInInbox
