\* Two requests with any two of four events of a new contact, or one of them twice, two
\* worker slots, two crashes or errors, every interleaving with the users of the inbox.
SPECIFICATION Spec
CONSTANTS
    ann = ann
    hello = hello
    again = again
    click = click
    link = link
    Sender <- MCSender
    Event = {hello, again, click, link}
    SenderOf <- MCSenderOf
    KindOf <- MCKindOf
    Post = {p1, p2}
    Worker = {w1, w2}
    NoEvent = NoEvent
    NoJob = NoJob
    MaxRetries = 2
    MaxExpiries = 1
    MaxFaults = 2
CHECK_DEADLOCK FALSE
SYMMETRY Symmetry
INVARIANTS
    AtMostOnce
    UnreadAccounted
