\* Tested: recv() returns Err after the sender is dropped.
SPECIFICATION FairSpec
CONSTANTS
    s1 = s1
    v1 = v1
    v2 = v2
    Senders = {s1}
    Values = {v1, v2}
    MaxSends = 3
    Consumer = "task"
PROPERTIES
    PendingRecvEnds
