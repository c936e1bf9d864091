\* Two host threads, a second init() while the first client is busy, more
\* observations than the queue has places. The host may stop at any time.
CONSTANTS
    h1 = h1
    h2 = h2
    Hosts = {h1, h2}
    QueueSize = 2
    MaxInits = 2
    MaxObservations = 3
SPECIFICATION FairSpec
INVARIANTS
    TypeOK
    AtMostOneRun
    KeptInOrder
    DropsAreCounted
    OldestGoFirst
PROPERTIES
    EachIsAttempted
CHECK_DEADLOCK FALSE
