\* Three clients for two slots of a run, more events than the buffer has
\* places, and a second run whose events evict the history of the first.
CONSTANTS
    r1 = r1
    r2 = r2
    c1 = c1
    c2 = c2
    c3 = c3
    Runs = {r1, r2}
    Readers = {c1, c2, c3}
    Watched <- AllWatchFirst
    HistoryLimit = 2
    MaxSubscribers = 2
    MaxEvents = 3
SPECIFICATION FairSpec
INVARIANTS
    TypeOK
    StreamIsTail
    EndsAtTerminal
    SlotsAreHeld
PROPERTIES
    StreamsEnd
