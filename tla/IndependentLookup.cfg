\* Two lookups at a time that ask the web the same, a chain whose second
\* provider has no key, one retry. The clock runs beyond the TTL of an entry
\* that was written after a slow call.
CONSTANTS
    l1 = l1
    l2 = l2
    Callers = {l1, l2}
    Searchers = {l1, l2}
    Chain = 3
    Usable = {1, 3}
    Retries = 1
    Queries = {claim}
    ClaimText = claim
    TavilyKey = TRUE
    Ttl = 1
    Latency = 1
    MaxTime = 3
SPECIFICATION FairSpec
INVARIANTS
    TypeOK
    ChainIsFollowed
    ResponseIsFinal
    ServedIsFresh
PROPERTIES
    LookupsEnd
