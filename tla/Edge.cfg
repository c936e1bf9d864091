\* Two callers behind two proxies; tiers with limits of two and one; a window
\* that ends within the time that is modelled.
CONSTANTS
    Slots = {c1}
    Callers = {a1, a2}
    Proxies <- TwoProxies
    Hops = 2
    Limit <- SmallLimits
    Window = 1
    ApiKey = TRUE
    MaxBytes = 1
    MaxBudget = 1
    MaxTime = 3
    MaxRequests = 3
SPECIFICATION Spec
INVARIANTS
    RateIsExact
    HandledPassedAll
