\* Two runs at once: whose probes does a run save?
CONSTANTS
    r1 = r1
    r2 = r2
    Runs = {r1, r2}
    MaxClaims = 1
    MaxProbes = 1
    Budget = 3
    MaxCallCost = 2
    EntailmentOutcomes <- OneEntailment
    ProberOutcomes <- TwoProber
    IndependentOutcomes <- OneIndependent
    MaxFaults = 0
    MaxCrashes = 0
SPECIFICATION Spec
INVARIANT OwnProbes
