\* One question asked on the page.
CONSTANTS
    r1 = r1
    g1 = g1
    Runs = {r1}
    Reads = {g1}
    MaxClaims = 1
    MaxProbes = 0
    Budget = 3
    MaxCallCost = 2
    EntailmentOutcomes <- OneEntailment
    ProberOutcomes <- OneProber
    IndependentOutcomes <- OneIndependent
    MaxFaults = 0
    MaxCrashes = 0
SPECIFICATION PageSpec
INVARIANT PollFindsRun
