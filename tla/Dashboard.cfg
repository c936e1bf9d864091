\* Two flows of one page and one run; the server may crash.
CONSTANTS
    r1 = r1
    g1 = g1
    g2 = g2
    Runs = {r1}
    Reads = {g1, g2}
    MaxClaims = 2
    MaxProbes = 0
    Budget = 3
    MaxCallCost = 2
    EntailmentOutcomes <- OneEntailment
    ProberOutcomes <- OneProber
    IndependentOutcomes <- OneIndependent
    MaxFaults = 0
    MaxCrashes = 1
SYMMETRY Alike
SPECIFICATION PageSpec
INVARIANTS
    DetailIsWhole
    PollsMoveForward
