\* One run of up to three claims: every path through the claim loop.
CONSTANTS
    r1 = r1
    Runs = {r1}
    MaxClaims = 3
    MaxProbes = 2
    Budget = 3
    MaxCallCost = 2
    EntailmentOutcomes <- SomeEntailment
    ProberOutcomes <- SomeProber
    IndependentOutcomes <- SomeIndependent
    MaxFaults = 2
    MaxCrashes = 1
SPECIFICATION FairSpec
INVARIANTS
    TypeOK
    TerminalOnceAndLast
    VerifiedIsPersisted
    CompleteIsWhole
    OvershootBounded
    BudgetIsFinal
    RowsInOrder
PROPERTIES
    QuietAfterTerminal
    EveryRunEnds
    LifecycleSpec
