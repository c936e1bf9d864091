\* One or three of four RAGTruth examples, one or both of HaluEval, behind
\* a semaphore of two. The baseline always objects; entailment objects or
\* gives no vote, so that each other configuration may object as well, and
\* may instead abstain (without the prober) or agree (with it).
CONSTANTS
    Dataset = {"ragtruth", "halueval"}
    Buckets <- TwoTypes
    Type <- Files
    Shuffled <- Shuffles
    Wanted = {1, 3}
    Hallucinated <- Labels
    MaxClaims <- Lengths
    Concurrency = 2
    BaselineVerdicts = {"UNSUPPORTED"}
    EntailmentVotes = {"UNSUPPORTED", "NONE"}
    ProberVotes = {"GROUNDED"}
    IndependentVotes = {"UNVERIFIABLE"}
    Draws <- NoDraws
SPECIFICATION FairSpec
INVARIANTS
    TypeOK
    SampleIsSpread
    ReportIsPaired
    UnitsAreComparable
    CasesAreErrors
PROPERTIES
    BenchEnds
