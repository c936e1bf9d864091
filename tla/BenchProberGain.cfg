\* One example; the last configuration may be the only one that is wrong.
CONSTANTS
    Dataset = {"ragtruth", "halueval"}
    Buckets <- TwoTypes
    Type <- Files
    Shuffled <- Shuffles
    Wanted = {1}
    Hallucinated <- Labels
    MaxClaims <- Lengths
    Concurrency = 2
    BaselineVerdicts = {"GROUNDED"}
    EntailmentVotes = {"GROUNDED", "UNSUPPORTED"}
    ProberVotes = {"NONE"}
    IndependentVotes = {"UNVERIFIABLE"}
    Draws <- Pairs
SPECIFICATION Spec
INVARIANT GainIsReal
