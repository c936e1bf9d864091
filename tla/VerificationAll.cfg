\* Every claim, configuration and answer; up to three search results.
CONSTANT MaxSources = 3
SPECIFICATION Spec
INVARIANTS
    StaleIsCorroborated
    FragileIsEarned
    GroundedSurvived
    OutageCertifiesNothing
