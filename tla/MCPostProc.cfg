SPECIFICATION FairSpec
CONSTANTS
    Pictures <- TwoPictures
    Modes <- Ways
INVARIANTS
    PipelineExact
PROPERTIES
    LastMeansAll
    Progress
CHECK_DEADLOCK FALSE
