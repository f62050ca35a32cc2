CONSTANTS
    r1 = r1
    r2 = r2
    p1 = p1
    admin = admin
    Runs <- MCRuns
    Probers <- MCProbers
    Admin <- admin
    MaxDisturbances = 2
SPECIFICATION FairSpec
INVARIANTS
    TypeOK
    SinglePipeline
    StateImpliesParts
    LogTailTellsState
    PasswordUnlessRetried
    ReadyIsRemembered
PROPERTIES
    ForwardOnly
    PipelineConcludes
CHECK_DEADLOCK FALSE
