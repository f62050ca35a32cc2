CONSTANTS
    r1 = r1
    r2 = r2
    p1 = p1
    admin = admin
    Runs <- MCRuns
    Probers <- MCProbers
    Admin <- admin
    MaxDisturbances = 2
SPECIFICATION FairSpec
PROPERTIES
    ResumesAfterRestart
CHECK_DEADLOCK FALSE
