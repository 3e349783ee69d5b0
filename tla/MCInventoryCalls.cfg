SPECIFICATION FairSpec
CONSTANTS
    c1 = c1
    c2 = c2
    Calls = {c1, c2}
    Method <- MCMethod
    MaxStarts = 1
INVARIANTS CleanShutdown
PROPERTIES ImplementsRemoteCall ShutdownEnds
CHECK_DEADLOCK FALSE
