SPECIFICATION FairSpec
CONSTANTS
    k1 = k1  k2 = k2
    r1 = r1  r2 = r2  r3 = r3
    ana = ana  eva = eva
    Parts <- MCParts
    OrderIds = {k1}
    Payloads <- MCPayloads
    InitialStock <- MCInitialStock
    Requests = {r1, r2, r3}
    Bodies <- CustomerBodies
    KnownCustomers = {ana}
    TransportFailures = {"DEADLINE_EXCEEDED"}
    MaxFaults = 2
CHECK_DEADLOCK FALSE
INVARIANTS AnswersAreKept
PROPERTIES
    KeysSettle CancelsComplete
