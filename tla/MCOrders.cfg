SPECIFICATION Spec
CONSTANTS
    k1 = k1  k2 = k2
    r1 = r1  r2 = r2  r3 = r3
    ana = ana  eva = eva
    Parts <- MCParts
    OrderIds = {k1, k2}
    Payloads <- MCPayloads
    InitialStock <- MCInitialStock
    Requests = {r1, r2, r3}
    Bodies <- PartBodies
    KnownCustomers = {ana}
    TransportFailures = {"DEADLINE_EXCEEDED"}
    MaxFaults = 3
SYMMETRY Symmetry
CHECK_DEADLOCK FALSE
INVARIANTS
    TypeOK OrderFollowsKey CancelledIsReleased ConfirmedIsReserved NoOrphanReservation
    AnswersAreKept
PROPERTIES
    KeyMovesForward
