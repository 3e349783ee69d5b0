SPECIFICATION Spec
CONSTANTS
    r1 = r1
    r2 = r2
    r3 = r3
    r4 = r4
    r5 = r5
    k1 = k1
    k2 = k2
    Requests = {r1, r2, r3, r4, r5}
    Keys = {k1, k2}
    Key <- MCKey
    Connections = 3
    inventoryRpcDeadline = 2
    Margin = 5
    connectionTimeout = 3
SYMMETRY SameKey
INVARIANTS PoolMoves NeverExpires
CHECK_DEADLOCK FALSE
