SPECIFICATION Spec
CONSTANTS
    o1 = o1  o2 = o2
    c1 = c1  c2 = c2  c3 = c3  c4 = c4
    Parts <- MCParts
    OrderIds <- MCOrderIds
    Payloads <- MCPayloads
    InitialStock <- MCInitialStock
    Calls = {c1, c2, c3}
    MaxFaults = 0
SYMMETRY Symmetry
CHECK_DEADLOCK FALSE
PROPERTIES
    ReleasingTwiceIsAnError
