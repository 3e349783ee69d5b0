SPECIFICATION FairSeedSpec
CONSTANTS
    o1 = o1  o2 = o2
    c1 = c1  c2 = c2  c3 = c3
    Parts <- MCParts
    OrderIds = {o1, o2}
    Payloads <- MCPayloads
    InitialStock <- MCInitialStock
    Calls = {c1, c2, c3}
    MaxFaults = 1
    SEED_PARTS <- MCSeedParts
    MaxSeeds = 2
INVARIANTS ResetDrift NoStaleRow
PROPERTIES EveryCallAnswered
CHECK_DEADLOCK FALSE
