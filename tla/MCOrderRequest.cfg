SPECIFICATION Spec
CONSTANTS
    MAX_ITEMS_PER_ORDER = 2
    MAX_QUANTITY = 2
    Environments <- MCEnvironments
    ApiKeys <- MCApiKeys
    Ids <- MCIds
    Bodies <- MCBodies
INVARIANTS InventoryAgrees SameKeySameOrder ReservedIsOrdered ReaderNeverWrites
CHECK_DEADLOCK FALSE
