SPECIFICATION Spec
CONSTANTS
    MAX_ITEMS_PER_ORDER = 2
    MAX_QUANTITY = 2
    Environments <- MCEnvironments
    ApiKeys <- MCApiKeys
    Ids <- MCIds
    Bodies <- MCBodies
INVARIANTS MalformedIsRefused
CHECK_DEADLOCK FALSE
