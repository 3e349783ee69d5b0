SPECIFICATION ListingSpec
CONSTANTS
    Rows = {1, 2, 3, 4}
    createdAt <- MCCreatedAt
    where = {"CONFIRMED"}
    idDescending = TRUE
    pageSize = 1
INVARIANTS ListingTypeOK NothingSkipped MissesAtMostChanges
CHECK_DEADLOCK FALSE
