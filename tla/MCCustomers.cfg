SPECIFICATION Spec
CONSTANTS
    Rows = {1, 2, 3, 4, 5}
    createdAt <- MCCreatedAt
    email <- MCEmail
    where = {"CONFIRMED", "CANCELLED"}
    idDescending = FALSE
    pageSize = 1
INVARIANTS OneCustomerPerEmail AnswersAreTrue
CHECK_DEADLOCK FALSE
