----------------------------- MODULE ErrorMapping ----------------------------
(***************************************************************************)
(* How a failed Inventory call becomes a public answer: the gRPC status an *)
(* Inventory error is sent as (grpc-error.filter.ts) and the REST error    *)
(* Sales answers with, by operation (inventory-error.ts).                  *)
(***************************************************************************)
EXTENDS Integers

\* An HTTP answer: its status and its public error code.
Answer(http, code) == [http |-> http, code |-> code]

INTERNAL == Answer(500, "INTERNAL_ERROR")
VALIDATION == Answer(400, "VALIDATION_ERROR")
PART_NOT_FOUND == Answer(422, "PART_NOT_FOUND")
INSUFFICIENT_STOCK == Answer(409, "INSUFFICIENT_STOCK")
INVENTORY_UNAVAILABLE == Answer(503, "INVENTORY_UNAVAILABLE")
INVENTORY_TIMEOUT == Answer(504, "INVENTORY_TIMEOUT")

\* STATUS_BY_ERROR, and INTERNAL for what is not a domain error.
toGrpcError(error) ==
    CASE error = "InvalidArgumentError"             -> "INVALID_ARGUMENT"
      [] error \in {"PartNotFoundError", "PartsNotFoundError",
                    "ReservationNotFoundError"}     -> "NOT_FOUND"
      [] error \in {"InsufficientStockError",
                    "ReservationAlreadyReleasedError"} -> "FAILED_PRECONDITION"
      [] error = "OrderIdConflictError"             -> "ALREADY_EXISTS"
      [] OTHER                                      -> "INTERNAL"

\* Statuses with which a call may end although Inventory carried it out.
TransportStatuses == {"UNAVAILABLE", "DEADLINE_EXCEEDED", "INTERNAL", "UNKNOWN"}

SHARED(status) ==
    CASE status = "UNAVAILABLE"       -> INVENTORY_UNAVAILABLE
      [] status = "DEADLINE_EXCEEDED" -> INVENTORY_TIMEOUT
      [] OTHER                        -> INTERNAL       \* ALREADY_EXISTS and the unlisted ones

TimeoutIsShortage(operation, status) == \* mutant: an unknown outcome taken as a refusal
    IF operation = "reserve" /\ status \in {"FAILED_PRECONDITION", "DEADLINE_EXCEEDED"}
    THEN INSUFFICIENT_STOCK ELSE SHARED(status)

toInventoryApiError(operation, status) ==
    CASE operation \in {"reserve", "read"} /\ status = "INVALID_ARGUMENT" -> VALIDATION
      [] operation \in {"reserve", "read"} /\ status = "NOT_FOUND"        -> PART_NOT_FOUND
      [] operation = "reserve" /\ status = "FAILED_PRECONDITION"          -> INSUFFICIENT_STOCK
      [] OTHER                                                            -> SHARED(status)

\* create: the reservation may exist although the call failed.
ambiguousFailure(answer) == answer.http >= 500
=============================================================================
