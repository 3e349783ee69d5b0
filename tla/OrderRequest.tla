----------------------------- MODULE OrderRequest ----------------------------
(***************************************************************************)
(* What happens to a request before OrdersService works on it, from the    *)
(* environment Sales starts with (config/app-config.ts) through            *)
(* ApiKeyGuard, ValidationPipe with OrderCreateDto, the Idempotency-Key    *)
(* and its hash, to the ReserveStock message and what Inventory makes of   *)
(* it (StockRequest).  One Idempotency-Key, any number of requests; each   *)
(* is one step, because all of this but the row of the key is decided      *)
(* without waiting (how requests on one key interleave: OrdersService).    *)
(***************************************************************************)
EXTENDS StockRequest, ErrorMapping

CONSTANTS
    Environments,       \* [reader, operator]: API_KEY_READER and API_KEY_OPERATOR
    ApiKeys,            \* values of X-API-Key
    Ids, Bodies         \* what clients send as an id and as a body

Values == [form : {"lower", "upper", "noVersion", "text", "number", "missing"}, name : Int]
Items == Seq([partId : Values, quantity : Int])

ASSUME BodiesAssumption ==
    \A body \in Bodies : body.customerId \in Values /\ body.items \in Items

VARIABLES
    env,
    proc,               \* "starting", "up" or "exited"
    row,                \* request_hash of the key's row, or NoRow
    reserved,           \* Inventory's fingerprint of the order, or NoRow
    ordered,            \* what the client that claimed the key ordered (history)
    last                \* the last request and what became of it (history)

vars == <<env, proc, row, reserved, ordered, last>>

NoRow == <<>>
NoOrder == <<>>

\* `order` compares it with what was ordered; `rpc` is Inventory's status.
Outcome(apiKey, route, order, answer, rpc) ==
    [apiKey |-> apiKey, route |-> route, order |-> order, answer |-> answer, rpc |-> rpc]

OK == Answer(200, "OK")
UNAUTHORIZED == Answer(401, "UNAUTHORIZED")
FORBIDDEN == Answer(403, "FORBIDDEN")
CUSTOMER_NOT_FOUND == Answer(404, "CUSTOMER_NOT_FOUND")
IDEMPOTENCY_KEY_CONFLICT == Answer(409, "IDEMPOTENCY_KEY_CONFLICT")

Init ==
    /\ env \in Environments
    /\ proc = "starting"
    /\ row = NoRow
    /\ reserved = NoRow
    /\ ordered = NoOrder
    /\ last = Outcome("", "none", "none", OK, "none")

-----------------------------------------------------------------------------
(* Start-up.  A value of the environment is [text, padded]. *)

trim(value) == value.text
required(value) == trim(value) # ""

KeysDifferAsGiven(e) == e.reader # e.operator       \* mutant: compared before trim
KeysDiffer(e) == trim(e.reader) # trim(e.operator)

loadSalesConfig(e) == required(e.reader) /\ required(e.operator) /\ KeysDiffer(e)

bootstrap ==
    /\ proc = "starting"
    /\ proc' = IF loadSalesConfig(env) THEN "up" ELSE "exited"
    /\ UNCHANGED <<env, row, reserved, ordered, last>>

-----------------------------------------------------------------------------
(* The guard and the pipes *)

\* Routes: the public one, two that read and two that write.
Public(route) == route = "health"
Method(route) == IF route \in {"health", "list", "get"} THEN "GET" ELSE "POST"

role(apiKey) ==
    IF apiKey = trim(env.operator) THEN "operator"
    ELSE IF apiKey = trim(env.reader) THEN "reader" ELSE "none"

allowedRoles(route) ==
    IF Method(route) = "GET" THEN {"reader", "operator"} ELSE {"operator"}

canActivate(apiKey, route) ==
    IF Public(route) THEN OK
    ELSE IF role(apiKey) = "none" THEN UNAUTHORIZED
    ELSE IF role(apiKey) \notin allowedRoles(route) THEN FORBIDDEN
    ELSE OK

\* Stricter than Inventory's isUuid: the version is checked.
IsUUID(value) == value.form \in {"lower", "upper"}

\* ArrayUnique's identifier: toLowerCase is no method of a number.
identifier(item) == toLowerCase(item.partId)
IdentifierThrows(items) == \E i \in DOMAIN items : items[i].partId.form = "number"
ArrayUnique(items) ==
    \A i, j \in DOMAIN items : identifier(items[i]) = identifier(items[j]) => i = j

\* The limits are literals of the DTO (50 and 999), equal to those in Inventory's
\* stock-request.ts and in no way tied to them.
OneMoreItem == MAX_ITEMS_PER_ORDER + 1      \* mutant: Sales allows more than Inventory
ArrayMaxSize == MAX_ITEMS_PER_ORDER
MaxQuantity == MAX_QUANTITY

AnyQuantity(quantity) == quantity \in Units(1)..Units(MaxQuantity)    \* mutant: no IsInt
ItemQuantity(quantity) == Whole(quantity) /\ quantity \in Units(1)..Units(MaxQuantity)

OrderCreateDto(body) ==
    /\ IsUUID(body.customerId)
    /\ Len(body.items) \in 1..ArrayMaxSize
    /\ ArrayUnique(body.items)
    /\ \A i \in DOMAIN body.items :
           IsUUID(body.items[i].partId) /\ ItemQuantity(body.items[i].quantity)

\* ApiExceptionFilter: an ApiError is its own answer, an HttpException of a pipe
\* has a generic one, and any other error is INTERNAL.
catch(exception) ==
    CASE exception = "BadRequestException" -> VALIDATION
      [] exception = "TypeError"           -> INTERNAL

ValidationPipe(body) ==
    IF IdentifierThrows(body.items) THEN catch("TypeError")
    ELSE IF OrderCreateDto(body) THEN OK ELSE VALIDATION

ParseUUIDPipe(id) == IF IsUUID(id) THEN OK ELSE catch("BadRequestException")

-----------------------------------------------------------------------------
(* create, up to the reservation *)

normalizeItems(items) == ByPart(Lowered(items))

CaseCounts(body) ==         \* mutant: the customer's id is hashed as typed
    <<body.customerId, normalizeItems(body.items)>>
hashRequest(body) == <<toLowerCase(body.customerId), normalizeItems(body.items)>>

\* int32 on the wire: the fraction is gone.
Encode(items) == [i \in DOMAIN items |-> [items[i] EXCEPT !.quantity = Units(@ \div 2)]]

\* ReserveStock: its status, given what the order has reserved before.  A repeated
\* reservation is refused when it has been released since (OrdersService).
ReserveStatus(items) ==
    LET command == parseReserveRequest(items) IN
    IF command = InvalidArgument THEN {"INVALID_ARGUMENT"}
    ELSE IF reserved = NoRow THEN {"OK", "NOT_FOUND", "FAILED_PRECONDITION"}
    ELSE IF reserved = requestFingerprint(command) THEN {"OK", "FAILED_PRECONDITION"}
    ELSE {"ALREADY_EXISTS"}

\* What an order is, whatever its spelling: the reference for `same'.
ItemsOrdered(items) ==
    [name \in {items[i].partId.name : i \in DOMAIN items} |->
        {items[i].quantity : i \in {k \in DOMAIN items : items[k].partId.name = name}}]
Ordered(body) == <<body.customerId.name, ItemsOrdered(body.items)>>

Malformed(body) ==
    \/ body.customerId.form \notin {"lower", "upper"}
    \/ Len(body.items) \notin 1..MAX_ITEMS_PER_ORDER
    \/ \E i \in DOMAIN body.items :
           \/ body.items[i].partId.form \notin {"lower", "upper"}
           \/ body.items[i].quantity \notin {Units(n) : n \in 1..MAX_QUANTITY}
           \/ \E j \in DOMAIN body.items \ {i} :
                  body.items[i].partId.name = body.items[j].partId.name

Judge(body) ==
    CASE Malformed(body)                    -> "malformed"
      [] ordered \in {NoOrder, Ordered(body)} /\ ~Malformed(body) -> "same"
      [] OTHER                              -> "different"

-----------------------------------------------------------------------------
(* Requests *)

Answered(apiKey, route, order, answer) ==
    /\ proc = "up"
    /\ last' = Outcome(apiKey, route, order, answer, "none")
    /\ UNCHANGED <<env, proc, row, reserved, ordered>>

Refused(apiKey, route) ==
    /\ canActivate(apiKey, route) # OK
    /\ Answered(apiKey, route, "none", canActivate(apiKey, route))

\* health and list; get and cancel of one order.
Read(apiKey, route) == canActivate(apiKey, route) = OK /\ Answered(apiKey, route, "none", OK)
ById(apiKey, route, id) ==
    canActivate(apiKey, route) = OK /\ Answered(apiKey, route, "none", ParseUUIDPipe(id))

\* The body is refused by the pipe, or the Idempotency-Key by create.
CreateRefused(apiKey, body) ==
    /\ canActivate(apiKey, "create") = OK
    /\ ValidationPipe(body) # OK
    /\ Answered(apiKey, "create", Judge(body), ValidationPipe(body))
KeyRefused(apiKey, body) ==
    /\ canActivate(apiKey, "create") = OK
    /\ ValidationPipe(body) = OK
    /\ Answered(apiKey, "create", "malformed", VALIDATION)

\* The claim: an INSERT that leaves a row that is there alone.
Claim(body) ==
    /\ row' = IF row = NoRow THEN hashRequest(body) ELSE row
    /\ ordered' = IF row = NoRow THEN Ordered(body) ELSE ordered

\* The key is new or its first request has no outcome yet: the items go to Inventory.
Reserve(apiKey, body) ==
    /\ Claim(body)
    /\ row' = hashRequest(body)
    /\ LET items == Encode(normalizeItems(body.items)) IN
       \E status \in ReserveStatus(items) :
           /\ reserved' = IF status = "OK" THEN requestFingerprint(parseReserveRequest(items))
                          ELSE reserved
           /\ last' = Outcome(apiKey, "create", Judge(body),
                          IF status = "OK" THEN OK ELSE toInventoryApiError("reserve", status),
                          status)

Conflict(apiKey, body) ==
    /\ Claim(body)
    /\ row' # hashRequest(body)
    /\ last' = Outcome(apiKey, "create", Judge(body), IDEMPOTENCY_KEY_CONFLICT, "none")
    /\ UNCHANGED reserved

\* A key that is settled gives its stored answer, and an unknown customer 404
\* (OrdersService).
WithoutCall(apiKey, body) ==
    /\ Claim(body)
    /\ row' = hashRequest(body)
    /\ \E answer \in {OK, CUSTOMER_NOT_FOUND, PART_NOT_FOUND, INSUFFICIENT_STOCK} :
           last' = Outcome(apiKey, "create", Judge(body), answer, "none")
    /\ UNCHANGED reserved

create(apiKey, body) ==
    /\ proc = "up"
    /\ canActivate(apiKey, "create") = OK
    /\ ValidationPipe(body) = OK
    /\ Conflict(apiKey, body) \/ WithoutCall(apiKey, body) \/ Reserve(apiKey, body)
    /\ UNCHANGED <<env, proc>>

Next ==
    \/ bootstrap
    \/ \E apiKey \in ApiKeys :
           \/ \E route \in {"list", "get", "create", "cancel"} : Refused(apiKey, route)
           \/ \E route \in {"health", "list"} : Read(apiKey, route)
           \/ \E route \in {"get", "cancel"}, id \in Ids : ById(apiKey, route, id)
           \/ \E body \in Bodies :
                  CreateRefused(apiKey, body) \/ KeyRefused(apiKey, body) \/ create(apiKey, body)

Spec == Init /\ [][Next]_vars

-----------------------------------------------------------------------------
(* Properties *)

\* Sales checks before it claims a key what Inventory checks again, in code of its
\* own: nothing it lets through is malformed or another payload to Inventory
\* (order.dto.ts:16-37, orders.service.ts:24-33, stock-request.ts:31-74).
InventoryAgrees == last.rpc \notin {"INVALID_ARGUMENT", "ALREADY_EXISTS"}

\* An Idempotency-Key stands for one order: 409 for a different one, and only for
\* that, however the same order is spelled (orders.service.ts:24-33, 222-224).
SameKeySameOrder ==
    last.answer = IDEMPOTENCY_KEY_CONFLICT <=> last.order = "different"

\* And what Inventory holds for it is that order (stock-request.ts:42-55).
ReservedIsOrdered == reserved # NoRow => ItemsOrdered(reserved) = ordered[2]

\* Who presents the reader's key never gets a write past the guard, whatever
\* environment the process could start with (app-config.ts:52-57, api-key.guard.ts:38-49).
ReaderNeverWrites ==
    proc = "up" /\ last.apiKey = trim(env.reader) /\ Method(last.route) = "POST" /\ last.route # "none"
        => last.answer = FORBIDDEN

\* docs/architecture/ERROR-MAPPING.md:20: "solicitud mal formada o inválida | 400 |
\* `VALIDATION_ERROR`".  It does not hold: a part id that is a number is answered
\* 500, because ArrayUnique's identifier throws (order.dto.ts:33).
MalformedIsRefused == last.order = "malformed" => last.answer = VALIDATION
=============================================================================
