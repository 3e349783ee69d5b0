----------------------------- MODULE StockRequest ----------------------------
(***************************************************************************)
(* apps/inventory-grpc/src/stock/stock-request.ts: what Inventory takes    *)
(* for a reservation, and the fingerprint by which it knows it again.      *)
(*                                                                         *)
(* A value sent where an id is expected is [form, name]: a UUID in lower   *)
(* or upper case, hexadecimal digits in the shape of a UUID of no version, *)
(* other text, a number or nothing.  Quantities are counted in halves, so  *)
(* that some are not whole.  Names are numbers, in the order of the ids    *)
(* they stand for.                                                         *)
(***************************************************************************)
EXTENDS Integers, Sequences, FiniteSets

CONSTANTS
    MAX_ITEMS_PER_ORDER,    \* 50 in the code
    MAX_QUANTITY            \* 999 in the code

ASSUME LimitsAssumption ==
    MAX_ITEMS_PER_ORDER \in Nat \ {0} /\ MAX_QUANTITY \in Nat \ {0}

Units(n) == 2 * n
Whole(quantity) == quantity % 2 = 0
MIN_QUANTITY == 1

\* The shape alone: any version will do.
isUuid(value) == value.form \in {"lower", "upper", "noVersion"}

\* Of a string.
toLowerCase(value) == IF value.form = "upper" THEN [value EXCEPT !.form = "lower"] ELSE value

\* Each item's part_id in lower case: what parsing returns.
Lowered(items) ==
    [i \in DOMAIN items |-> [items[i] EXCEPT !.partId = toLowerCase(@)]]

InvalidArgument == <<>>

\* The command, or InvalidArgument: no command is empty.
parseReserveRequest(items) ==
    IF /\ Len(items) \in 1..MAX_ITEMS_PER_ORDER
       /\ \A i \in DOMAIN items :
              /\ isUuid(items[i].partId)
              /\ Whole(items[i].quantity)
              /\ items[i].quantity \in Units(MIN_QUANTITY)..Units(MAX_QUANTITY)
              /\ \A j \in 1..(i - 1) :
                     toLowerCase(items[j].partId) # toLowerCase(items[i].partId)
    THEN Lowered(items)
    ELSE InvalidArgument

\* Array.sort keeps the order of what it does not tell apart.
Before(items, i) ==
    {j \in DOMAIN items :
        \/ items[j].partId.name < items[i].partId.name
        \/ items[j].partId.name = items[i].partId.name /\ j < i}
ByPart(items) ==
    [place \in DOMAIN items |->
        items[CHOOSE i \in DOMAIN items : Cardinality(Before(items, i)) = place - 1]]

\* sha256 has no collisions here: the fingerprint is what is hashed.
requestFingerprint(items) == ByPart(items)
=============================================================================
