--------------------------- MODULE InventoryLedger ---------------------------
(***************************************************************************)
(* What the Inventory service promises to its callers: a stock per part    *)
(* and a ledger with at most one reservation per order id.  Reserving      *)
(* takes every item or none, releasing gives back once what was taken, and *)
(* both happen in one indivisible step.  StockService is shown to          *)
(* implement this module; OrdersService uses it as its Inventory.          *)
(***************************************************************************)
EXTENDS Integers, FiniteSets

CONSTANTS
    Parts,          \* ids of the catalogue's parts; UUIDs are compared by Postgres, so numbers
    OrderIds,       \* order ids the callers use
    Payloads,       \* item lists: functions from part ids to quantities
    InitialStock    \* stock per part after seeding

ASSUME PartsAssumption == Parts \subseteq Nat
ASSUME StockAssumption == InitialStock \in [Parts -> Nat]
\* parseReserveRequest: at least one item, each part once, quantities of at least 1.
ASSUME PayloadAssumption ==
    \A items \in Payloads :
        /\ DOMAIN items \subseteq Nat
        /\ DOMAIN items # {}
        /\ items \in [DOMAIN items -> Nat \ {0}]

VARIABLES
    stock,          \* parts.stock_available
    ledger          \* stock_operations with their items

ledgerVars == <<stock, ledger>>

NoItems == [p \in {} |-> 0]
NoOperation == [status |-> "NONE", items |-> NoItems]

LedgerTypeOK ==
    /\ stock \in [Parts -> Nat]
    /\ ledger \in [OrderIds -> [status : {"NONE", "RESERVED", "RELEASED"},
                                items  : Payloads \cup {NoItems}]]

LedgerInit ==
    /\ stock = InitialStock
    /\ ledger = [o \in OrderIds |-> NoOperation]

-----------------------------------------------------------------------------
(* The gRPC status a caller is given, in the order the checks are made. *)

Missing(items) == DOMAIN items \ Parts

NeverShort(items) == {}     \* mutant: the stock is not validated
Short(items) == {p \in DOMAIN items \cap Parts : stock[p] < items[p]}

ReserveStatus(o, items) ==
    CASE /\ ledger[o].status # "NONE"
         /\ ledger[o].items # items          -> "ALREADY_EXISTS"
      [] /\ ledger[o].status = "RELEASED"
         /\ ledger[o].items = items          -> "FAILED_PRECONDITION"
      [] /\ ledger[o].status = "RESERVED"
         /\ ledger[o].items = items          -> "OK"
      [] /\ ledger[o].status = "NONE"
         /\ Missing(items) # {}              -> "NOT_FOUND"
      [] /\ ledger[o].status = "NONE"
         /\ Missing(items) = {}
         /\ Short(items) # {}                -> "FAILED_PRECONDITION"
      [] OTHER                               -> "OK"

ReleaseOnlyOnce(o) ==       \* mutant: a repeated release is an error
    CASE ledger[o].status = "NONE"     -> "NOT_FOUND"
      [] ledger[o].status = "RELEASED" -> "FAILED_PRECONDITION"
      [] OTHER                         -> "OK"

ReleaseStatus(o) == IF ledger[o].status = "NONE" THEN "NOT_FOUND" ELSE "OK"

-----------------------------------------------------------------------------
(* The two mutations; a call that is answered otherwise changes nothing. *)

Reserve(o, items) ==
    /\ ledger[o].status = "NONE"
    /\ Missing(items) = {}
    /\ Short(items) = {}
    /\ stock' = [p \in Parts |-> IF p \in DOMAIN items THEN stock[p] - items[p]
                                                       ELSE stock[p]]
    /\ ledger' = [ledger EXCEPT ![o] = [status |-> "RESERVED", items |-> items]]

Release(o) ==
    /\ ledger[o].status = "RESERVED"
    /\ stock' = [p \in Parts |-> IF p \in DOMAIN ledger[o].items
                                    THEN stock[p] + ledger[o].items[p]
                                    ELSE stock[p]]
    /\ ledger' = [ledger EXCEPT ![o].status = "RELEASED"]

\* A call as its sender sees it: what it does and the status it is answered with.
ReserveCall(o, items, status) ==
    /\ status = ReserveStatus(o, items)
    /\ IF status = "OK" /\ ledger[o].status = "NONE" THEN Reserve(o, items)
                                                     ELSE UNCHANGED ledgerVars

ReleaseCall(o, status) ==
    /\ status = ReleaseStatus(o)
    /\ IF ledger[o].status = "RESERVED" THEN Release(o) ELSE UNCHANGED ledgerVars

LedgerNext ==
    \E o \in OrderIds :
        \/ \E items \in Payloads : Reserve(o, items)
        \/ Release(o)

LedgerSpec == LedgerInit /\ [][LedgerNext]_ledgerVars
=============================================================================
