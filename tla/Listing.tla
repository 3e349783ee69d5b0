------------------------------- MODULE Listing -------------------------------
(***************************************************************************)
(* GET /v1/orders (orders.service.ts, list) and GET /v1/customers          *)
(* (customers.service.ts, list): one page of a table, newest first, and    *)
(* the number of rows that match.  The two statements of a call run        *)
(* together, each on its own connection: they read two snapshots, in       *)
(* either order.  A client walks the pages while rows come and go.         *)
(***************************************************************************)
EXTENDS Integers, FiniteSets

CONSTANTS
    Rows,           \* ids of the rows there may ever be; numbers stand for the order of UUIDs
    createdAt,      \* [Rows -> Nat]; a row may become visible later than a newer one
    where,          \* the statuses the filter lets through
    idDescending,   \* the tie-break among rows with one createdAt
    pageSize

Statuses == {"CONFIRMED", "CANCELLED"}

ASSUME RowsAssumption == IsFiniteSet(Rows) /\ Rows \subseteq Nat /\ createdAt \in [Rows -> Nat]
ASSUME QueryAssumption ==
    /\ where \subseteq Statuses
    /\ idDescending \in BOOLEAN
    /\ pageSize \in 1..100

VARIABLES
    status,     \* [Rows -> "NONE" or the row's status]
    walk,       \* the client: "idle", "listing" or "finished"
    stopsAt,    \* how it knows that it has every page
    page,       \* the page it is asking for
    read,       \* which of the call's two statements have run
    total,
    items,
    seen,       \* rows it has been given
    known,      \* rows that matched when it started
    entered,    \* rows that have begun to match since
    left        \* and that have ceased to

tableVars == <<status, entered, left>>
clientVars == <<walk, stopsAt, page, read, total, items, seen, known>>
listingVars == <<tableVars, clientVars>>

Matching == {r \in Rows : status[r] \in where}

\* A row is in the table, or listed, once; a page has one total and one set of rows.
ListingTypeOK ==
    /\ status \in [Rows -> Statuses \cup {"NONE"}]
    /\ walk \in {"idle", "listing", "finished"}
    /\ stopsAt \in {"shortPage", "total"}
    /\ page \in Nat \ {0}
    /\ read \subseteq {"total", "items"}
    /\ total \in Nat
    /\ items \subseteq Rows /\ Cardinality(items) <= pageSize
    /\ seen \subseteq Rows
    /\ known \subseteq Rows
    /\ entered \in Nat /\ left \in Nat

ListingInit ==
    /\ status = [r \in Rows |-> "NONE"]
    /\ walk = "idle" /\ stopsAt \in {"shortPage", "total"}
    /\ page = 1 /\ read = {} /\ total = 0 /\ items = {}
    /\ seen = {} /\ known = {} /\ entered = 0 /\ left = 0

-----------------------------------------------------------------------------
(* The table *)

SetStatus(r, new) ==
    /\ status' = [status EXCEPT ![r] = new]
    /\ entered' = IF status[r] \notin where /\ new \in where THEN entered + 1 ELSE entered
    /\ left' = IF status[r] \in where /\ new \notin where THEN left + 1 ELSE left
    /\ UNCHANGED clientVars

Insert(r) == status[r] = "NONE" /\ SetStatus(r, "CONFIRMED")

Cancel(r) == status[r] = "CONFIRMED" /\ SetStatus(r, "CANCELLED")

-----------------------------------------------------------------------------
(* A call of list *)

TiesByChance(a, b) ==       \* mutant: no tie-break, so ties may be listed differently each time
    \/ createdAt[a] > createdAt[b]
    \/ createdAt[a] = createdAt[b] /\ IF page % 2 = 0 THEN a > b ELSE a < b

\* orderBy: a is listed before b.
Before(a, b) ==
    \/ createdAt[a] > createdAt[b]
    \/ createdAt[a] = createdAt[b] /\ IF idDescending THEN a > b ELSE a < b

Rank(r) == Cardinality({x \in Matching : Before(x, r)})

OffByOnePage(skip, take) ==         \* mutant: pages counted from 0
    {r \in Matching : skip + take <= Rank(r) /\ Rank(r) < skip + 2 * take}
InclusiveTake(skip, take) ==        \* mutant: one row too many
    {r \in Matching : skip <= Rank(r) /\ Rank(r) <= skip + take}
findMany(skip, take) == {r \in Matching : skip <= Rank(r) /\ Rank(r) < skip + take}

Count ==
    /\ walk = "listing" /\ "total" \notin read
    /\ total' = Cardinality(Matching)
    /\ read' = read \cup {"total"}
    /\ UNCHANGED <<tableVars, walk, stopsAt, page, items, seen, known>>

FindMany ==
    /\ walk = "listing" /\ "items" \notin read
    /\ items' = findMany((page - 1) * pageSize, pageSize)
    /\ read' = read \cup {"items"}
    /\ UNCHANGED <<tableVars, walk, stopsAt, page, total, seen, known>>

-----------------------------------------------------------------------------
(* The client *)

Start ==
    /\ walk = "idle"
    /\ walk' = "listing"
    /\ known' = Matching
    /\ entered' = 0 /\ left' = 0
    /\ UNCHANGED <<status, stopsAt, page, read, total, items, seen>>

LastPage ==
    IF stopsAt = "total" THEN page * pageSize >= total ELSE Cardinality(items) < pageSize

Receive ==
    /\ walk = "listing" /\ read = {"total", "items"}
    /\ seen' = seen \cup items
    /\ read' = {}
    /\ IF LastPage THEN walk' = "finished" /\ page' = page
                   ELSE walk' = walk /\ page' = page + 1
    /\ UNCHANGED <<tableVars, stopsAt, total, items, known>>

ListNext == Count \/ FindMany \/ Start \/ Receive

ListingNext == ListNext \/ \E r \in Rows : Insert(r) \/ Cancel(r)

ListingSpec == ListingInit /\ [][ListingNext]_listingVars

-----------------------------------------------------------------------------
(* Properties *)

\* customers.service.ts:84-86, "orden estable": a row that was there at the start,
\* and has not been given yet, is still ahead of the walk, whatever has been created
\* in between, as long as no row has dropped out.
NothingSkipped ==
    walk = "listing" /\ left = 0 =>
        \A r \in known \ seen :
            IF "items" \in read THEN r \in items \/ Rank(r) >= page * pageSize
                                ELSE Rank(r) >= (page - 1) * pageSize

Missed == (known \cap Matching) \ seen

\* What a finished walk has missed, of what matched at its start and still does, is at
\* most one row for each row that dropped out meanwhile; and one for each that came in
\* if the client trusts `total', which may be older than the page beside it.
MissesAtMostChanges ==
    walk = "finished" =>
        Cardinality(Missed) <= left + IF stopsAt = "total" THEN entered ELSE 0
=============================================================================
