---------------------------- MODULE StockService -----------------------------
(***************************************************************************)
(* apps/inventory-grpc/src/stock/stock.service.ts: concurrent ReserveStock *)
(* and ReleaseStock calls, each an interactive READ COMMITTED transaction  *)
(* on Inventory's PostgreSQL.                                              *)
(*                                                                         *)
(* A call takes the advisory lock of its order id, reads the operation,    *)
(* locks the rows of its parts one by one, validates, writes and commits.  *)
(* Its writes stay private (staged) until the commit.  It may fail         *)
(* anywhere: rollback (connection lost, 10 s timeout, process death), or a *)
(* commit whose acknowledgement is lost.                                   *)
(*                                                                         *)
(* Locks are not variables: a call owns the advisory lock of its order     *)
(* while it is past LockOrder, and the rows whose values it has seen.      *)
(***************************************************************************)
EXTENDS Integers, FiniteSets, Functions, ErrorMapping

CONSTANTS
    Parts, OrderIds, Payloads, InitialStock,    \* see InventoryLedger
    Calls,          \* gRPC calls that may be in progress together
    MaxFaults       \* bound: rollbacks and lost acknowledgements in a behaviour

ASSUME CatalogueAssumption == Parts \subseteq Nat /\ IsFiniteSet(Parts)
ASSUME SeedAssumption == InitialStock \in [Parts -> Nat]
ASSUME CommandAssumption ==
    \A items \in Payloads :
        /\ DOMAIN items \subseteq Nat
        /\ DOMAIN items # {}
        /\ items \in [DOMAIN items -> Nat \ {0}]
ASSUME FaultAssumption == MaxFaults \in Nat

VARIABLES
    stock,      \* committed parts.stock_available
    ledger,     \* committed stock_operations and stock_operation_items, per order id
    pc,         \* per call: the next statement of its handler
    cmd,        \* per call: the parsed request
    found,      \* per call: the operation it read (existing, operation)
    seen,       \* per call: stock of the rows it holds FOR UPDATE, as it read them
    staged,     \* per call: its uncommitted values of stock_available
    reply,      \* per call: the answer sent
    faults      \* rollbacks and lost acknowledgements so far

vars == <<stock, ledger, pc, cmd, found, seen, staged, reply, faults>>

-----------------------------------------------------------------------------
(* Values *)

Nothing == [p \in {} |-> 0]

NoOperation == [status |-> "NONE", items |-> Nothing,
                reservedBefore |-> Nothing, releasedBefore |-> Nothing]

ReserveCommands == [op : {"reserve"}, order : OrderIds, items : Payloads]
ReleaseCommands == [op : {"release"}, order : OrderIds, items : {Nothing}]
Commands == ReserveCommands \cup ReleaseCommands
NoCommand == [op |-> "none", order |-> "none", items |-> Nothing]

NoReply == [status |-> "none", replayed |-> FALSE, before |-> Nothing]
Refusal(error) == [status |-> toGrpcError(error), replayed |-> FALSE, before |-> Nothing]

\* The stored evidence of an operation; stock_before - quantity is stock_after.
toReserveResult(operation, replayed) ==
    [status |-> "OK", replayed |-> replayed, before |-> operation.reservedBefore]

ReleaseResultOfReserve(operation, replayed) ==      \* mutant: the other evidence
    [status |-> "OK", replayed |-> replayed, before |-> operation.reservedBefore]
toReleaseResult(operation, replayed) ==
    [status |-> "OK", replayed |-> replayed, before |-> operation.releasedBefore]

Statuses == {"OK", "ALREADY_EXISTS", "FAILED_PRECONDITION", "NOT_FOUND", "INTERNAL"}

\* Values of some rows of the catalogue.
IsRows(f) == DOMAIN f \subseteq Parts /\ f \in [DOMAIN f -> Nat]

IsOperation(op) ==
    /\ op = [status |-> op.status, items |-> op.items,
             reservedBefore |-> op.reservedBefore, releasedBefore |-> op.releasedBefore]
    /\ op.status \in {"NONE", "RESERVED", "RELEASED"}
    /\ op.items \in Payloads \cup {Nothing}
    /\ IsRows(op.reservedBefore) /\ IsRows(op.releasedBefore)

IsReply(r) ==
    /\ r = [status |-> r.status, replayed |-> r.replayed, before |-> r.before]
    /\ r.status \in Statuses \cup {"none"}
    /\ r.replayed \in BOOLEAN
    /\ IsRows(r.before)

TypeOK ==
    /\ stock \in [Parts -> Nat]
    /\ DOMAIN ledger = OrderIds /\ \A o \in OrderIds : IsOperation(ledger[o])
    /\ pc \in [Calls -> {"idle", "lockOrder", "read", "lockParts", "write", "done"}]
    /\ cmd \in [Calls -> Commands \cup {NoCommand}]
    /\ DOMAIN found = Calls /\ \A c \in Calls : IsOperation(found[c])
    /\ DOMAIN seen = Calls /\ \A c \in Calls : IsRows(seen[c])
    /\ DOMAIN staged = Calls /\ \A c \in Calls : IsRows(staged[c])
    /\ DOMAIN reply = Calls /\ \A c \in Calls : IsReply(reply[c])
    /\ faults \in 0..MaxFaults

-----------------------------------------------------------------------------
(* Locks, as formulae *)

OwnsOrderLock(c) == pc[c] \in {"read", "lockParts", "write"}
OwnsRow(c, p) == p \in DOMAIN seen[c]

\* The items of the request (reserve) or of the operation read (release).
Lines(c) == IF cmd[c].op = "reserve" THEN cmd[c].items ELSE found[c].items

Rows(c) == DOMAIN Lines(c) \cap Parts
Unlocked(c) == Rows(c) \ DOMAIN seen[c]

\* ORDER BY id.
ReverseOnRelease(c) ==      \* mutant: two lock orders
    CHOOSE p \in Unlocked(c) : \A q \in Unlocked(c) :
        IF cmd[c].op = "release" THEN p >= q ELSE p <= q
NextRow(c) == CHOOSE p \in Unlocked(c) : \A q \in Unlocked(c) : p <= q

With(f, p, v) == [q \in DOMAIN f \cup {p} |-> IF q = p THEN v ELSE f[q]]

Init ==
    /\ stock = InitialStock
    /\ ledger = [o \in OrderIds |-> NoOperation]
    /\ pc = [c \in Calls |-> "idle"]
    /\ cmd = [c \in Calls |-> NoCommand]
    /\ found = [c \in Calls |-> NoOperation]
    /\ seen = [c \in Calls |-> Nothing]
    /\ staged = [c \in Calls |-> Nothing]
    /\ reply = [c \in Calls |-> NoReply]
    /\ faults = 0

LeakRowLocks(c, answer) ==      \* mutant: a refused call keeps its row locks
    /\ pc' = [pc EXCEPT ![c] = "done"]
    /\ seen' = [seen EXCEPT ![c] = IF answer.status = "OK" THEN Nothing ELSE @]
    /\ staged' = [staged EXCEPT ![c] = Nothing]
    /\ found' = [found EXCEPT ![c] = NoOperation]
    /\ reply' = [reply EXCEPT ![c] = answer]

\* End of a transaction: its locks and its private state are gone.
EndTransaction(c, answer) ==
    /\ pc' = [pc EXCEPT ![c] = "done"]
    /\ seen' = [seen EXCEPT ![c] = Nothing]
    /\ staged' = [staged EXCEPT ![c] = Nothing]
    /\ found' = [found EXCEPT ![c] = NoOperation]
    /\ reply' = [reply EXCEPT ![c] = answer]

-----------------------------------------------------------------------------
(* Both handlers *)

Start(c, command) ==
    /\ pc[c] = "idle"
    /\ pc' = [pc EXCEPT ![c] = "lockOrder"]
    /\ cmd' = [cmd EXCEPT ![c] = command]
    /\ UNCHANGED <<stock, ledger, found, seen, staged, reply, faults>>

NoOrderLock(c) ==       \* mutant: no advisory lock
    /\ pc[c] = "lockOrder"
    /\ pc' = [pc EXCEPT ![c] = "read"]
    /\ UNCHANGED <<stock, ledger, cmd, found, seen, staged, reply, faults>>

LockOrder(c) ==
    /\ pc[c] = "lockOrder"
    /\ \A d \in Calls \ {c} : OwnsOrderLock(d) => cmd[d].order # cmd[c].order
    /\ pc' = [pc EXCEPT ![c] = "read"]
    /\ UNCHANGED <<stock, ledger, cmd, found, seen, staged, reply, faults>>

ReadPart(c) ==          \* mutant: no FOR UPDATE
    /\ pc[c] = "lockParts"
    /\ Unlocked(c) # {}
    /\ LET p == NextRow(c) IN seen' = [seen EXCEPT ![c] = With(@, p, stock[p])]
    /\ UNCHANGED <<stock, ledger, pc, cmd, found, staged, reply, faults>>

\* SELECT ... ORDER BY id FOR UPDATE: waits for the row's holder, then reads
\* the value it committed.
LockPart(c) ==
    /\ pc[c] = "lockParts"
    /\ Unlocked(c) # {}
    /\ LET p == NextRow(c)
       IN  /\ \A d \in Calls \ {c} : ~OwnsRow(d, p)
           /\ seen' = [seen EXCEPT ![c] = With(@, p, stock[p])]
    /\ UNCHANGED <<stock, ledger, pc, cmd, found, staged, reply, faults>>

PartialWrites(c) ==     \* mutant: the updates are not in the transaction
    /\ pc[c] \in {"lockOrder", "read", "lockParts", "write"}
    /\ faults < MaxFaults
    /\ faults' = faults + 1
    /\ stock' = [p \in Parts |-> IF p \in DOMAIN staged[c] THEN staged[c][p] ELSE stock[p]]
    /\ EndTransaction(c, Refusal("PrismaError"))
    /\ UNCHANGED <<ledger, cmd>>

\* Rollback: connection lost, transaction expired or process dead, at any
\* statement; the caller gets INTERNAL, or no answer at all.
Rollback(c) ==
    /\ pc[c] \in {"lockOrder", "read", "lockParts", "write"}
    /\ faults < MaxFaults
    /\ faults' = faults + 1
    /\ EndTransaction(c, Refusal("PrismaError"))
    /\ UNCHANGED <<stock, ledger, cmd>>

-----------------------------------------------------------------------------
(* reserve *)

Existing(c) == ledger[cmd[c].order]

ReserveOnExisting(c) ==
    /\ pc[c] = "read"
    /\ cmd[c].op = "reserve"
    /\ Existing(c).status # "NONE"
    /\ EndTransaction(c,
           IF Existing(c).items # cmd[c].items THEN Refusal("OrderIdConflictError")
           ELSE IF Existing(c).status = "RELEASED" THEN Refusal("ReservationAlreadyReleasedError")
           ELSE toReserveResult(Existing(c), TRUE))
    /\ UNCHANGED <<stock, ledger, cmd, faults>>

ReserveOnNone(c) ==
    /\ pc[c] = "read"
    /\ cmd[c].op = "reserve"
    /\ Existing(c).status = "NONE"
    /\ pc' = [pc EXCEPT ![c] = "lockParts"]
    /\ UNCHANGED <<stock, ledger, cmd, found, seen, staged, reply, faults>>

MissingParts(c) == DOMAIN cmd[c].items \ Parts
NoShortage(c) == {}     \* mutant: the stock is not validated
Shortages(c) == {p \in DOMAIN seen[c] : seen[c][p] < cmd[c].items[p]}

ShortageFirst(c) ==     \* mutant: swapped order of the validations
    /\ pc[c] = "lockParts"
    /\ cmd[c].op = "reserve"
    /\ Unlocked(c) = {}
    /\ MissingParts(c) \cup Shortages(c) # {}
    /\ EndTransaction(c, Refusal(IF Shortages(c) # {} THEN "InsufficientStockError"
                                                      ELSE "PartsNotFoundError"))
    /\ UNCHANGED <<stock, ledger, cmd, faults>>

\* Every validation before the first write.
ReserveReject(c) ==
    /\ pc[c] = "lockParts"
    /\ cmd[c].op = "reserve"
    /\ Unlocked(c) = {}
    /\ MissingParts(c) \cup Shortages(c) # {}
    /\ EndTransaction(c, Refusal(IF MissingParts(c) # {} THEN "PartsNotFoundError"
                                                         ELSE "InsufficientStockError"))
    /\ UNCHANGED <<stock, ledger, cmd, faults>>

ReserveAccept(c) ==
    /\ pc[c] = "lockParts"
    /\ cmd[c].op = "reserve"
    /\ Unlocked(c) = {}
    /\ MissingParts(c) \cup Shortages(c) = {}
    /\ pc' = [pc EXCEPT ![c] = "write"]
    /\ UNCHANGED <<stock, ledger, cmd, found, seen, staged, reply, faults>>

\* The operation row a reserve creates, with the evidence of each item.
ReservedOperation(c) ==
    [status |-> "RESERVED", items |-> cmd[c].items,
     reservedBefore |-> seen[c], releasedBefore |-> Nothing]

-----------------------------------------------------------------------------
(* release *)

ReleaseAnswered(c) ==
    /\ pc[c] = "read"
    /\ cmd[c].op = "release"
    /\ Existing(c).status # "RESERVED"
    /\ EndTransaction(c, IF Existing(c).status = "NONE" THEN Refusal("ReservationNotFoundError")
                         ELSE toReleaseResult(Existing(c), TRUE))
    /\ UNCHANGED <<stock, ledger, cmd, faults>>

ReleaseOnReserved(c) ==
    /\ pc[c] = "read"
    /\ cmd[c].op = "release"
    /\ Existing(c).status = "RESERVED"
    /\ found' = [found EXCEPT ![c] = Existing(c)]
    /\ pc' = [pc EXCEPT ![c] = "lockParts"]
    /\ UNCHANGED <<stock, ledger, cmd, seen, staged, reply, faults>>

ReleaseAccept(c) ==
    /\ pc[c] = "lockParts"
    /\ cmd[c].op = "release"
    /\ Unlocked(c) = {}
    /\ pc' = [pc EXCEPT ![c] = "write"]
    /\ UNCHANGED <<stock, ledger, cmd, found, seen, staged, reply, faults>>

StatusForgotten(c) == [found[c] EXCEPT !.releasedBefore = seen[c]]      \* mutant
StaleEvidence(c) ==     \* mutant: the release repeats the reserve's evidence
    [found[c] EXCEPT !.status = "RELEASED", !.releasedBefore = found[c].reservedBefore]
ReleasedOperation(c) ==
    [found[c] EXCEPT !.status = "RELEASED", !.releasedBefore = seen[c]]

-----------------------------------------------------------------------------
(* Writes of both: one UPDATE per item, then the operation row and COMMIT. *)

NewValue(c, p) == IF cmd[c].op = "reserve" THEN seen[c][p] - Lines(c)[p]
                                           ELSE seen[c][p] + Lines(c)[p]

UpdatePart(c) ==
    /\ pc[c] = "write"
    /\ \E p \in Rows(c) \ DOMAIN staged[c] :
           staged' = [staged EXCEPT ![c] = With(@, p, NewValue(c, p))]
    /\ UNCHANGED <<stock, ledger, pc, cmd, found, seen, reply, faults>>

NewOperation(c) == IF cmd[c].op = "reserve" THEN ReservedOperation(c)
                                            ELSE ReleasedOperation(c)

\* What COMMIT publishes, in one step.
Publish(c) ==
    /\ pc[c] = "write"
    /\ DOMAIN staged[c] = Rows(c)
    /\ stock' = [p \in Parts |-> IF p \in DOMAIN staged[c] THEN staged[c][p] ELSE stock[p]]
    /\ ledger' = [ledger EXCEPT ![cmd[c].order] = NewOperation(c)]
    /\ UNCHANGED cmd

Commit(c) ==
    /\ Publish(c)
    /\ EndTransaction(c, IF cmd[c].op = "reserve" THEN toReserveResult(NewOperation(c), FALSE)
                                                  ELSE toReleaseResult(NewOperation(c), FALSE))
    /\ UNCHANGED faults

\* The commit happens but its acknowledgement does not reach the service.
CommitAckLost(c) ==
    /\ Publish(c)
    /\ faults < MaxFaults
    /\ faults' = faults + 1
    /\ EndTransaction(c, Refusal("PrismaError"))

Step(c) ==
    \/ LockOrder(c)
    \/ ReserveOnExisting(c) \/ ReserveOnNone(c) \/ ReserveReject(c) \/ ReserveAccept(c)
    \/ ReleaseAnswered(c) \/ ReleaseOnReserved(c) \/ ReleaseAccept(c)
    \/ LockPart(c) \/ UpdatePart(c) \/ Commit(c)

Next ==
    \E c \in Calls :
        \/ \E command \in Commands : Start(c, command)
        \/ Step(c)
        \/ Rollback(c)
        \/ CommitAckLost(c)

\* The event loop runs every call and Postgres grants a freed lock to its
\* waiters in turn: no call that is granted its lock again and again starves.
Fairness == \A c \in Calls : SF_vars(Step(c))

Spec == Init /\ [][Next]_vars
FairSpec == Spec /\ Fairness

-----------------------------------------------------------------------------
(* Properties *)

Reserved(p) == {o \in OrderIds : ledger[o].status = "RESERVED" /\ p \in DOMAIN ledger[o].items}
Moved(p) == {o \in OrderIds : ledger[o].status # "NONE" /\ p \in DOMAIN ledger[o].items}
Returned(p) == {o \in Moved(p) : ledger[o].status = "RELEASED"}

\* How many units of a part some orders that name it took.
Units(orders, p) == SumFunction([o \in orders |-> ledger[o].items[p]])

\* No unit is created or lost: the stock is what was seeded minus the live
\* reservations, whatever calls are half way (all or nothing, released once).
StockConserved ==
    \A p \in Parts : stock[p] + Units(Reserved(p), p) = InitialStock[p]

\* A row read FOR UPDATE still has the value that was read when it is used:
\* the values written are computed from no stale stock.
NoStaleRow == \A c \in Calls : \A p \in DOMAIN seen[c] : seen[c][p] = stock[p]

\* The operation a call read under the advisory lock is still the stored one.
NoStaleOperation ==
    \A c \in Calls : pc[c] \in {"lockParts", "write"} =>
        IF cmd[c].op = "reserve" THEN Existing(c).status = "NONE"
                                 ELSE Existing(c) = found[c] /\ found[c].status = "RESERVED"

\* The audit trail of a part is a chain: each movement starts at the stock the
\* previous one left, from the seed to the current stock.  (A value is as often
\* the start of a movement or the current stock as it is the end of one or the seed.)
EvidenceChains ==
    \A p \in Parts :
        LET starts(v) == Cardinality({o \in Moved(p) : ledger[o].reservedBefore[p] = v})
                       + Cardinality({o \in Returned(p) : ledger[o].releasedBefore[p] = v})
                       + (IF stock[p] = v THEN 1 ELSE 0)
            ends(v) == Cardinality({o \in Moved(p) :
                                      ledger[o].reservedBefore[p] - ledger[o].items[p] = v})
                     + Cardinality({o \in Returned(p) :
                                      ledger[o].releasedBefore[p] + ledger[o].items[p] = v})
                     + (IF InitialStock[p] = v THEN 1 ELSE 0)
        IN  \A v \in 0..InitialStock[p] : starts(v) = ends(v)

\* An OK answer, first or replayed, carries the evidence stored for its order;
\* at most one call per order and operation is told it made the change.
AnswersMatchLedger ==
    /\ \A c \in Calls : reply[c].status = "OK" =>
           reply[c].before = IF cmd[c].op = "reserve" THEN Existing(c).reservedBefore
                                                      ELSE Existing(c).releasedBefore
    /\ \A c, d \in Calls :
           /\ c # d
           /\ cmd[c].op = cmd[d].op /\ cmd[c].order = cmd[d].order
           /\ reply[c].status = "OK" /\ reply[d].status = "OK"
           => reply[c].replayed \/ reply[d].replayed

\* Row locks cannot deadlock: following "waits for the holder of its next row"
\* from a call never comes back to it.
WaitsFor(c) ==
    {d \in Calls \ {c} :
        \/ pc[c] = "lockOrder" /\ OwnsOrderLock(d) /\ cmd[d].order = cmd[c].order
        \/ pc[c] = "lockParts" /\ Unlocked(c) # {} /\ OwnsRow(d, NextRow(c))}

NoDeadlock ==
    \A blocked \in (SUBSET Calls) \ {{}} :
        \E c \in blocked : WaitsFor(c) \cap blocked = {}

\* Every definite answer is the one the abstract ledger gives in the state the
\* call is answered in: calls take effect one at a time, between call and answer.
Ledger == INSTANCE InventoryLedger WITH
              ledger <- [o \in OrderIds |-> [status |-> ledger[o].status,
                                             items  |-> ledger[o].items]]

Linearizable ==
    [][\A c \in Calls :
          reply'[c] # reply[c] /\ reply'[c].status # "INTERNAL" =>
              reply'[c].status = IF cmd[c].op = "reserve"
                                 THEN Ledger!ReserveStatus(cmd[c].order, cmd[c].items)
                                 ELSE Ledger!ReleaseStatus(cmd[c].order)]_vars

\* Stock and ledger change as the abstract ledger's do.
ImplementsLedger == Ledger!LedgerSpec

\* Every call that is started is answered.
EveryCallAnswered == \A c \in Calls : (pc[c] = "lockOrder") ~> (pc[c] = "done")

\* ERROR-MAPPING.md:57 expects an error when a reservation is already released.
ReleasingTwiceIsAnError ==
    [][\A c \in Calls :
          /\ pc[c] = "read" /\ cmd[c].op = "release"
          /\ Existing(c).status = "RELEASED"
          /\ pc'[c] = "done"
          => reply'[c].status # "OK"]_vars
=============================================================================
