------------------------ MODULE StockService_proofs -------------------------
(***************************************************************************)
(* For every catalogue, payload, number of calls and of failures: the      *)
(* state of StockService is well typed, no row or operation read under a   *)
(* lock is stale when it is used, and the service implements the atomic    *)
(* InventoryLedger.  Its callers are given that ledger's answers, with the *)
(* evidence stored for their order, and no set of calls waits for itself.  *)
(* All follow from one inductive invariant, IInv.                          *)
(***************************************************************************)
EXTENDS StockService, FiniteSetTheorems, WellFoundedInduction, TLAPS

(* The inductive invariant *)

OneOwnerPerOrder ==
    \A c, d \in Calls :
        c # d /\ OwnsOrderLock(c) /\ OwnsOrderLock(d) => cmd[c].order # cmd[d].order

OneOwnerPerRow ==
    \A c, d \in Calls : c # d => DOMAIN seen[c] \cap DOMAIN seen[d] = {}

\* What a transaction holds at each of its statements.
Locked(c) ==
    /\ pc[c] # "idle" => cmd[c] \in Commands
    /\ pc[c] \notin {"lockParts", "write"} => DOMAIN seen[c] = {}
    /\ DOMAIN seen[c] \subseteq Rows(c)
Validated(c) ==
    pc[c] = "write" =>
        /\ DOMAIN seen[c] = Rows(c)
        /\ cmd[c].op = "reserve" => /\ MissingParts(c) = {}
                                    /\ \A p \in DOMAIN seen[c] : seen[c][p] >= cmd[c].items[p]
Staged(c) ==
    /\ pc[c] # "write" => DOMAIN staged[c] = {}
    /\ DOMAIN staged[c] \subseteq DOMAIN seen[c]
    /\ \A p \in DOMAIN staged[c] : staged[c][p] = NewValue(c, p)
Transactions == \A c \in Calls : Locked(c) /\ Validated(c) /\ Staged(c)

IInv ==
    /\ TypeOK
    /\ OneOwnerPerOrder /\ OneOwnerPerRow /\ Transactions
    /\ NoStaleRow /\ NoStaleOperation

-----------------------------------------------------------------------------
(* Rows and values *)

\* A set of part ids that is not empty has a least element.
LEMMA LeastRow ==
    ASSUME NEW R \in SUBSET Nat, R # {}
    PROVE  \E p \in R : \A q \in R : p <= q
<1> DEFINE Less == OpToRel(<, Nat)
<1>1. IsWellFoundedOn(Less, Nat)
    BY NatLessThanWellFounded
<1>2. \A x, y \in Nat : x < y => <<x, y>> \in Less
    BY DEF OpToRel
<1> HIDE DEF Less
<1>3. PICK p \in R : \A q \in R : ~(<<q, p>> \in Less)
    BY <1>1, WFMin
<1>4. ASSUME NEW q \in R PROVE p <= q
    <2>1. p \in Nat /\ q \in Nat
        OBVIOUS
    <2>2. ~(q < p)
        BY <2>1, <1>2, <1>3
    <2> QED BY <2>1, <2>2
<1> QED BY <1>4

\* The row to lock next is the first part that is not locked yet.
LEMMA NextRowIsUnlocked ==
    ASSUME NEW c \in Calls, Unlocked(c) # {}
    PROVE  /\ NextRow(c) \in Unlocked(c) /\ NextRow(c) \in Parts
           /\ \A q \in Unlocked(c) : NextRow(c) <= q
<1>1. Unlocked(c) \subseteq Parts /\ Unlocked(c) \in SUBSET Nat
    BY CatalogueAssumption DEF Unlocked, Rows
<1>2. \E p \in Unlocked(c) : \A q \in Unlocked(c) : p <= q
    BY <1>1, LeastRow
<1> QED BY <1>1, <1>2 DEF NextRow

\* Adding the value of one row.
LEMMA WithRow ==
    ASSUME NEW f, IsRows(f), NEW p \in Parts, NEW v \in Nat
    PROVE  /\ IsRows(With(f, p, v))
           /\ DOMAIN With(f, p, v) = DOMAIN f \cup {p}
           /\ With(f, p, v)[p] = v
           /\ \A q \in DOMAIN f : q # p => With(f, p, v)[q] = f[q]
BY DEF IsRows, With

LEMMA NothingIsRows == IsRows(Nothing) /\ DOMAIN Nothing = {}
BY DEF IsRows, Nothing

LEMMA NoOperationIsOperation == IsOperation(NoOperation)
BY NothingIsRows DEF IsOperation, NoOperation

LEMMA RefusalIsReply ==
    ASSUME NEW error, error # "InvalidArgumentError"
    PROVE  IsReply(Refusal(error))
<1>1. toGrpcError(error) \in Statuses
    BY DEF toGrpcError, Statuses
<1> QED BY <1>1, NothingIsRows DEF IsReply, Refusal

LEMMA NoReplyIsReply == IsReply(NoReply)
BY NothingIsRows DEF IsReply, NoReply, Statuses

\* The quantities of a command's or an operation's items are positive.
LEMMA QuantitiesArePositive ==
    ASSUME NEW items \in Payloads \cup {Nothing}, NEW p \in DOMAIN items
    PROVE  items[p] \in Nat /\ items[p] > 0
BY CommandAssumption, NothingIsRows DEF Nothing

-----------------------------------------------------------------------------
(* Initial states *)

LEMMA InitIInv == Init => IInv
<1> SUFFICES ASSUME Init PROVE IInv
    OBVIOUS
<1> USE NothingIsRows, NoOperationIsOperation DEF Init
<1>1. TypeOK
    BY SeedAssumption, FaultAssumption, NoReplyIsReply DEF TypeOK
<1>2. OneOwnerPerOrder /\ OneOwnerPerRow
    BY DEF OneOwnerPerOrder, OneOwnerPerRow, OwnsOrderLock
<1>3. Transactions
    BY DEF Transactions, Locked, Validated, Staged
<1>4. NoStaleRow /\ NoStaleOperation
    BY DEF NoStaleRow, NoStaleOperation
<1> QED BY <1>1, <1>2, <1>3, <1>4 DEF IInv
-----------------------------------------------------------------------------
(* Steps *)

\* A call that ends without publishing anything keeps the invariant.
LEMMA EndKeepsIInv ==
    ASSUME IInv, NEW c \in Calls, pc[c] # "idle", NEW r, IsReply(r),
           EndTransaction(c, r), UNCHANGED <<stock, ledger, cmd>>, faults' \in 0..MaxFaults
    PROVE  IInv'
<1> USE DEF IInv, EndTransaction
<1>1. TypeOK'
    BY NothingIsRows, NoOperationIsOperation DEF TypeOK
<1>2. /\ pc'[c] = "done" /\ DOMAIN seen'[c] = {} /\ DOMAIN staged'[c] = {}
      /\ \A d \in Calls : d # c => /\ pc'[d] = pc[d] /\ seen'[d] = seen[d]
                                   /\ staged'[d] = staged[d] /\ found'[d] = found[d]
    BY NothingIsRows DEF TypeOK
<1> HIDE DEF EndTransaction
<1>3. OneOwnerPerOrder'
    BY <1>2 DEF OneOwnerPerOrder, OwnsOrderLock
<1>4. OneOwnerPerRow'
    BY <1>2 DEF OneOwnerPerRow
<1>5. Transactions'
    <2> SUFFICES ASSUME NEW d \in Calls PROVE (Locked(d) /\ Validated(d) /\ Staged(d))'
        BY DEF Transactions
    <2>1. CASE d = c
        BY <2>1, <1>2 DEF Transactions, Locked, Validated, Staged
    <2>2. CASE d # c
        BY <2>2, <1>2 DEF Transactions, Locked, Validated, Staged, Rows, Lines, MissingParts, NewValue
    <2> QED BY <2>1, <2>2
<1>6. NoStaleRow'
    BY <1>2 DEF NoStaleRow
<1>7. NoStaleOperation'
    BY <1>2 DEF NoStaleOperation, Existing
<1> QED BY <1>1, <1>3, <1>4, <1>5, <1>6, <1>7

\* What a step changes for no other call leaves their part of the invariant alone.
LEMMA OthersUnchanged ==
    ASSUME IInv, NEW c \in Calls, UNCHANGED <<stock, ledger>>,
           \A d \in Calls \ {c} : /\ pc'[d] = pc[d] /\ cmd'[d] = cmd[d] /\ found'[d] = found[d]
                                  /\ seen'[d] = seen[d] /\ staged'[d] = staged[d],
           TypeOK',
           \A d \in Calls \ {c} :
               /\ OwnsOrderLock(c)' /\ OwnsOrderLock(d) => cmd'[c].order # cmd[d].order
               /\ DOMAIN seen'[c] \cap DOMAIN seen[d] = {},
           (Locked(c) /\ Validated(c) /\ Staged(c))',
           \A p \in DOMAIN seen'[c] : seen'[c][p] = stock[p],
           pc'[c] \in {"lockParts", "write"} =>
               IF cmd'[c].op = "reserve"
               THEN ledger[cmd'[c].order].status = "NONE"
               ELSE ledger[cmd'[c].order] = found'[c] /\ found'[c].status = "RESERVED"
    PROVE  IInv'
<1>1. OneOwnerPerOrder'
    BY DEF IInv, OneOwnerPerOrder, OwnsOrderLock
<1>2. OneOwnerPerRow'
    BY DEF IInv, OneOwnerPerRow
<1>3. Transactions'
    <2> SUFFICES ASSUME NEW d \in Calls, d # c PROVE (Locked(d) /\ Validated(d) /\ Staged(d))'
        BY DEF Transactions
    <2> QED BY DEF IInv, Transactions, Locked, Validated, Staged, Rows, Lines, MissingParts, NewValue
<1>4. NoStaleRow'
    BY DEF IInv, NoStaleRow
<1>5. NoStaleOperation'
    BY DEF IInv, NoStaleOperation, Existing
<1> QED BY <1>1, <1>2, <1>3, <1>4, <1>5 DEF IInv

LEMMA StartKeepsIInv ==
    ASSUME IInv, NEW c \in Calls, NEW command \in Commands, Start(c, command)
    PROVE  IInv'
<1> USE DEF Start
<1>1. TypeOK'
    BY DEF IInv, TypeOK
<1>2. pc'[c] = "lockOrder" /\ cmd'[c] \in Commands /\ DOMAIN seen[c] = {} /\ DOMAIN staged[c] = {}
    BY DEF IInv, TypeOK, Transactions, Locked, Staged
<1>3. \A d \in Calls \ {c} : pc'[d] = pc[d] /\ cmd'[d] = cmd[d]
    BY DEF IInv, TypeOK
<1>4. (Locked(c) /\ Validated(c) /\ Staged(c))'
    BY <1>2 DEF Locked, Validated, Staged
<1> QED BY <1>1, <1>2, <1>3, <1>4, OthersUnchanged DEF OwnsOrderLock

\* A step that moves one call from a statement to the next and changes nothing else.
LEMMA LockOrderKeepsIInv ==
    ASSUME IInv, NEW c \in Calls, LockOrder(c)
    PROVE  IInv'
<1> USE DEF LockOrder
<1>1. TypeOK'
    BY DEF IInv, TypeOK
<1>2. pc'[c] = "read" /\ cmd[c] \in Commands /\ DOMAIN seen[c] = {} /\ DOMAIN staged[c] = {}
    BY DEF IInv, TypeOK, Transactions, Locked, Staged
<1>3. \A d \in Calls \ {c} : pc'[d] = pc[d]
    BY DEF IInv, TypeOK
<1>4. (Locked(c) /\ Validated(c) /\ Staged(c))'
    BY <1>2 DEF Locked, Validated, Staged
<1> QED BY <1>1, <1>2, <1>3, <1>4, OthersUnchanged DEF OwnsOrderLock

LEMMA ReadKeepsIInv ==
    ASSUME IInv, NEW c \in Calls, ReserveOnNone(c) \/ ReleaseOnReserved(c)
    PROVE  IInv'
<1> USE DEF ReserveOnNone, ReleaseOnReserved
<1>1. /\ pc[c] = "read" /\ pc'[c] = "lockParts" /\ cmd[c] \in Commands
      /\ DOMAIN seen[c] = {} /\ DOMAIN staged[c] = {}
      /\ UNCHANGED <<stock, ledger, cmd, seen, staged>>
    BY DEF IInv, TypeOK, Transactions, Locked, Staged
<1>2. cmd[c].order \in OrderIds
    BY <1>1 DEF Commands, ReserveCommands, ReleaseCommands
<1>3. TypeOK'
    BY <1>2 DEF IInv, TypeOK, Existing
<1>4. \A d \in Calls \ {c} : pc'[d] = pc[d] /\ found'[d] = found[d]
    BY DEF IInv, TypeOK
<1>5. (Locked(c) /\ Validated(c) /\ Staged(c))'
    BY <1>1 DEF Locked, Validated, Staged
<1>6. IF cmd'[c].op = "reserve" THEN ledger[cmd'[c].order].status = "NONE"
                               ELSE ledger[cmd'[c].order] = found'[c] /\ found'[c].status = "RESERVED"
    BY <1>1 DEF IInv, TypeOK, Existing
<1>7. \A d \in Calls \ {c} : OwnsOrderLock(d) => cmd[c].order # cmd[d].order
    BY <1>1 DEF IInv, OneOwnerPerOrder, OwnsOrderLock
<1> QED BY <1>1, <1>3, <1>4, <1>5, <1>6, <1>7, OthersUnchanged DEF OwnsOrderLock

LEMMA LockPartKeepsIInv ==
    ASSUME IInv, NEW c \in Calls, LockPart(c)
    PROVE  IInv'
<1> DEFINE p == NextRow(c)
<1>1. /\ pc[c] = "lockParts" /\ DOMAIN staged[c] = {}
      /\ UNCHANGED <<stock, ledger, pc, cmd, found, staged, reply, faults>>
      /\ seen' = [seen EXCEPT ![c] = With(@, p, stock[p])]
      /\ \A d \in Calls \ {c} : p \notin DOMAIN seen[d]
      /\ p \in Unlocked(c) /\ p \in Parts
    BY NextRowIsUnlocked DEF LockPart, OwnsRow, IInv, Transactions, Staged
<1>2. IsRows(seen[c]) /\ stock[p] \in Nat
    BY <1>1 DEF IInv, TypeOK
<1> HIDE DEF p
<1>3. /\ IsRows(seen'[c])
      /\ DOMAIN seen'[c] = DOMAIN seen[c] \cup {p}
      /\ seen'[c][p] = stock[p]
      /\ \A q \in DOMAIN seen[c] : q # p => seen'[c][q] = seen[c][q]
      /\ \A d \in Calls \ {c} : seen'[d] = seen[d]
    <2>1. seen'[c] = With(seen[c], p, stock[p]) /\ \A d \in Calls \ {c} : seen'[d] = seen[d]
        BY <1>1 DEF IInv, TypeOK
    <2>2. LET f == With(seen[c], p, stock[p])
          IN  /\ IsRows(f) /\ DOMAIN f = DOMAIN seen[c] \cup {p} /\ f[p] = stock[p]
              /\ \A q \in DOMAIN seen[c] : q # p => f[q] = seen[c][q]
        BY <1>1, <1>2, WithRow
    <2> QED BY <2>1, <2>2
<1>4. TypeOK'
    <2>1. DOMAIN seen' = Calls /\ \A d \in Calls : IsRows(seen'[d])
        BY <1>1, <1>3 DEF IInv, TypeOK
    <2> QED BY <1>1, <2>1 DEF IInv, TypeOK
<1>5. (Locked(c) /\ Validated(c) /\ Staged(c))'
    BY <1>1, <1>3 DEF IInv, Transactions, Locked, Validated, Staged, Unlocked, Rows, Lines
<1>6. \A q \in DOMAIN seen'[c] : seen'[c][q] = stock[q]
    BY <1>3 DEF IInv, NoStaleRow
<1>7. \A d \in Calls \ {c} : DOMAIN seen'[c] \cap DOMAIN seen[d] = {}
    BY <1>1, <1>3 DEF IInv, OneOwnerPerRow
<1>8. \A d \in Calls \ {c} : OwnsOrderLock(d) => cmd[c].order # cmd[d].order
    BY <1>1 DEF IInv, OneOwnerPerOrder, OwnsOrderLock
<1> QED
    BY <1>1, <1>3, <1>4, <1>5, <1>6, <1>7, <1>8, OthersUnchanged
    DEF OwnsOrderLock, IInv, NoStaleOperation, Existing

LEMMA AcceptKeepsIInv ==
    ASSUME IInv, NEW c \in Calls, ReserveAccept(c) \/ ReleaseAccept(c)
    PROVE  IInv'
<1>1. /\ pc[c] = "lockParts" /\ pc'[c] = "write" /\ cmd[c] \in Commands
      /\ Unlocked(c) = {} /\ DOMAIN seen[c] \subseteq Rows(c) /\ DOMAIN staged[c] = {}
      /\ \A d \in Calls \ {c} : pc'[d] = pc[d]
      /\ UNCHANGED <<stock, ledger, cmd, found, seen, staged, reply, faults>>
    BY DEF IInv, TypeOK, Transactions, Locked, Staged, ReserveAccept, ReleaseAccept
<1>2. TypeOK'
    BY <1>1 DEF IInv, TypeOK, ReserveAccept, ReleaseAccept
<1>3. cmd[c].op = "reserve" =>
          MissingParts(c) = {} /\ \A p \in DOMAIN seen[c] : seen[c][p] >= cmd[c].items[p]
    <2> SUFFICES ASSUME cmd[c].op = "reserve"
                 PROVE  MissingParts(c) = {} /\ \A p \in DOMAIN seen[c] : seen[c][p] >= cmd[c].items[p]
        OBVIOUS
    <2>1. MissingParts(c) = {} /\ Shortages(c) = {}
        BY DEF ReserveAccept, ReleaseAccept
    <2>2. ASSUME NEW p \in DOMAIN seen[c] PROVE seen[c][p] >= cmd[c].items[p]
        <3>1. cmd[c].items \in Payloads /\ p \in DOMAIN cmd[c].items
            BY <1>1 DEF Commands, ReserveCommands, ReleaseCommands, Rows, Lines
        <3>2. seen[c][p] \in Nat /\ cmd[c].items[p] \in Nat
            BY <3>1, QuantitiesArePositive DEF IInv, TypeOK, IsRows
        <3>3. ~(seen[c][p] < cmd[c].items[p])
            BY <2>1 DEF Shortages
        <3> QED BY <3>2, <3>3
    <2> QED BY <2>1, <2>2
<1>4. (Locked(c) /\ Validated(c) /\ Staged(c))'
    BY <1>1, <1>3 DEF Locked, Validated, Staged, Unlocked, Rows, Lines, MissingParts
<1>5. \A d \in Calls \ {c} : OwnsOrderLock(d) => cmd[c].order # cmd[d].order
    BY <1>1 DEF IInv, OneOwnerPerOrder, OwnsOrderLock
<1>6. \A d \in Calls \ {c} : DOMAIN seen'[c] \cap DOMAIN seen[d] = {}
    BY <1>1 DEF IInv, OneOwnerPerRow
<1> QED
    BY <1>1, <1>2, <1>4, <1>5, <1>6, OthersUnchanged
    DEF IInv, NoStaleRow, NoStaleOperation, Existing

\* The value written for a row of a validated call is a stock: never below zero.
LEMMA NewValueIsStock ==
    ASSUME IInv, NEW c \in Calls, pc[c] = "write", NEW p \in Rows(c)
    PROVE  p \in DOMAIN seen[c] /\ p \in Parts /\ NewValue(c, p) \in Nat
<1>1. cmd[c] \in Commands /\ p \in DOMAIN seen[c] /\ p \in Parts /\ p \in DOMAIN Lines(c)
    BY DEF IInv, Transactions, Locked, Validated, Rows
<1>2. Lines(c) \in Payloads \cup {Nothing}
    BY <1>1 DEF Lines, Commands, ReserveCommands, ReleaseCommands, IInv, TypeOK, IsOperation
<1>3. seen[c][p] \in Nat /\ Lines(c)[p] \in Nat
    BY <1>1, <1>2, QuantitiesArePositive DEF IInv, TypeOK, IsRows
<1>4. CASE cmd[c].op = "reserve"
    <2>1. seen[c][p] >= Lines(c)[p]
        BY <1>1, <1>4 DEF IInv, Transactions, Validated, Lines
    <2> QED BY <1>1, <1>3, <1>4, <2>1 DEF NewValue
<1>5. CASE cmd[c].op # "reserve"
    BY <1>1, <1>3, <1>5 DEF NewValue
<1> QED BY <1>4, <1>5

LEMMA UpdatePartKeepsIInv ==
    ASSUME IInv, NEW c \in Calls, UpdatePart(c)
    PROVE  IInv'
<1>1. PICK p \in Rows(c) \ DOMAIN staged[c] :
          staged' = [staged EXCEPT ![c] = With(@, p, NewValue(c, p))]
    BY DEF UpdatePart
<1>2. pc[c] = "write" /\ UNCHANGED <<stock, ledger, pc, cmd, found, seen, reply, faults>>
    BY DEF UpdatePart
<1>3. p \in DOMAIN seen[c] /\ p \in Parts /\ NewValue(c, p) \in Nat /\ IsRows(staged[c])
    BY <1>2, NewValueIsStock DEF IInv, TypeOK
<1>4. LET f == With(staged[c], p, NewValue(c, p))
      IN  /\ IsRows(f) /\ DOMAIN f = DOMAIN staged[c] \cup {p} /\ f[p] = NewValue(c, p)
          /\ \A q \in DOMAIN staged[c] : q # p => f[q] = staged[c][q]
    BY <1>3, WithRow
<1>5. /\ staged'[c] = With(staged[c], p, NewValue(c, p))
      /\ DOMAIN staged' = Calls /\ \A d \in Calls \ {c} : staged'[d] = staged[d]
    BY <1>1 DEF IInv, TypeOK
<1>6. TypeOK'
    BY <1>2, <1>4, <1>5 DEF IInv, TypeOK
<1>7. (Locked(c) /\ Validated(c) /\ Staged(c))'
    <2>1. \A q : NewValue(c, q)' = NewValue(c, q)
        BY <1>2 DEF NewValue, Lines
    <2>2. Staged(c)'
        BY <1>2, <1>3, <1>4, <1>5, <2>1 DEF IInv, Transactions, Staged
    <2> QED BY <1>2, <2>2 DEF IInv, Transactions, Locked, Validated, Rows, Lines, MissingParts
<1> QED
    BY <1>2, <1>5, <1>6, <1>7, OthersUnchanged
    DEF IInv, OneOwnerPerOrder, OneOwnerPerRow, OwnsOrderLock, NoStaleRow, NoStaleOperation, Existing

\* What a commit writes: the rows it holds, and the operation of its order.
LEMMA PublishWrites ==
    ASSUME IInv, NEW c \in Calls, Publish(c)
    PROVE  /\ cmd[c] \in Commands /\ cmd[c].order \in OrderIds
           /\ DOMAIN seen[c] = Rows(c) /\ DOMAIN staged[c] = Rows(c)
           /\ stock' \in [Parts -> Nat]
           /\ \A p \in Rows(c) : stock'[p] = NewValue(c, p)
           /\ \A p \in Parts \ Rows(c) : stock'[p] = stock[p]
           /\ IsOperation(NewOperation(c))
           /\ ledger' = [ledger EXCEPT ![cmd[c].order] = NewOperation(c)]
<1>1. /\ pc[c] = "write" /\ cmd[c] \in Commands
      /\ DOMAIN staged[c] = Rows(c) /\ DOMAIN seen[c] = Rows(c) /\ Rows(c) \subseteq Parts
      /\ \A p \in Rows(c) : staged[c][p] = NewValue(c, p)
    BY DEF Publish, IInv, Transactions, Locked, Validated, Staged, Rows
<1>2. cmd[c].order \in OrderIds
    BY <1>1 DEF Commands, ReserveCommands, ReleaseCommands
<1>3. \A p \in Rows(c) : NewValue(c, p) \in Nat
    BY <1>1, NewValueIsStock
<1>4. stock' = [p \in Parts |-> IF p \in Rows(c) THEN NewValue(c, p) ELSE stock[p]]
    BY <1>1 DEF Publish
<1>5. stock' \in [Parts -> Nat]
    BY <1>3, <1>4 DEF IInv, TypeOK
<1>6. IsOperation(NewOperation(c))
    <2>1. IsRows(seen[c]) /\ IsOperation(found[c])
        BY DEF IInv, TypeOK
    <2>2. CASE cmd[c].op = "reserve"
        <3>1. cmd[c].items \in Payloads
            BY <1>1, <2>2 DEF Commands, ReserveCommands, ReleaseCommands
        <3> QED BY <2>1, <2>2, <3>1, NothingIsRows DEF NewOperation, ReservedOperation, IsOperation
    <2>3. CASE cmd[c].op # "reserve"
        BY <2>1, <2>3 DEF NewOperation, ReleasedOperation, IsOperation
    <2> QED BY <2>2, <2>3
<1> QED BY <1>1, <1>2, <1>4, <1>5, <1>6 DEF Publish

LEMMA PublishKeepsIInv ==
    ASSUME IInv, NEW c \in Calls, NEW r, IsReply(r),
           Publish(c), EndTransaction(c, r), faults' \in 0..MaxFaults
    PROVE  IInv'
<1>1. TypeOK'
    <2>1. stock' \in [Parts -> Nat] /\ UNCHANGED cmd
        BY PublishWrites DEF Publish
    <2>2. DOMAIN ledger' = OrderIds /\ \A o \in OrderIds : IsOperation(ledger'[o])
        BY PublishWrites DEF IInv, TypeOK
    <2> QED BY <2>1, <2>2, NothingIsRows, NoOperationIsOperation DEF IInv, TypeOK, EndTransaction
<1>2. /\ pc'[c] = "done" /\ DOMAIN seen'[c] = {} /\ DOMAIN staged'[c] = {}
      /\ \A d \in Calls : d # c => /\ pc'[d] = pc[d] /\ seen'[d] = seen[d]
                                   /\ staged'[d] = staged[d] /\ found'[d] = found[d]
      /\ UNCHANGED cmd /\ OwnsOrderLock(c) /\ pc[c] = "write"
    BY NothingIsRows DEF IInv, TypeOK, EndTransaction, Publish, OwnsOrderLock
<1>3. OneOwnerPerOrder'
    BY <1>2 DEF IInv, OneOwnerPerOrder, OwnsOrderLock
<1>4. OneOwnerPerRow'
    BY <1>2 DEF IInv, OneOwnerPerRow
<1>5. Transactions'
    <2> SUFFICES ASSUME NEW d \in Calls PROVE (Locked(d) /\ Validated(d) /\ Staged(d))'
        BY DEF Transactions
    <2>1. CASE d = c
        BY <2>1, <1>2 DEF IInv, Transactions, Locked, Validated, Staged
    <2>2. CASE d # c
        BY <2>2, <1>2
        DEF IInv, Transactions, Locked, Validated, Staged, Rows, Lines, MissingParts, NewValue
    <2> QED BY <2>1, <2>2
<1>6. NoStaleRow'
    <2> SUFFICES ASSUME NEW d \in Calls, NEW p \in DOMAIN seen'[d] PROVE seen'[d][p] = stock'[p]
        BY DEF NoStaleRow
    <2>1. d # c /\ seen'[d] = seen[d]
        BY <1>2
    <2>2. p \in Parts \ Rows(c)
        BY <2>1, PublishWrites DEF IInv, TypeOK, IsRows, OneOwnerPerRow
    <2> QED BY <2>1, <2>2, PublishWrites DEF IInv, NoStaleRow
<1>7. NoStaleOperation'
    <2> SUFFICES ASSUME NEW d \in Calls, pc'[d] \in {"lockParts", "write"}
                 PROVE  IF cmd'[d].op = "reserve" THEN Existing(d)'.status = "NONE"
                        ELSE Existing(d)' = found'[d] /\ found'[d].status = "RESERVED"
        BY DEF NoStaleOperation
    <2>1. d # c /\ pc[d] \in {"lockParts", "write"} /\ found'[d] = found[d] /\ cmd' = cmd
        BY <1>2
    <2>2. cmd[d].order # cmd[c].order
        BY <1>2, <2>1 DEF IInv, OneOwnerPerOrder, OwnsOrderLock
    <2>3. Existing(d)' = Existing(d)
        <3>1. cmd[d].order \in OrderIds
            BY <2>1 DEF IInv, Transactions, Locked, Commands, ReserveCommands, ReleaseCommands
        <3> QED BY <2>1, <2>2, <3>1, PublishWrites DEF Existing, IInv, TypeOK
    <2> QED BY <2>1, <2>3 DEF IInv, NoStaleOperation
<1> QED BY <1>1, <1>3, <1>4, <1>5, <1>6, <1>7 DEF IInv

-----------------------------------------------------------------------------
(* Every step *)

\* The stored evidence a call answers with is an answer.
LEMMA StoredResultIsReply ==
    ASSUME NEW operation, IsOperation(operation), NEW replayed \in BOOLEAN
    PROVE  /\ IsReply(toReserveResult(operation, replayed))
           /\ IsReply(toReleaseResult(operation, replayed))
BY DEF IsOperation, IsReply, toReserveResult, toReleaseResult, Statuses

LEMMA EndStepKeepsIInv ==
    ASSUME IInv, NEW c \in Calls,
           ReserveOnExisting(c) \/ ReserveReject(c) \/ ReleaseAnswered(c) \/ Rollback(c)
    PROVE  IInv'
<1>1. ASSUME pc[c] # "idle" PROVE cmd[c].order \in OrderIds /\ IsOperation(Existing(c))
    BY <1>1 DEF IInv, TypeOK, Transactions, Locked, Commands, ReserveCommands, ReleaseCommands, Existing
<1>2. faults \in 0..MaxFaults /\ MaxFaults \in Nat
    BY FaultAssumption DEF IInv, TypeOK
<1>3. CASE ReserveOnExisting(c)
    <2>1. /\ IsReply(toReserveResult(Existing(c), TRUE))
          /\ IsReply(Refusal("OrderIdConflictError"))
          /\ IsReply(Refusal("ReservationAlreadyReleasedError"))
        BY <1>1, <1>3, StoredResultIsReply, RefusalIsReply DEF ReserveOnExisting
    <2> QED BY <1>2, <1>3, <2>1, EndKeepsIInv DEF ReserveOnExisting
<1>4. CASE ReserveReject(c)
    <2>1. IsReply(Refusal("PartsNotFoundError")) /\ IsReply(Refusal("InsufficientStockError"))
        BY RefusalIsReply
    <2> QED BY <1>2, <1>4, <2>1, EndKeepsIInv DEF ReserveReject
<1>5. CASE ReleaseAnswered(c)
    <2>1. IsReply(toReleaseResult(Existing(c), TRUE)) /\ IsReply(Refusal("ReservationNotFoundError"))
        BY <1>1, <1>5, StoredResultIsReply, RefusalIsReply DEF ReleaseAnswered
    <2> QED BY <1>2, <1>5, <2>1, EndKeepsIInv DEF ReleaseAnswered
<1>6. CASE Rollback(c)
    <2>1. IsReply(Refusal("PrismaError"))
        BY RefusalIsReply
    <2> QED BY <1>2, <1>6, <2>1, EndKeepsIInv DEF Rollback
<1> QED BY <1>3, <1>4, <1>5, <1>6

LEMMA CommitKeepsIInv ==
    ASSUME IInv, NEW c \in Calls, Commit(c) \/ CommitAckLost(c)
    PROVE  IInv'
<1>1. Publish(c)
    BY DEF Commit, CommitAckLost
<1>2. faults \in 0..MaxFaults /\ MaxFaults \in Nat
    BY FaultAssumption DEF IInv, TypeOK
<1>3. CASE Commit(c)
    <2>1. /\ IsReply(toReserveResult(NewOperation(c), FALSE))
          /\ IsReply(toReleaseResult(NewOperation(c), FALSE))
        BY <1>1, PublishWrites, StoredResultIsReply
    <2> QED BY <1>1, <1>2, <1>3, <2>1, PublishKeepsIInv DEF Commit
<1>4. CASE CommitAckLost(c)
    <2>1. IsReply(Refusal("PrismaError"))
        BY RefusalIsReply
    <2> QED BY <1>1, <1>2, <1>4, <2>1, PublishKeepsIInv DEF CommitAckLost
<1> QED BY <1>3, <1>4

LEMMA StutterKeepsIInv == IInv /\ UNCHANGED vars => IInv'
<1> SUFFICES ASSUME IInv, UNCHANGED vars PROVE IInv'
    OBVIOUS
<1>1. TypeOK'
    BY DEF IInv, TypeOK, vars
<1>2. OneOwnerPerOrder' /\ OneOwnerPerRow'
    BY DEF IInv, vars, OneOwnerPerOrder, OneOwnerPerRow, OwnsOrderLock
<1>3. Transactions'
    BY DEF IInv, vars, Transactions, Locked, Validated, Staged, Rows, Lines, MissingParts, NewValue
<1>4. NoStaleRow' /\ NoStaleOperation'
    BY DEF IInv, vars, NoStaleRow, NoStaleOperation, Existing
<1> QED BY <1>1, <1>2, <1>3, <1>4 DEF IInv

LEMMA NextKeepsIInv == IInv /\ [Next]_vars => IInv'
<1> SUFFICES ASSUME IInv, [Next]_vars PROVE IInv'
    OBVIOUS
<1>1. ASSUME NEW c \in Calls, NEW command \in Commands, Start(c, command) PROVE IInv'
    BY <1>1, StartKeepsIInv
<1>2. ASSUME NEW c \in Calls, Step(c) PROVE IInv'
    BY <1>2, LockOrderKeepsIInv, ReadKeepsIInv, LockPartKeepsIInv, AcceptKeepsIInv,
       UpdatePartKeepsIInv, EndStepKeepsIInv, CommitKeepsIInv DEF Step
<1>3. ASSUME NEW c \in Calls, Rollback(c) PROVE IInv'
    BY <1>3, EndStepKeepsIInv
<1>4. ASSUME NEW c \in Calls, CommitAckLost(c) PROVE IInv'
    BY <1>4, CommitKeepsIInv
<1> QED BY <1>1, <1>2, <1>3, <1>4, StutterKeepsIInv DEF Next

\* The inductive invariant holds: what the theorems below are read from.
THEOREM Invariance == Spec => []IInv
BY InitIInv, NextKeepsIInv, PTL DEF Spec

-----------------------------------------------------------------------------
(* Results *)

\* The state is well typed: in particular no stock is ever below zero.
THEOREM TypeCorrect == Spec => []TypeOK
<1>1. IInv => TypeOK
    BY DEF IInv
<1> QED BY <1>1, Invariance, PTL

\* No stock value is stale when a new one is computed from it.
THEOREM RowsAreFresh == Spec => []NoStaleRow
<1>1. IInv => NoStaleRow
    BY DEF IInv
<1> QED BY <1>1, Invariance, PTL

\* No operation is stale when a call acts on having read it.
THEOREM OperationsAreFresh == Spec => []NoStaleOperation
<1>1. IInv => NoStaleOperation
    BY DEF IInv
<1> QED BY <1>1, Invariance, PTL

-----------------------------------------------------------------------------
(* The service implements the atomic ledger *)

Projected == [o \in OrderIds |-> [status |-> ledger[o].status, items |-> ledger[o].items]]

LEMMA PublishIsLedgerStep ==
    ASSUME IInv, NEW c \in Calls, Publish(c)
    PROVE  Ledger!LedgerNext
<1> DEFINE o == cmd[c].order
<1>1. /\ o \in OrderIds /\ cmd[c] \in Commands /\ pc[c] = "write"
      /\ DOMAIN seen[c] = Rows(c)
      /\ stock' \in [Parts -> Nat]
      /\ \A p \in Rows(c) : stock'[p] = NewValue(c, p)
      /\ \A p \in Parts \ Rows(c) : stock'[p] = stock[p]
      /\ ledger' = [ledger EXCEPT ![o] = NewOperation(c)]
      /\ DOMAIN ledger = OrderIds /\ stock \in [Parts -> Nat]
    BY PublishWrites DEF Publish, IInv, TypeOK
<1>2. \A p \in Rows(c) : seen[c][p] = stock[p]
    BY <1>1 DEF IInv, NoStaleRow
<1>3. CASE cmd[c].op = "reserve"
    <2> DEFINE items == cmd[c].items
    <2>1. items \in Payloads /\ Lines(c) = items /\ Rows(c) = DOMAIN items \cap Parts
        BY <1>1, <1>3 DEF Commands, ReserveCommands, ReleaseCommands, Lines, Rows
    <2>2. /\ ledger[o].status = "NONE" /\ DOMAIN items \ Parts = {}
          /\ \A p \in Rows(c) : seen[c][p] >= items[p]
        BY <1>1, <1>3 DEF IInv, NoStaleOperation, Existing, Transactions, Validated, MissingParts
    <2>3. {p \in DOMAIN items \cap Parts : stock[p] < items[p]} = {}
        <3> SUFFICES ASSUME NEW p \in DOMAIN items \cap Parts PROVE ~(stock[p] < items[p])
            OBVIOUS
        <3>1. stock[p] \in Nat /\ items[p] \in Nat
            BY <1>1, <2>1, QuantitiesArePositive
        <3>2. stock[p] >= items[p]
            BY <1>2, <2>1, <2>2
        <3> QED BY <3>1, <3>2
    <2>4. stock' = [p \in Parts |-> IF p \in DOMAIN items THEN stock[p] - items[p] ELSE stock[p]]
        BY <1>1, <1>2, <1>3, <2>1 DEF NewValue
    <2>5. Projected' = [Projected EXCEPT ![o] = [status |-> "RESERVED", items |-> items]]
        BY <1>1, <1>3 DEF Projected, NewOperation, ReservedOperation
    <2>6. Projected[o].status = "NONE"
        BY <1>1, <2>2 DEF Projected
    <2>7. Ledger!Reserve(o, items)
        BY <2>2, <2>3, <2>4, <2>5, <2>6 DEF Ledger!Reserve, Ledger!Missing, Ledger!Short, Projected
    <2>8. o \in OrderIds /\ items \in Payloads
        BY <1>1, <2>1
    <2> HIDE DEF o, items
    <2> QED BY <2>7, <2>8 DEF Ledger!LedgerNext, Ledger!Reserve
<1>4. CASE cmd[c].op # "reserve"
    <2> DEFINE items == found[c].items
    <2>1. ledger[o] = found[c] /\ found[c].status = "RESERVED"
        BY <1>1, <1>4 DEF IInv, NoStaleOperation, Existing
    <2>2. Lines(c) = items /\ Rows(c) = DOMAIN items \cap Parts
        BY <1>4 DEF Lines, Rows
    <2>3. stock' = [p \in Parts |-> IF p \in DOMAIN items THEN stock[p] + items[p] ELSE stock[p]]
        BY <1>1, <1>2, <1>4, <2>2 DEF NewValue
    <2>4. IsOperation(found[c])
        BY DEF IInv, TypeOK
    <2>5. Projected' = [Projected EXCEPT ![o].status = "RELEASED"]
        BY <1>1, <1>4, <2>1, <2>4 DEF Projected, NewOperation, ReleasedOperation, IsOperation
    <2>6. Projected[o].status = "RESERVED" /\ Projected[o].items = items
        BY <1>1, <2>1 DEF Projected
    <2>7. Ledger!Release(o)
        BY <2>3, <2>5, <2>6 DEF Ledger!Release, Projected
    <2>8. o \in OrderIds
        BY <1>1
    <2> HIDE DEF o
    <2> QED BY <2>7, <2>8 DEF Ledger!LedgerNext, Ledger!Release
<1> QED BY <1>3, <1>4

\* A step of the service is a step of the ledger (a commit) or changes nothing of it.
LEMMA StepImplementsLedger ==
    IInv /\ [Next]_vars => [Ledger!LedgerNext]_(Ledger!ledgerVars)
<1> SUFFICES ASSUME IInv, [Next]_vars PROVE Ledger!LedgerNext \/ UNCHANGED <<stock, ledger>>
    BY DEF Ledger!ledgerVars
<1>1. ASSUME NEW c \in Calls, Commit(c) \/ CommitAckLost(c) PROVE Ledger!LedgerNext
    BY <1>1, PublishIsLedgerStep DEF Commit, CommitAckLost
<1>2. ASSUME NEW c \in Calls, Step(c), ~Commit(c) PROVE UNCHANGED <<stock, ledger>>
    BY <1>2 DEF Step, LockOrder, ReserveOnExisting, ReserveOnNone, ReserveReject, ReserveAccept,
                ReleaseAnswered, ReleaseOnReserved, ReleaseAccept, LockPart, UpdatePart
<1>3. ASSUME NEW c \in Calls, Rollback(c) PROVE UNCHANGED <<stock, ledger>>
    BY <1>3 DEF Rollback
<1>4. ASSUME NEW c \in Calls, NEW command \in Commands, Start(c, command)
      PROVE  UNCHANGED <<stock, ledger>>
    BY <1>4 DEF Start
<1> QED BY <1>1, <1>2, <1>3, <1>4 DEF Next, vars

LEMMA InitImplementsLedger == Init => Ledger!LedgerInit
BY DEF Init, Ledger!LedgerInit, Ledger!NoOperation, Ledger!NoItems, NoOperation, Nothing

\* Concurrent calls, with rows locked one by one, writes in several statements,
\* rollbacks and lost acknowledgements, change stock and ledger as indivisible
\* Reserve and Release steps do.
THEOREM Refinement == Spec => ImplementsLedger
BY InitImplementsLedger, StepImplementsLedger, Invariance, PTL
DEF Spec, ImplementsLedger, Ledger!LedgerSpec

-----------------------------------------------------------------------------
(* Linearization *)

\* A refusal or a replay is what the atomic ledger answers in the same state.
LEMMA AnswerOfLedger ==
    ASSUME IInv, NEW c \in Calls, pc[c] # "idle"
    PROVE  LET o == cmd[c].order  items == cmd[c].items
           IN  /\ o \in OrderIds
               /\ Projected[o].status = Existing(c).status
               /\ Projected[o].items = Existing(c).items
               /\ Existing(c).status \in {"NONE", "RESERVED", "RELEASED"}
BY DEF IInv, TypeOK, IsOperation, Transactions, Locked, Commands, ReserveCommands, ReleaseCommands,
       Projected, Existing

LEMMA ReplyOfStep ==
    ASSUME IInv, NEW c \in Calls, NEW r, EndTransaction(c, r)
    PROVE  reply'[c] = r /\ \A d \in Calls \ {c} : reply'[d] = reply[d]
BY DEF IInv, TypeOK, EndTransaction

LEMMA ReserveOnExistingAnswer ==
    ASSUME IInv, NEW c \in Calls, ReserveOnExisting(c)
    PROVE  reply'[c].status = Ledger!ReserveStatus(cmd[c].order, cmd[c].items)
<1>1. /\ pc[c] = "read" /\ Existing(c).status \in {"RESERVED", "RELEASED"}
      /\ Projected[cmd[c].order].status = Existing(c).status
      /\ Projected[cmd[c].order].items = Existing(c).items
    BY AnswerOfLedger DEF ReserveOnExisting
<1>2. reply'[c] = IF Existing(c).items # cmd[c].items THEN Refusal("OrderIdConflictError")
                  ELSE IF Existing(c).status = "RELEASED" THEN Refusal("ReservationAlreadyReleasedError")
                  ELSE toReserveResult(Existing(c), TRUE)
    BY ReplyOfStep DEF ReserveOnExisting
<1>3. /\ Refusal("OrderIdConflictError").status = "ALREADY_EXISTS"
      /\ Refusal("ReservationAlreadyReleasedError").status = "FAILED_PRECONDITION"
      /\ toReserveResult(Existing(c), TRUE).status = "OK"
    BY DEF Refusal, toGrpcError, toReserveResult
<1> QED BY <1>1, <1>2, <1>3 DEF Ledger!ReserveStatus, Projected

LEMMA ReleaseAnsweredAnswer ==
    ASSUME IInv, NEW c \in Calls, ReleaseAnswered(c)
    PROVE  reply'[c].status = Ledger!ReleaseStatus(cmd[c].order)
<1>1. /\ pc[c] = "read"
      /\ Projected[cmd[c].order].status = Existing(c).status
    BY AnswerOfLedger DEF ReleaseAnswered
<1>2. reply'[c] = IF Existing(c).status = "NONE" THEN Refusal("ReservationNotFoundError")
                  ELSE toReleaseResult(Existing(c), TRUE)
    BY ReplyOfStep DEF ReleaseAnswered
<1>3. /\ Refusal("ReservationNotFoundError").status = "NOT_FOUND"
      /\ toReleaseResult(Existing(c), TRUE).status = "OK"
    BY DEF Refusal, toGrpcError, toReleaseResult
<1> QED BY <1>1, <1>2, <1>3 DEF Ledger!ReleaseStatus, Projected

\* A validation that fails on rows locked one by one fails on the stock of this moment.
LEMMA ReserveRejectAnswer ==
    ASSUME IInv, NEW c \in Calls, ReserveReject(c)
    PROVE  reply'[c].status = Ledger!ReserveStatus(cmd[c].order, cmd[c].items)
<1> DEFINE items == cmd[c].items
<1>1. /\ pc[c] = "lockParts" /\ cmd[c].op = "reserve"
      /\ DOMAIN seen[c] = DOMAIN items \cap Parts
      /\ MissingParts(c) \cup Shortages(c) # {}
      /\ Projected[cmd[c].order].status = "NONE"
    BY AnswerOfLedger
    DEF ReserveReject, IInv, NoStaleOperation, Transactions, Locked, Unlocked, Rows, Lines
<1>2. Shortages(c) = {p \in DOMAIN items \cap Parts : stock[p] < items[p]}
    BY <1>1 DEF Shortages, IInv, NoStaleRow
<1>3. reply'[c] = Refusal(IF MissingParts(c) # {} THEN "PartsNotFoundError"
                                                 ELSE "InsufficientStockError")
    BY ReplyOfStep DEF ReserveReject
<1>4. /\ Refusal("PartsNotFoundError").status = "NOT_FOUND"
      /\ Refusal("InsufficientStockError").status = "FAILED_PRECONDITION"
    BY DEF Refusal, toGrpcError
<1> QED
    BY <1>1, <1>2, <1>3, <1>4
    DEF Ledger!ReserveStatus, Ledger!Missing, Ledger!Short, Projected, MissingParts

LEMMA CommitAnswer ==
    ASSUME IInv, NEW c \in Calls, Commit(c)
    PROVE  reply'[c].status = IF cmd[c].op = "reserve"
                              THEN Ledger!ReserveStatus(cmd[c].order, cmd[c].items)
                              ELSE Ledger!ReleaseStatus(cmd[c].order)
<1>1. /\ pc[c] = "write" /\ Projected[cmd[c].order].status = Existing(c).status
      /\ reply'[c].status = "OK"
    BY AnswerOfLedger, ReplyOfStep DEF Commit, Publish, toReserveResult, toReleaseResult
<1>2. CASE cmd[c].op = "reserve"
    <2> DEFINE items == cmd[c].items
    <2>1. /\ Existing(c).status = "NONE" /\ items \in Payloads
          /\ DOMAIN items \ Parts = {} /\ DOMAIN seen[c] = DOMAIN items \cap Parts
          /\ \A p \in DOMAIN seen[c] : seen[c][p] >= items[p] /\ seen[c][p] = stock[p]
        BY <1>1, <1>2 DEF IInv, NoStaleOperation, NoStaleRow, Transactions, Locked, Validated,
           MissingParts, Rows, Lines, Commands, ReserveCommands, ReleaseCommands
    <2>2. {p \in DOMAIN items \cap Parts : stock[p] < items[p]} = {}
        <3> SUFFICES ASSUME NEW p \in DOMAIN items \cap Parts PROVE ~(stock[p] < items[p])
            OBVIOUS
        <3>1. stock[p] \in Nat /\ items[p] \in Nat
            BY <2>1, QuantitiesArePositive DEF IInv, TypeOK
        <3> QED BY <2>1, <3>1
    <2> QED
        BY <1>1, <1>2, <2>1, <2>2
        DEF Ledger!ReserveStatus, Ledger!Missing, Ledger!Short, Projected
<1>3. CASE cmd[c].op # "reserve"
    <2>1. Existing(c).status = "RESERVED"
        BY <1>1, <1>3 DEF IInv, NoStaleOperation
    <2> QED BY <1>1, <1>3, <2>1 DEF Ledger!ReleaseStatus, Projected
<1> QED BY <1>2, <1>3

AnsweredAsLedger ==
    \A c \in Calls :
        reply'[c] # reply[c] /\ reply'[c].status # "INTERNAL" =>
            reply'[c].status = IF cmd[c].op = "reserve"
                               THEN Ledger!ReserveStatus(cmd[c].order, cmd[c].items)
                               ELSE Ledger!ReleaseStatus(cmd[c].order)

LEMMA StepAnswersAsLedger == IInv /\ [Next]_vars => [AnsweredAsLedger]_vars
<1> SUFFICES ASSUME IInv, Next PROVE AnsweredAsLedger
    OBVIOUS
<1>1. ASSUME NEW c \in Calls, NEW r, EndTransaction(c, r),
             \/ r.status = "INTERNAL"
             \/ reply'[c].status = IF cmd[c].op = "reserve"
                                   THEN Ledger!ReserveStatus(cmd[c].order, cmd[c].items)
                                   ELSE Ledger!ReleaseStatus(cmd[c].order)
      PROVE  AnsweredAsLedger
    BY <1>1, ReplyOfStep DEF AnsweredAsLedger
<1>2. Refusal("PrismaError").status = "INTERNAL"
    BY DEF Refusal, toGrpcError
<1>3. ASSUME NEW c \in Calls, Step(c) PROVE AnsweredAsLedger
    <2>1. CASE ReserveOnExisting(c)
        BY <1>1, <2>1, ReserveOnExistingAnswer DEF ReserveOnExisting
    <2>2. CASE ReserveReject(c)
        BY <1>1, <2>2, ReserveRejectAnswer DEF ReserveReject
    <2>3. CASE ReleaseAnswered(c)
        BY <1>1, <2>3, ReleaseAnsweredAnswer DEF ReleaseAnswered
    <2>4. CASE Commit(c)
        BY <1>1, <2>4, CommitAnswer DEF Commit
    <2>5. CASE UNCHANGED reply
        BY <2>5 DEF AnsweredAsLedger
    <2> QED
        BY <1>3, <2>1, <2>2, <2>3, <2>4, <2>5
        DEF Step, LockOrder, ReserveOnNone, ReserveAccept, ReleaseOnReserved, ReleaseAccept,
            LockPart, UpdatePart
<1>4. ASSUME NEW c \in Calls, Rollback(c) \/ CommitAckLost(c) PROVE AnsweredAsLedger
    BY <1>1, <1>2, <1>4 DEF Rollback, CommitAckLost
<1>5. ASSUME NEW c \in Calls, NEW command \in Commands, Start(c, command) PROVE AnsweredAsLedger
    BY <1>5 DEF Start, AnsweredAsLedger
<1> QED BY <1>3, <1>4, <1>5 DEF Next

\* Every definite answer is the atomic ledger's answer in the state it is given in.
THEOREM Linearization == Spec => Linearizable
BY StepAnswersAsLedger, Invariance, PTL DEF Spec, Linearizable, AnsweredAsLedger

-----------------------------------------------------------------------------
(* Stored evidence *)

\* An OK answer is its call's last word, and rests on an operation that stays.
Backed(c) ==
    reply[c].status = "OK" =>
        /\ pc[c] = "done"
        /\ cmd[c].op = "reserve" =>
               Existing(c).status # "NONE" /\ reply[c].before = Existing(c).reservedBefore
        /\ cmd[c].op # "reserve" =>
               Existing(c).status = "RELEASED" /\ reply[c].before = Existing(c).releasedBefore
OneMaker ==
    \A c, d \in Calls :
        /\ c # d
        /\ cmd[c].op = cmd[d].op /\ cmd[c].order = cmd[d].order
        /\ reply[c].status = "OK" /\ reply[d].status = "OK"
        => reply[c].replayed \/ reply[d].replayed
AInv == (\A c \in Calls : Backed(c)) /\ OneMaker

LEMMA InitAInv == Init => AInv
BY DEF Init, AInv, Backed, OneMaker, NoReply

\* A call that is answered without writing.
LEMMA EndKeepsAInv ==
    ASSUME IInv, AInv, NEW c \in Calls, NEW r, EndTransaction(c, r),
           UNCHANGED <<ledger, cmd>>,
           r.status = "OK" =>
               /\ r.replayed
               /\ cmd[c].op = "reserve" =>
                      Existing(c).status # "NONE" /\ r.before = Existing(c).reservedBefore
               /\ cmd[c].op # "reserve" =>
                      Existing(c).status = "RELEASED" /\ r.before = Existing(c).releasedBefore
    PROVE  AInv'
<1>1. /\ reply'[c] = r /\ pc'[c] = "done"
      /\ \A d \in Calls \ {c} : reply'[d] = reply[d] /\ pc'[d] = pc[d]
    BY DEF IInv, TypeOK, EndTransaction
<1>2. \A d \in Calls : Backed(d)'
    BY <1>1 DEF AInv, Backed, Existing
<1>3. OneMaker'
    BY <1>1 DEF AInv, OneMaker
<1> QED BY <1>2, <1>3 DEF AInv

\* A commit keeps what earlier answers rest on: a reserve finds no operation, a
\* release finds one that is not released and keeps the evidence of its reserve.
LEMMA CommitKeepsAInv ==
    ASSUME IInv, AInv, NEW c \in Calls, NEW r, Publish(c), EndTransaction(c, r),
           \/ r.status # "OK"
           \/ r = IF cmd[c].op = "reserve" THEN toReserveResult(NewOperation(c), FALSE)
                                           ELSE toReleaseResult(NewOperation(c), FALSE)
    PROVE  AInv'
<1>1. /\ reply'[c] = r /\ pc'[c] = "done" /\ pc[c] = "write" /\ cmd' = cmd
      /\ \A d \in Calls \ {c} : reply'[d] = reply[d] /\ pc'[d] = pc[d]
    BY DEF IInv, TypeOK, EndTransaction, Publish
<1>2. /\ Existing(c)' = NewOperation(c)
      /\ \A d \in Calls : pc[d] # "idle" /\ cmd[d].order # cmd[c].order =>
                              Existing(d)' = Existing(d)
      /\ \A d \in Calls : cmd[d].order = cmd[c].order => Existing(d) = Existing(c)
      /\ \A d \in Calls : cmd[d].order = cmd[c].order => Existing(d)' = NewOperation(c)
    <2>1. ASSUME NEW d \in Calls, pc[d] # "idle", cmd[d].order # cmd[c].order
          PROVE  Existing(d)' = Existing(d)
        <3>1. cmd[d].order \in OrderIds
            BY <2>1, AnswerOfLedger
        <3> QED BY <1>1, <2>1, <3>1, PublishWrites DEF Existing, IInv, TypeOK
    <2>2. ledger'[cmd[c].order] = NewOperation(c)
        BY PublishWrites DEF IInv, TypeOK
    <2> QED BY <1>1, <2>1, <2>2 DEF Existing
<1>3. CASE cmd[c].op = "reserve"
    <2>1. /\ Existing(c).status = "NONE"
          /\ NewOperation(c).status = "RESERVED"
        BY <1>1, <1>3 DEF IInv, NoStaleOperation, NewOperation, ReservedOperation
    <2>2. \A d \in Calls \ {c} : cmd[d].order = cmd[c].order => reply[d].status # "OK"
        BY <1>2, <2>1 DEF AInv, Backed
    <2>3. r.status = "OK" => r.before = NewOperation(c).reservedBefore
        BY <1>3 DEF toReserveResult
    <2>4. \A d \in Calls : Backed(d)'
        BY <1>1, <1>2, <1>3, <2>1, <2>2, <2>3 DEF AInv, Backed
    <2>5. OneMaker'
        BY <1>1, <2>2 DEF AInv, OneMaker
    <2> QED BY <2>4, <2>5 DEF AInv
<1>4. CASE cmd[c].op # "reserve"
    <2>1. /\ Existing(c).status = "RESERVED" /\ Existing(c) = found[c]
          /\ NewOperation(c).status = "RELEASED"
          /\ NewOperation(c).reservedBefore = Existing(c).reservedBefore
        <3>1. Existing(c) = found[c] /\ found[c].status = "RESERVED" /\ IsOperation(found[c])
            BY <1>1, <1>4 DEF IInv, TypeOK, NoStaleOperation
        <3> QED BY <1>4, <3>1 DEF NewOperation, ReleasedOperation, IsOperation
    <2>2. \A d \in Calls \ {c} :
              cmd[d].order = cmd[c].order /\ cmd[d].op # "reserve" => reply[d].status # "OK"
        BY <1>2, <2>1 DEF AInv, Backed
    <2>3. r.status = "OK" => r.before = NewOperation(c).releasedBefore
        BY <1>4 DEF toReleaseResult
    <2>4. \A d \in Calls : Backed(d)'
        BY <1>1, <1>2, <1>4, <2>1, <2>2, <2>3 DEF AInv, Backed
    <2>5. OneMaker'
        BY <1>1, <1>4, <2>2 DEF AInv, OneMaker
    <2> QED BY <2>4, <2>5 DEF AInv
<1> QED BY <1>3, <1>4

LEMMA NextKeepsAInv == IInv /\ AInv /\ [Next]_vars => AInv'
<1> SUFFICES ASSUME IInv, AInv, [Next]_vars PROVE AInv'
    OBVIOUS
<1> DEFINE NotOK(e) == Refusal(e).status # "OK"
<1>1. /\ NotOK("OrderIdConflictError") /\ NotOK("ReservationAlreadyReleasedError")
      /\ NotOK("PartsNotFoundError") /\ NotOK("InsufficientStockError")
      /\ NotOK("ReservationNotFoundError") /\ NotOK("PrismaError")
    BY DEF Refusal, toGrpcError
<1>2. ASSUME NEW c \in Calls, ReserveOnExisting(c) PROVE AInv'
    BY <1>1, <1>2, EndKeepsAInv DEF ReserveOnExisting, toReserveResult
<1>3. ASSUME NEW c \in Calls, ReserveReject(c) PROVE AInv'
    BY <1>1, <1>3, EndKeepsAInv DEF ReserveReject
<1>4. ASSUME NEW c \in Calls, ReleaseAnswered(c) PROVE AInv'
    <2>1. pc[c] = "read" /\ Existing(c).status \in {"NONE", "RELEASED"} /\ cmd[c].op = "release"
        BY <1>4, AnswerOfLedger DEF ReleaseAnswered
    <2> QED BY <1>1, <1>4, <2>1, EndKeepsAInv DEF ReleaseAnswered, toReleaseResult
<1>5. ASSUME NEW c \in Calls, Rollback(c) PROVE AInv'
    BY <1>1, <1>5, EndKeepsAInv DEF Rollback
<1>6. ASSUME NEW c \in Calls, Commit(c) PROVE AInv'
    BY <1>6, CommitKeepsAInv DEF Commit
<1>7. ASSUME NEW c \in Calls, CommitAckLost(c) PROVE AInv'
    BY <1>1, <1>7, CommitKeepsAInv DEF CommitAckLost
<1>8. ASSUME NEW c \in Calls, pc[c] # "done", UNCHANGED <<ledger, reply>>,
             \A d \in Calls \ {c} : pc'[d] = pc[d] /\ cmd'[d] = cmd[d]
      PROVE  AInv'
    BY <1>8 DEF AInv, Backed, OneMaker, Existing
<1>9. ASSUME NEW c \in Calls, NEW command \in Commands, Start(c, command) PROVE AInv'
    BY <1>8, <1>9 DEF Start, IInv, TypeOK
<1>10. ASSUME NEW c \in Calls,
              \/ LockOrder(c) \/ ReserveOnNone(c) \/ ReserveAccept(c) \/ ReleaseOnReserved(c)
              \/ ReleaseAccept(c) \/ LockPart(c) \/ UpdatePart(c)
       PROVE  AInv'
    BY <1>8, <1>10 DEF LockOrder, ReserveOnNone, ReserveAccept, ReleaseOnReserved, ReleaseAccept,
                       LockPart, UpdatePart, IInv, TypeOK
<1>11. CASE UNCHANGED vars
    BY <1>11 DEF vars, AInv, Backed, OneMaker, Existing
<1> QED
    BY <1>2, <1>3, <1>4, <1>5, <1>6, <1>7, <1>9, <1>10, <1>11 DEF Next, Step

\* An OK answer, first or replayed, carries the evidence stored for its order; of
\* all the calls answered OK for one operation on one order, one made the change.
THEOREM AnswersKept == Spec => []AnswersMatchLedger
<1>1. IInv /\ AInv => AnswersMatchLedger
    <2> SUFFICES ASSUME IInv, AInv PROVE AnswersMatchLedger
        OBVIOUS
    <2> QED BY DEF AInv, Backed, OneMaker, AnswersMatchLedger
<1> QED BY <1>1, InitAInv, NextKeepsAInv, Invariance, PTL DEF Spec

-----------------------------------------------------------------------------
(* Locks: reserve and release lock the rows of their parts in the order of *)
(* the ids, after the order's advisory lock.                               *)

\* Every row a call still has to lock comes after those it holds.
LocksInOrder ==
    \A c \in Calls : pc[c] = "lockParts" =>
        \A p \in DOMAIN seen[c], q \in Unlocked(c) : p < q

LEMMA InitLocksInOrder == Init => LocksInOrder
BY DEF Init, LocksInOrder

LEMMA LockPartKeepsOrder ==
    ASSUME IInv, LocksInOrder, NEW c \in Calls, LockPart(c)
    PROVE  LocksInOrder'
<1> DEFINE n == NextRow(c)
<1>1. /\ n \in Unlocked(c) /\ n \in Parts /\ \A q \in Unlocked(c) : n <= q
      /\ pc[c] = "lockParts" /\ UNCHANGED <<pc, cmd, found>>
      /\ seen' = [seen EXCEPT ![c] = With(@, n, stock[n])]
    BY NextRowIsUnlocked DEF LockPart
<1>2. IsRows(seen[c]) /\ stock[n] \in Nat /\ DOMAIN seen = Calls
    BY <1>1 DEF IInv, TypeOK
<1> HIDE DEF n
<1>3. DOMAIN With(seen[c], n, stock[n]) = DOMAIN seen[c] \cup {n}
    BY <1>1, <1>2, WithRow
<1>4. DOMAIN seen'[c] = DOMAIN seen[c] \cup {n} /\ \A d \in Calls \ {c} : seen'[d] = seen[d]
    BY <1>1, <1>2, <1>3
<1>5. Unlocked(c)' = Unlocked(c) \ {n} /\ Unlocked(c) \subseteq Nat
    BY <1>1, <1>4, CatalogueAssumption DEF Unlocked, Rows, Lines
<1>6. \A p \in DOMAIN seen'[c], q \in Unlocked(c)' : p < q
    <2> SUFFICES ASSUME NEW p \in DOMAIN seen'[c], NEW q \in Unlocked(c)' PROVE p < q
        OBVIOUS
    <2>1. q \in Unlocked(c) /\ q # n /\ n <= q /\ q \in Nat /\ n \in Nat
        BY <1>1, <1>5
    <2>2. CASE p = n
        BY <2>1, <2>2
    <2>3. CASE p \in DOMAIN seen[c]
        BY <1>1, <2>1, <2>3 DEF LocksInOrder
    <2> QED BY <1>4, <2>2, <2>3
<1>7. \A d \in Calls \ {c} : Unlocked(d)' = Unlocked(d)
    BY <1>1, <1>4 DEF Unlocked, Rows, Lines
<1> QED BY <1>1, <1>4, <1>6, <1>7 DEF LocksInOrder

LEMMA NextKeepsOrder == IInv /\ LocksInOrder /\ [Next]_vars => LocksInOrder'
<1> SUFFICES ASSUME IInv, LocksInOrder, [Next]_vars PROVE LocksInOrder'
    OBVIOUS
\* A call that starts to lock holds nothing; one that is elsewhere is not concerned.
<1>1. ASSUME NEW c \in Calls, pc'[c] = "lockParts" => DOMAIN seen'[c] = {},
             \A d \in Calls \ {c} : /\ pc'[d] = pc[d] /\ cmd'[d] = cmd[d] /\ found'[d] = found[d]
                                    /\ seen'[d] = seen[d]
      PROVE  LocksInOrder'
    BY <1>1 DEF LocksInOrder, Unlocked, Rows, Lines
<1>2. ASSUME NEW c \in Calls, NEW r, EndTransaction(c, r), UNCHANGED cmd PROVE LocksInOrder'
    BY <1>1, <1>2 DEF EndTransaction, IInv, TypeOK
<1>3. ASSUME NEW c \in Calls, Rollback(c) \/ Commit(c) \/ CommitAckLost(c) \/ ReserveOnExisting(c)
                              \/ ReserveReject(c) \/ ReleaseAnswered(c)
      PROVE  LocksInOrder'
    BY <1>2, <1>3
    DEF Rollback, Commit, CommitAckLost, ReserveOnExisting, ReserveReject, ReleaseAnswered, Publish
<1>4. ASSUME NEW c \in Calls, ReserveOnNone(c) \/ ReleaseOnReserved(c) PROVE LocksInOrder'
    BY <1>1, <1>4 DEF ReserveOnNone, ReleaseOnReserved, IInv, TypeOK, Transactions, Locked
<1>5. ASSUME NEW c \in Calls, LockOrder(c) \/ ReserveAccept(c) \/ ReleaseAccept(c) \/ UpdatePart(c)
      PROVE  LocksInOrder'
    BY <1>1, <1>5 DEF LockOrder, ReserveAccept, ReleaseAccept, UpdatePart, IInv, TypeOK
<1>6. ASSUME NEW c \in Calls, NEW command \in Commands, Start(c, command) PROVE LocksInOrder'
    BY <1>1, <1>6 DEF Start, IInv, TypeOK
<1>7. CASE UNCHANGED vars
    BY <1>7 DEF vars, LocksInOrder, Unlocked, Rows, Lines
<1> QED
    BY <1>3, <1>4, <1>5, <1>6, <1>7, LockPartKeepsOrder DEF Next, Step

\* Among blocked calls, the one whose next row is the last waits for none of them.
LEMMA OrderPreventsDeadlock == IInv /\ LocksInOrder => NoDeadlock
<1> SUFFICES ASSUME IInv, LocksInOrder, NEW blocked \in SUBSET Calls, blocked # {}
             PROVE  \E c \in blocked : WaitsFor(c) \cap blocked = {}
    BY DEF NoDeadlock
<1> DEFINE Locking == {c \in blocked : pc[c] = "lockParts" /\ Unlocked(c) # {}}
           Above(c) == {p \in Parts : p > NextRow(c)}
<1>1. CASE \E c \in blocked : pc[c] # "lockOrder" /\ c \notin Locking
    BY <1>1 DEF WaitsFor
<1>2. CASE \A c \in blocked : pc[c] = "lockOrder"
    BY <1>2 DEF WaitsFor, OwnsOrderLock
<1>3. CASE /\ \A c \in blocked : pc[c] = "lockOrder" \/ c \in Locking
           /\ Locking # {}
    <2>1. IsWellFoundedOn(StrictSubsetOrdering(Parts), SUBSET Parts)
        BY CatalogueAssumption, FS_StrictSubsetOrderingWellFounded, FS_FiniteSubsetsOfFinite
    <2>2. PICK least \in {Above(c) : c \in Locking} :
              \A other \in {Above(c) : c \in Locking} :
                  ~(<<other, least>> \in StrictSubsetOrdering(Parts))
        <3> DEFINE Sets == {Above(c) : c \in Locking}
        <3>1. Sets \subseteq SUBSET Parts /\ Sets # {}
            BY <1>3
        <3> HIDE DEF Sets
        <3>2. \E least \in Sets : \A other \in Sets :
                  ~(<<other, least>> \in StrictSubsetOrdering(Parts))
            BY <2>1, <3>1, WFMin
        <3> QED BY <3>2 DEF Sets
    <2>3. PICK c \in Locking : least = Above(c)
        OBVIOUS
    <2>4. ASSUME NEW d \in WaitsFor(c) \cap blocked PROVE FALSE
        <3>1. d \in Calls /\ NextRow(c) \in DOMAIN seen[d] /\ NextRow(c) \in Parts
            BY <2>3, NextRowIsUnlocked DEF WaitsFor, OwnsRow
        <3>2. d \in Locking
            BY <1>3, <3>1 DEF IInv, Transactions, Locked
        <3>3. NextRow(d) \in Parts /\ NextRow(c) < NextRow(d)
            BY <3>1, <3>2, NextRowIsUnlocked DEF LocksInOrder
        <3>4. Above(d) \subseteq Above(c) /\ NextRow(d) \in Above(c) /\ NextRow(d) \notin Above(d)
            <4>1. Parts \subseteq Nat /\ NextRow(c) \in Nat /\ NextRow(d) \in Nat
                BY <3>1, <3>3, CatalogueAssumption
            <4>2. ASSUME NEW p \in Above(d) PROVE p \in Above(c)
                <5>1. p \in Nat /\ p \in Parts /\ p > NextRow(d)
                    BY <4>1
                <5> QED BY <3>3, <4>1, <5>1
            <4>3. NextRow(d) \in Above(c) /\ NextRow(d) \notin Above(d)
                BY <3>3, <4>1
            <4> QED BY <4>2, <4>3
        <3>5. <<Above(d), Above(c)>> \in StrictSubsetOrdering(Parts)
            BY <3>4 DEF StrictSubsetOrdering
        <3> QED BY <2>2, <2>3, <3>2, <3>5
    <2> QED BY <2>3, <2>4
<1> QED BY <1>1, <1>2, <1>3

\* No set of calls waits for itself: some call of it is not blocked by the others.
THEOREM DeadlockFree == Spec => []NoDeadlock
BY InitLocksInOrder, NextKeepsOrder, OrderPreventsDeadlock, Invariance, PTL DEF Spec
=============================================================================
