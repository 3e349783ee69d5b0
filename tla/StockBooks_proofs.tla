-------------------------- MODULE StockBooks_proofs --------------------------
(***************************************************************************)
(* The books of StockService balance, for every catalogue, payload, number *)
(* of calls and of failures: the stock of a part is what was seeded minus  *)
(* what the reserved orders took, and the recorded evidence is a chain of  *)
(* movements from one to the other.  With resets of the seeder beside the  *)
(* calls, the balance is off by exactly what orders give back that were    *)
(* reserved before the last one.                                           *)
(***************************************************************************)
EXTENDS StockService_proofs, Seeding

-----------------------------------------------------------------------------
(* Sums.  The fold of the community modules takes the elements of a set in *)
(* an order of its own; what is shown is that the order does not matter.   *)
(* Induction over a finite set is by a least counterexample.               *)

LEMMA LeastSet ==
    ASSUME NEW S, IsFiniteSet(S), NEW Bad \in SUBSET SUBSET S, Bad # {}
    PROVE  \E T \in Bad : \A U \in SUBSET T : U # T => U \notin Bad
<1>1. IsWellFoundedOn(StrictSubsetOrdering(S), SUBSET S)
    BY FS_StrictSubsetOrderingWellFounded, FS_FiniteSubsetsOfFinite
<1>2. PICK T \in Bad : \A U \in Bad : ~(<<U, T>> \in StrictSubsetOrdering(S))
    BY <1>1, WFMin
<1>3. ASSUME NEW U \in SUBSET T, U # T PROVE U \notin Bad
    <2>1. U \in SUBSET S /\ T \in SUBSET S
        OBVIOUS
    <2>2. <<U, T>> \in StrictSubsetOrdering(S)
        BY <1>3, <2>1 DEF StrictSubsetOrdering
    <2> QED BY <1>2, <2>2
<1> QED BY <1>3

First(s) == CHOOSE x \in s : TRUE

\* The function that the fold over S evaluates at S.
IsSum(iter, f, S) ==
    iter = [s \in SUBSET S |-> IF s = {} THEN 0 ELSE f[First(s)] + iter[s \ {First(s)}]]

LEMMA FirstIn == ASSUME NEW s, s # {} PROVE First(s) \in s
BY DEF First

\* It is the same function for a set and its subsets.
LEMMA SumIsUnique ==
    ASSUME NEW S, IsFiniteSet(S), NEW T \in SUBSET S, NEW f, NEW g, NEW h,
           IsSum(g, f, S), IsSum(h, f, T)
    PROVE  \A s \in SUBSET T : g[s] = h[s]
<1> DEFINE Bad == {s \in SUBSET T : g[s] # h[s]}
<1>1. SUFFICES ASSUME Bad # {} PROVE FALSE
    OBVIOUS
<1>2. PICK s \in Bad : \A u \in SUBSET s : u # s => u \notin Bad
    <2>1. Bad \in SUBSET SUBSET S
        OBVIOUS
    <2> HIDE DEF Bad
    <2> QED BY <1>1, <2>1, LeastSet
<1>3. s \in SUBSET T /\ s \in SUBSET S /\ g[s] # h[s]
    OBVIOUS
<1>4. /\ g[s] = IF s = {} THEN 0 ELSE f[First(s)] + g[s \ {First(s)}]
      /\ h[s] = IF s = {} THEN 0 ELSE f[First(s)] + h[s \ {First(s)}]
    BY <1>3 DEF IsSum
<1>5. CASE s = {}
    BY <1>3, <1>4, <1>5
<1>6. CASE s # {}
    <2>1. s \ {First(s)} \in SUBSET s /\ s \ {First(s)} # s
        BY <1>6, FirstIn
    <2>2. g[s \ {First(s)}] = h[s \ {First(s)}]
        BY <1>2, <1>3, <2>1
    <2> QED BY <1>3, <1>4, <1>6, <2>2
<1> QED BY <1>5, <1>6

Fold(f, S) == CHOOSE iter : IsSum(iter, f, S)
Sum(f, S) == SumFunctionOnSet(f, S)

LEMMA SumIsFold == ASSUME NEW f, NEW S PROVE Sum(f, S) = Fold(f, S)[S]
BY DEF Sum, Fold, SumFunctionOnSet, FoldFunctionOnSet, MapThenFoldSet, IsSum, First

\* There is such a function: on a least set without one it would be made of
\* those of its subsets.
LEMMA FoldExists ==
    ASSUME NEW S, IsFiniteSet(S), NEW f
    PROVE  IsSum(Fold(f, S), f, S)
<1> DEFINE Bad == {s \in SUBSET S : ~IsSum(Fold(f, s), f, s)}
<1>1. SUFFICES ASSUME Bad # {} PROVE FALSE
    OBVIOUS
<1>2. PICK T \in Bad : \A u \in SUBSET T : u # T => u \notin Bad
    <2>1. Bad \in SUBSET SUBSET S
        OBVIOUS
    <2> HIDE DEF Bad
    <2> QED BY <1>1, <2>1, LeastSet
<1>3. T \in SUBSET S /\ ~IsSum(Fold(f, T), f, T)
    OBVIOUS
<1>4. \A u \in SUBSET T : u # T => IsSum(Fold(f, u), f, u)
    BY <1>2, <1>3
<1> HIDE DEF Bad
<1> DEFINE it == [s \in SUBSET T |-> IF s = {} THEN 0
                                     ELSE f[First(s)] + Sum(f, s \ {First(s)})]
<1>5. ASSUME NEW u \in SUBSET T, u # T PROVE it[u] = Sum(f, u)
    <2>1. Sum(f, u) = IF u = {} THEN 0 ELSE f[First(u)] + Fold(f, u)[u \ {First(u)}]
        BY <1>4, <1>5, SumIsFold DEF IsSum
    <2>2. CASE u # {}
        <3> DEFINE v == u \ {First(u)}
        <3>1. v \in SUBSET T /\ v # T /\ v \in SUBSET u
            BY <1>5, <2>2, FirstIn
        <3>2. IsFiniteSet(u)
            BY <1>3, FS_Subset
        <3>3. Fold(f, u)[v] = Fold(f, v)[v]
            BY <1>4, <1>5, <3>1, <3>2, SumIsUnique
        <3> QED BY <2>1, <2>2, <3>3, SumIsFold
    <2> QED BY <2>1, <2>2
<1>6. IsSum(it, f, T)
    <2>1. ASSUME NEW s \in SUBSET T, s # {}
          PROVE  it[s \ {First(s)}] = Sum(f, s \ {First(s)})
        <3>1. s \ {First(s)} \in SUBSET T /\ s \ {First(s)} # T
            BY <2>1, FirstIn
        <3> QED BY <3>1, <1>5
    <2>2. it = [s \in SUBSET T |-> IF s = {} THEN 0 ELSE f[First(s)] + it[s \ {First(s)}]]
        BY <2>1
    <2> QED BY <2>2 DEF IsSum
<1>7. IsSum(Fold(f, T), f, T)
    BY <1>6 DEF Fold
<1> QED BY <1>3, <1>7

LEMMA SumUnfolds ==
    ASSUME NEW S, IsFiniteSet(S), NEW f
    PROVE  Sum(f, S) = IF S = {} THEN 0 ELSE f[First(S)] + Sum(f, S \ {First(S)})
<1>1. Sum(f, S) = IF S = {} THEN 0 ELSE f[First(S)] + Fold(f, S)[S \ {First(S)}]
    <2> DEFINE it == Fold(f, S)
    <2>1. IsSum(it, f, S) /\ Sum(f, S) = it[S] /\ S \in SUBSET S
        BY FoldExists, SumIsFold
    <2> HIDE DEF it
    <2>2. it[S] = IF S = {} THEN 0 ELSE f[First(S)] + it[S \ {First(S)}]
        BY <2>1 DEF IsSum
    <2> QED BY <2>1, <2>2 DEF it
<1>2. CASE S # {}
    <2> DEFINE v == S \ {First(S)}
    <2>1. v \in SUBSET S /\ IsFiniteSet(v)
        BY FS_Subset
    <2> HIDE DEF v
    <2>2. Fold(f, S)[v] = Fold(f, v)[v]
        BY <2>1, FoldExists, SumIsUnique
    <2> QED BY <1>1, <1>2, <2>2, SumIsFold DEF v
<1> QED BY <1>1, <1>2

\* A sum over no element; a sum without one of its elements.
LEMMA SumEmpty == ASSUME NEW f PROVE Sum(f, {}) = 0
BY SumUnfolds, FS_EmptySet

LEMMA SumIsInt ==
    ASSUME NEW S, IsFiniteSet(S), NEW f, \A x \in S : f[x] \in Int
    PROVE  Sum(f, S) \in Int
<1> DEFINE Bad == {s \in SUBSET S : Sum(f, s) \notin Int}
<1>1. SUFFICES ASSUME Bad # {} PROVE FALSE
    <2>1. S \in SUBSET S
        OBVIOUS
    <2> QED BY <2>1
<1>2. PICK T \in Bad : \A u \in SUBSET T : u # T => u \notin Bad
    <2>1. Bad \in SUBSET SUBSET S
        OBVIOUS
    <2> HIDE DEF Bad
    <2> QED BY <1>1, <2>1, LeastSet
<1>3. T \in SUBSET S /\ Sum(f, T) \notin Int /\ IsFiniteSet(T)
    BY FS_Subset
<1>4. CASE T = {}
    BY <1>3, <1>4, SumEmpty
<1>5. CASE T # {}
    <2>1. First(T) \in T /\ T \ {First(T)} \in SUBSET T /\ T \ {First(T)} # T
        BY <1>5, FirstIn
    <2>2. Sum(f, T \ {First(T)}) \in Int /\ f[First(T)] \in Int
        BY <1>2, <1>3, <2>1
    <2>3. Sum(f, T) = f[First(T)] + Sum(f, T \ {First(T)})
        BY <1>3, <1>5, SumUnfolds
    <2> QED BY <1>3, <2>2, <2>3
<1> QED BY <1>4, <1>5

LEMMA SumWithout ==
    ASSUME NEW S, IsFiniteSet(S), NEW f, \A y \in S : f[y] \in Int, NEW x \in S
    PROVE  Sum(f, S) = f[x] + Sum(f, S \ {x})
<1> DEFINE Bad == {s \in SUBSET S : \E y \in s : Sum(f, s) # f[y] + Sum(f, s \ {y})}
<1>1. SUFFICES ASSUME Bad # {} PROVE FALSE
    <2>1. S \in SUBSET S
        OBVIOUS
    <2> QED BY <2>1
<1>2. PICK T \in Bad : \A u \in SUBSET T : u # T => u \notin Bad
    <2>1. Bad \in SUBSET SUBSET S
        OBVIOUS
    <2> HIDE DEF Bad
    <2> QED BY <1>1, <2>1, LeastSet
<1>3. T \in SUBSET S /\ IsFiniteSet(T)
    BY FS_Subset
<1>4. PICK y \in T : Sum(f, T) # f[y] + Sum(f, T \ {y})
    OBVIOUS
<1>5. ASSUME NEW u \in SUBSET T, u # T, NEW z \in u
      PROVE  Sum(f, u) = f[z] + Sum(f, u \ {z})
    BY <1>2, <1>3, <1>5
<1> HIDE DEF Bad
<1> DEFINE w == First(T)
<1>6. w \in T /\ Sum(f, T) = f[w] + Sum(f, T \ {w})
    BY <1>3, FirstIn, SumUnfolds
<1> HIDE DEF w
<1>7. w # y
    BY <1>4, <1>6
<1> DEFINE both == T \ {w, y}
<1>8. /\ (T \ {w}) \ {y} = both /\ (T \ {y}) \ {w} = both
      /\ y \in T \ {w} /\ w \in T \ {y} /\ T \ {w} # T /\ T \ {y} # T
    BY <1>6, <1>7
<1>9. Sum(f, T \ {w}) = f[y] + Sum(f, both) /\ Sum(f, T \ {y}) = f[w] + Sum(f, both)
    BY <1>5, <1>8
<1>10. f[w] \in Int /\ f[y] \in Int /\ Sum(f, both) \in Int
    <2>1. both \in SUBSET S /\ IsFiniteSet(both)
        BY <1>3, FS_Subset
    <2> HIDE DEF both
    <2> QED BY <1>3, <1>6, <2>1, SumIsInt
<1> HIDE DEF both
<1> QED BY <1>4, <1>6, <1>9, <1>10

LEMMA SumOfSame ==
    ASSUME NEW S, IsFiniteSet(S), NEW f, NEW g, \A x \in S : f[x] = g[x]
    PROVE  Sum(f, S) = Sum(g, S)
<1> DEFINE Bad == {s \in SUBSET S : Sum(f, s) # Sum(g, s)}
<1>1. SUFFICES ASSUME Bad # {} PROVE FALSE
    <2>1. S \in SUBSET S
        OBVIOUS
    <2> QED BY <2>1
<1>2. PICK T \in Bad : \A u \in SUBSET T : u # T => u \notin Bad
    <2>1. Bad \in SUBSET SUBSET S
        OBVIOUS
    <2> HIDE DEF Bad
    <2> QED BY <1>1, <2>1, LeastSet
<1>3. T \in SUBSET S /\ Sum(f, T) # Sum(g, T) /\ IsFiniteSet(T)
    BY FS_Subset
<1>4. CASE T = {}
    BY <1>3, <1>4, SumEmpty
<1>5. CASE T # {}
    <2>1. First(T) \in T /\ T \ {First(T)} \in SUBSET T /\ T \ {First(T)} # T
        BY <1>5, FirstIn
    <2>2. Sum(f, T \ {First(T)}) = Sum(g, T \ {First(T)}) /\ f[First(T)] = g[First(T)]
        BY <1>2, <1>3, <2>1
    <2> QED BY <1>3, <1>5, <2>2, SumUnfolds
<1> QED BY <1>4, <1>5

-----------------------------------------------------------------------------
(* What a commit writes in the books: it takes the items of an order, or   *)
(* gives them back, and leaves every other order alone.                    *)

OthersKept(o) == \A x \in OrderIds \ {o} : ledger'[x] = ledger[x]

Takes(o) ==
    /\ ledger[o].status = "NONE" /\ ledger'[o].status = "RESERVED"
    /\ \A p \in DOMAIN ledger'[o].items : /\ p \in Parts
                                          /\ p \in DOMAIN ledger'[o].reservedBefore
                                          /\ ledger'[o].reservedBefore[p] = stock[p]
                                          /\ stock'[p] = stock[p] - ledger'[o].items[p]
    /\ \A p \in Parts \ DOMAIN ledger'[o].items : stock'[p] = stock[p]
    /\ OthersKept(o)

GivesBack(o) ==
    /\ ledger[o].status = "RESERVED" /\ ledger'[o].status = "RELEASED"
    /\ ledger'[o].items = ledger[o].items
    /\ ledger'[o].reservedBefore = ledger[o].reservedBefore
    /\ \A p \in DOMAIN ledger[o].items \cap Parts :
           /\ p \in DOMAIN ledger'[o].releasedBefore
           /\ ledger'[o].releasedBefore[p] = stock[p]
           /\ stock'[p] = stock[p] + ledger[o].items[p]
    /\ \A p \in Parts \ DOMAIN ledger[o].items : stock'[p] = stock[p]
    /\ OthersKept(o)

LEMMA PublishMovesStock ==
    ASSUME IInv, NEW c \in Calls, Publish(c)
    PROVE  \E o \in OrderIds : Takes(o) \/ GivesBack(o)
<1> DEFINE o == cmd[c].order
<1>1. /\ o \in OrderIds /\ cmd[c] \in Commands /\ pc[c] = "write"
      /\ DOMAIN seen[c] = Rows(c)
      /\ \A p \in Rows(c) : stock'[p] = NewValue(c, p)
      /\ \A p \in Parts \ Rows(c) : stock'[p] = stock[p]
      /\ ledger'[o] = NewOperation(c) /\ OthersKept(o)
    BY PublishWrites DEF Publish, IInv, TypeOK, OthersKept
<1>2. \A p \in Rows(c) : seen[c][p] = stock[p]
    BY <1>1 DEF IInv, NoStaleRow
<1>3. CASE cmd[c].op = "reserve"
    <2>1. Lines(c) = cmd[c].items /\ Rows(c) = DOMAIN cmd[c].items \cap Parts
        BY <1>3 DEF Lines, Rows
    <2>2. ledger[o].status = "NONE" /\ DOMAIN cmd[c].items \subseteq Parts
        BY <1>1, <1>3 DEF IInv, NoStaleOperation, Existing, Transactions, Validated, MissingParts
    <2>3. /\ ledger'[o].status = "RESERVED" /\ ledger'[o].items = cmd[c].items
          /\ ledger'[o].reservedBefore = seen[c]
        BY <1>1, <1>3 DEF NewOperation, ReservedOperation
    <2>4. Takes(o)
        BY <1>1, <1>2, <1>3, <2>1, <2>2, <2>3 DEF Takes, NewValue
    <2> QED BY <1>1, <2>4
<1>4. CASE cmd[c].op # "reserve"
    <2>1. ledger[o] = found[c] /\ found[c].status = "RESERVED" /\ IsOperation(found[c])
        BY <1>1, <1>4 DEF IInv, NoStaleOperation, Existing, TypeOK
    <2>2. Lines(c) = ledger[o].items /\ Rows(c) = DOMAIN ledger[o].items \cap Parts
        BY <1>4, <2>1 DEF Lines, Rows
    <2>3. /\ ledger'[o].status = "RELEASED" /\ ledger'[o].items = ledger[o].items
          /\ ledger'[o].reservedBefore = ledger[o].reservedBefore
          /\ ledger'[o].releasedBefore = seen[c]
        BY <1>1, <1>4, <2>1 DEF NewOperation, ReleasedOperation, IsOperation
    <2>4. GivesBack(o)
        BY <1>1, <1>2, <1>4, <2>1, <2>2, <2>3 DEF GivesBack, NewValue
    <2> QED BY <1>1, <2>4
<1> QED BY <1>3, <1>4

\* Every step moves stock with the record of one order, or moves none.
LEMMA StepMovesStock ==
    ASSUME IInv, [Next]_vars
    PROVE  (\E o \in OrderIds : Takes(o) \/ GivesBack(o)) \/ UNCHANGED <<stock, ledger>>
<1>1. ASSUME NEW c \in Calls, Commit(c) \/ CommitAckLost(c)
      PROVE  \E o \in OrderIds : Takes(o) \/ GivesBack(o)
    BY <1>1, PublishMovesStock DEF Commit, CommitAckLost
<1>2. ASSUME NEW c \in Calls, Step(c), ~Commit(c) PROVE UNCHANGED <<stock, ledger>>
    BY <1>2 DEF Step, LockOrder, ReserveOnExisting, ReserveOnNone, ReserveReject, ReserveAccept,
                ReleaseAnswered, ReleaseOnReserved, ReleaseAccept, LockPart, UpdatePart
<1>3. ASSUME NEW c \in Calls, Rollback(c) PROVE UNCHANGED <<stock, ledger>>
    BY <1>3 DEF Rollback
<1>4. ASSUME NEW c \in Calls, NEW command \in Commands, Start(c, command)
      PROVE  UNCHANGED <<stock, ledger>>
    BY <1>4 DEF Start
<1> QED BY <1>1, <1>2, <1>3, <1>4 DEF Next, vars

-----------------------------------------------------------------------------
(* The books *)

Recorded == {o \in OrderIds : ledger[o].status # "NONE"}

\* What is recorded of an order: its parts are in the catalogue, with the stock
\* that its movements of them found.
Evidence(o) ==
    /\ ledger[o].status # "NONE" =>
           DOMAIN ledger[o].items \subseteq Parts \cap DOMAIN ledger[o].reservedBefore
    /\ ledger[o].status = "RELEASED" =>
           DOMAIN ledger[o].items \subseteq DOMAIN ledger[o].releasedBefore

\* Finitely many orders are recorded, so the sums over them mean something.
Records == IsFiniteSet(Recorded) /\ \A o \in OrderIds : Evidence(o)

LEMMA Quantity ==
    ASSUME TypeOK, NEW o \in OrderIds, NEW p \in DOMAIN ledger[o].items
    PROVE  ledger[o].items[p] \in Int
BY QuantitiesArePositive DEF TypeOK, IsOperation

LEMMA InitRecords == Init => Records
<1> SUFFICES ASSUME Init PROVE Records
    OBVIOUS
<1>1. \A o \in OrderIds : ledger[o].status = "NONE"
    BY DEF Init, NoOperation
<1>2. Recorded = {}
    BY <1>1 DEF Recorded
<1> QED BY <1>1, <1>2, FS_EmptySet DEF Records, Evidence

LEMMA MovementKeepsRecords ==
    ASSUME Records, NEW o \in OrderIds, Takes(o) \/ GivesBack(o)
    PROVE  Records'
<1>1. Recorded' = Recorded \cup {o}
    BY DEF Takes, GivesBack, OthersKept, Recorded
<1>2. IsFiniteSet(Recorded)'
    BY <1>1, FS_AddElement DEF Records
<1>3. ASSUME NEW x \in OrderIds PROVE Evidence(x)'
    BY DEF Records, Evidence, Takes, GivesBack, OthersKept
<1> QED BY <1>2, <1>3 DEF Records

-----------------------------------------------------------------------------
(* Units *)

UnitsIn(l, orders, p) == SumFunction([o \in orders |-> l[o].items[p]])

LEMMA UnitsAreSums ==
    ASSUME NEW l, NEW S, NEW p
    PROVE  UnitsIn(l, S, p) = Sum([o \in S |-> l[o].items[p]], S)
BY DEF UnitsIn, SumFunction, Sum

\* The units of a set of orders depend on nothing but those orders' items.
LEMMA UnitsOfSame ==
    ASSUME NEW l, NEW m, NEW S, IsFiniteSet(S), NEW p,
           \A o \in S : l[o].items[p] = m[o].items[p]
    PROVE  UnitsIn(l, S, p) = UnitsIn(m, S, p)
<1> DEFINE f == [o \in S |-> l[o].items[p]]
           g == [o \in S |-> m[o].items[p]]
<1>1. \A o \in S : f[o] = g[o]
    OBVIOUS
<1> HIDE DEF f, g
<1>2. Sum(f, S) = Sum(g, S)
    BY <1>1, SumOfSame
<1> QED BY <1>2, UnitsAreSums DEF f, g

LEMMA UnitsOfNone == ASSUME NEW l, NEW p PROVE UnitsIn(l, {}, p) = 0
BY UnitsAreSums, SumEmpty

\* One order more, one order's units more.
LEMMA UnitsWithout ==
    ASSUME NEW l, NEW S, IsFiniteSet(S), NEW p, \A o \in S : l[o].items[p] \in Int, NEW x \in S
    PROVE  /\ UnitsIn(l, S, p) = l[x].items[p] + UnitsIn(l, S \ {x}, p)
           /\ UnitsIn(l, S \ {x}, p) \in Int
<1> DEFINE f == [o \in S |-> l[o].items[p]]
           g == [o \in S \ {x} |-> l[o].items[p]]
<1>1. /\ \A o \in S : f[o] \in Int
      /\ \A o \in S \ {x} : f[o] = g[o] /\ g[o] \in Int
      /\ f[x] = l[x].items[p]
    OBVIOUS
<1>2. IsFiniteSet(S \ {x})
    BY FS_RemoveElement
<1>3. UnitsIn(l, S, p) = Sum(f, S) /\ UnitsIn(l, S \ {x}, p) = Sum(g, S \ {x})
    BY UnitsAreSums
<1> HIDE DEF f, g
<1>4. Sum(f, S) = f[x] + Sum(f, S \ {x})
    BY <1>1, SumWithout
<1>5. Sum(f, S \ {x}) = Sum(g, S \ {x}) /\ Sum(g, S \ {x}) \in Int
    BY <1>1, <1>2, SumOfSame, SumIsInt
<1> QED BY <1>1, <1>3, <1>4, <1>5

-----------------------------------------------------------------------------
(* Stock.  Some orders, K, do not count while they are reserved, and count *)
(* when they are given back: none without a reset of the seeder, those     *)
(* that were reserved at the last one with it.                             *)

ReservedIn(l, p) == {o \in OrderIds : l[o].status = "RESERVED" /\ p \in DOMAIN l[o].items}
ReleasedIn(l, p) == {o \in OrderIds : l[o].status = "RELEASED" /\ p \in DOMAIN l[o].items}

Balanced(s, l, K, p) ==
    s[p] + UnitsIn(l, ReservedIn(l, p) \ K, p) = InitialStock[p] + UnitsIn(l, K \cap ReleasedIn(l, p), p)

\* The sums are over finite sets of whole numbers.
LEMMA UnitsAreInt ==
    ASSUME NEW l, NEW S, IsFiniteSet(S), NEW p, \A o \in S : l[o].items[p] \in Int
    PROVE  UnitsIn(l, S, p) \in Int
<1> DEFINE f == [o \in S |-> l[o].items[p]]
<1>1. \A o \in S : f[o] \in Int
    OBVIOUS
<1> HIDE DEF f
<1>2. Sum(f, S) \in Int
    BY <1>1, SumIsInt
<1> QED BY <1>2, UnitsAreSums DEF f

LEMMA OrdersAreFinite ==
    ASSUME TypeOK, Records, NEW p, NEW K
    PROVE  /\ IsFiniteSet(ReservedIn(ledger, p) \ K) /\ IsFiniteSet(K \cap ReleasedIn(ledger, p))
           /\ \A o \in ReservedIn(ledger, p) \cup ReleasedIn(ledger, p) : ledger[o].items[p] \in Int
<1>1. /\ ReservedIn(ledger, p) \ K \in SUBSET Recorded
      /\ K \cap ReleasedIn(ledger, p) \in SUBSET Recorded
    BY DEF ReservedIn, ReleasedIn, Recorded
<1>2. \A o \in ReservedIn(ledger, p) \cup ReleasedIn(ledger, p) : ledger[o].items[p] \in Int
    BY Quantity DEF ReservedIn, ReleasedIn
<1> QED BY <1>1, <1>2, FS_Subset DEF Records

LEMMA TakingKeepsBalance ==
    ASSUME TypeOK, TypeOK', Records, NEW o \in OrderIds, Takes(o),
           NEW K, K \cap OrderIds \subseteq Recorded, NEW p \in Parts, Balanced(stock, ledger, K, p)
    PROVE  Balanced(stock', ledger', K, p)
<1> DEFINE A == ReservedIn(ledger, p) \ K
           A2 == ReservedIn(ledger', p) \ K
           B == K \cap ReleasedIn(ledger, p)
           B2 == K \cap ReleasedIn(ledger', p)
<1>1. o \notin K /\ o \notin A /\ B2 = B
    BY DEF Recorded, Takes, OthersKept, ReservedIn, ReleasedIn
<1>2. /\ \A x \in A \cup B : x \in OrderIds /\ x # o /\ ledger[x].items[p] \in Int
      /\ IsFiniteSet(A) /\ IsFiniteSet(B)
    BY <1>1, OrdersAreFinite DEF Takes, ReservedIn, ReleasedIn
<1>3. stock[p] \in Int /\ stock'[p] \in Int /\ InitialStock[p] \in Int
    BY SeedAssumption DEF TypeOK
<1>4. stock[p] + UnitsIn(ledger, A, p) = InitialStock[p] + UnitsIn(ledger, B, p)
    BY DEF Balanced
<1>5. CASE p \in DOMAIN ledger'[o].items
    <2>1. A2 = A \cup {o} /\ stock'[p] = stock[p] - ledger'[o].items[p]
        BY <1>1, <1>5 DEF Takes, OthersKept, ReservedIn
    <2>2. \A x \in A \cup B : ledger'[x].items[p] = ledger[x].items[p]
        BY <1>2 DEF Takes, OthersKept
    <2>3. ledger'[o].items[p] \in Int
        BY <1>5, QuantitiesArePositive DEF TypeOK, IsOperation
    <2> HIDE DEF A, A2, B, B2
    <2>4. UnitsIn(ledger', A, p) = UnitsIn(ledger, A, p) /\ UnitsIn(ledger', B, p) = UnitsIn(ledger, B, p)
        BY <1>2, <2>2, UnitsOfSame
    <2>5. /\ IsFiniteSet(A2) /\ o \in A2 /\ A2 \ {o} = A
          /\ \A x \in A2 : ledger'[x].items[p] \in Int
        BY <1>1, <1>2, <2>1, <2>2, <2>3, FS_AddElement
    <2>6. UnitsIn(ledger', A2, p) = ledger'[o].items[p] + UnitsIn(ledger', A, p)
        BY <2>5, UnitsWithout
    <2>7. UnitsIn(ledger, A, p) \in Int /\ UnitsIn(ledger, B, p) \in Int
        BY <1>2, UnitsAreInt
    <2>8. stock'[p] + UnitsIn(ledger', A2, p) = InitialStock[p] + UnitsIn(ledger', B2, p)
        BY <1>1, <1>3, <1>4, <2>1, <2>3, <2>4, <2>6, <2>7
    <2> QED BY <2>8 DEF A2, B2, Balanced
<1>6. CASE p \notin DOMAIN ledger'[o].items
    <2>1. A2 = A /\ stock'[p] = stock[p]
        BY <1>1, <1>6 DEF Takes, OthersKept, ReservedIn
    <2>2. \A x \in A \cup B : ledger'[x].items[p] = ledger[x].items[p]
        BY <1>2 DEF Takes, OthersKept
    <2> HIDE DEF A, A2, B, B2
    <2>3. UnitsIn(ledger', A, p) = UnitsIn(ledger, A, p) /\ UnitsIn(ledger', B, p) = UnitsIn(ledger, B, p)
        BY <1>2, <2>2, UnitsOfSame
    <2> QED BY <1>1, <1>4, <2>1, <2>3 DEF A2, B2, Balanced
<1> QED BY <1>5, <1>6

LEMMA GivingBackKeepsBalance ==
    ASSUME TypeOK, TypeOK', Records, NEW o \in OrderIds, GivesBack(o),
           NEW K, NEW p \in Parts, Balanced(stock, ledger, K, p)
    PROVE  Balanced(stock', ledger', K, p)
<1> DEFINE A == ReservedIn(ledger, p) \ K
           A2 == ReservedIn(ledger', p) \ K
           B == K \cap ReleasedIn(ledger, p)
           B2 == K \cap ReleasedIn(ledger', p)
<1>1. A2 = A \ {o} /\ o \notin B
    BY DEF GivesBack, OthersKept, ReservedIn, ReleasedIn
<1>2. /\ IsFiniteSet(A) /\ IsFiniteSet(B)
      /\ \A x \in A \cup B : x \in OrderIds /\ ledger[x].items[p] \in Int
    BY OrdersAreFinite DEF ReservedIn, ReleasedIn
<1>3. \A x \in OrderIds : ledger'[x].items = ledger[x].items
    BY DEF GivesBack, OthersKept
<1>4. stock[p] \in Int /\ stock'[p] \in Int /\ InitialStock[p] \in Int
    BY SeedAssumption DEF TypeOK
<1>5. stock[p] + UnitsIn(ledger, A, p) = InitialStock[p] + UnitsIn(ledger, B, p)
    BY DEF Balanced
<1>6. CASE p \notin DOMAIN ledger[o].items
    <2>1. A2 = A /\ B2 = B /\ stock'[p] = stock[p]
        BY <1>1, <1>6 DEF GivesBack, OthersKept, ReservedIn, ReleasedIn
    <2> HIDE DEF A, A2, B, B2
    <2>2. UnitsIn(ledger', A, p) = UnitsIn(ledger, A, p) /\ UnitsIn(ledger', B, p) = UnitsIn(ledger, B, p)
        BY <1>2, <1>3, UnitsOfSame
    <2> QED BY <1>5, <2>1, <2>2 DEF A2, B2, Balanced
<1>7. CASE p \in DOMAIN ledger[o].items /\ o \notin K
    <2>1. o \in A /\ B2 = B /\ stock'[p] = stock[p] + ledger[o].items[p]
        BY <1>7 DEF GivesBack, OthersKept, ReservedIn, ReleasedIn
    <2> HIDE DEF A, A2, B, B2
    <2>2. IsFiniteSet(A2) /\ \A x \in A2 \cup B : x \in OrderIds
        BY <1>1, <1>2, FS_RemoveElement
    <2>3. UnitsIn(ledger', A2, p) = UnitsIn(ledger, A2, p) /\ UnitsIn(ledger', B, p) = UnitsIn(ledger, B, p)
        BY <1>2, <1>3, <2>2, UnitsOfSame
    <2>4. UnitsIn(ledger, A, p) = ledger[o].items[p] + UnitsIn(ledger, A2, p)
        BY <1>1, <1>2, <2>1, UnitsWithout
    <2>5. UnitsIn(ledger, A2, p) \in Int /\ UnitsIn(ledger, B, p) \in Int /\ ledger[o].items[p] \in Int
        BY <1>1, <1>2, <2>1, <2>2, UnitsAreInt
    <2>6. stock'[p] + UnitsIn(ledger', A2, p) = InitialStock[p] + UnitsIn(ledger', B2, p)
        BY <1>4, <1>5, <2>1, <2>3, <2>4, <2>5
    <2> QED BY <2>6 DEF A2, B2, Balanced
<1>8. CASE p \in DOMAIN ledger[o].items /\ o \in K
    <2>1. A2 = A /\ B2 = B \cup {o} /\ stock'[p] = stock[p] + ledger[o].items[p]
        BY <1>1, <1>8 DEF GivesBack, OthersKept, ReservedIn, ReleasedIn
    <2>2. ledger[o].items[p] \in Int
        BY <1>8, Quantity
    <2> HIDE DEF A, A2, B, B2
    <2>3. /\ IsFiniteSet(B2) /\ o \in B2 /\ B2 \ {o} = B
          /\ \A x \in B2 : x \in OrderIds /\ ledger[x].items[p] \in Int
        BY <1>1, <1>2, <2>1, <2>2, FS_AddElement
    <2>4. UnitsIn(ledger', A, p) = UnitsIn(ledger, A, p) /\ UnitsIn(ledger', B2, p) = UnitsIn(ledger, B2, p)
        BY <1>2, <1>3, <2>3, UnitsOfSame
    <2>5. UnitsIn(ledger, B2, p) = ledger[o].items[p] + UnitsIn(ledger, B, p)
        BY <2>3, UnitsWithout
    <2>6. UnitsIn(ledger, A, p) \in Int /\ UnitsIn(ledger, B, p) \in Int
        BY <1>2, UnitsAreInt
    <2>7. stock'[p] + UnitsIn(ledger', A2, p) = InitialStock[p] + UnitsIn(ledger', B2, p)
        BY <1>4, <1>5, <2>1, <2>2, <2>4, <2>5, <2>6
    <2> QED BY <2>7 DEF A2, B2, Balanced
<1> QED BY <1>6, <1>7, <1>8

LEMMA MovementKeepsBalance ==
    ASSUME TypeOK, TypeOK', Records, NEW o \in OrderIds, Takes(o) \/ GivesBack(o),
           NEW K, K \cap OrderIds \subseteq Recorded, NEW p \in Parts, Balanced(stock, ledger, K, p)
    PROVE  Balanced(stock', ledger', K, p)
BY TakingKeepsBalance, GivingBackKeepsBalance

LEMMA InitBalance ==
    ASSUME Init, NEW p \in Parts
    PROVE  Balanced(stock, ledger, {}, p)
<1>1. ReservedIn(ledger, p) = {}
    BY DEF Init, NoOperation, ReservedIn
<1>2. UnitsIn(ledger, {}, p) = 0
    BY UnitsOfNone
<1>3. stock[p] = InitialStock[p] /\ {} \cap ReleasedIn(ledger, p) = {} /\ {} \ {} = {}
    BY DEF Init
<1> QED BY <1>1, <1>2, <1>3, SeedAssumption DEF Balanced

\* Without a reset, the balance is that of StockConserved.
LEMMA BalanceIsConservation ==
    ASSUME TypeOK
    PROVE  StockConserved <=> \A p \in Parts : Balanced(stock, ledger, {}, p)
<1> SUFFICES ASSUME NEW p \in Parts
             PROVE  stock[p] + Units(Reserved(p), p) = InitialStock[p]
                    <=> Balanced(stock, ledger, {}, p)
    BY DEF StockConserved
<1>1. Units(Reserved(p), p) = UnitsIn(ledger, ReservedIn(ledger, p), p)
    BY DEF Units, UnitsIn, Reserved, ReservedIn
<1>2. UnitsIn(ledger, {}, p) = 0 /\ InitialStock[p] \in Int
    BY UnitsOfNone, SeedAssumption
<1>3. ReservedIn(ledger, p) \ {} = ReservedIn(ledger, p) /\ {} \cap ReleasedIn(ledger, p) = {}
    OBVIOUS
<1> QED BY <1>1, <1>2, <1>3 DEF Balanced

Books == Records /\ \A p \in Parts : Balanced(stock, ledger, {}, p)

LEMMA StepKeepsBooks ==
    IInv /\ IInv' /\ Books /\ [Next]_vars => Books'
<1> SUFFICES ASSUME IInv, IInv', Books, [Next]_vars PROVE Books'
    OBVIOUS
<1>1. CASE UNCHANGED <<stock, ledger>>
    BY <1>1 DEF Books, Records, Recorded, Evidence
<1>2. ASSUME NEW o \in OrderIds, Takes(o) \/ GivesBack(o) PROVE Books'
    <2>1. TypeOK /\ TypeOK' /\ Records /\ {} \cap OrderIds \subseteq Recorded
        BY DEF IInv, Books
    <2>2. ASSUME NEW p \in Parts PROVE Balanced(stock', ledger', {}, p)
        BY <1>2, <2>1, <2>2, MovementKeepsBalance DEF Books
    <2> QED BY <1>2, <2>1, <2>2, MovementKeepsRecords DEF Books
<1> QED BY <1>1, <1>2, StepMovesStock

LEMMA BooksAreKept == Spec => []Books
<1>1. Init => Books
    BY InitRecords, InitBalance DEF Books
<1> QED BY <1>1, StepKeepsBooks, Invariance, PTL DEF Spec

\* No unit of any part is created or lost, by any number of concurrent reserves,
\* releases, retries, rollbacks and lost acknowledgements: what is missing from the
\* seeded stock is exactly what the orders reserved now hold (stock.service.ts:120-235).
THEOREM NoUnitIsLost == Spec => []StockConserved
<1>1. IInv /\ Books => StockConserved
    BY BalanceIsConservation DEF IInv, Books
<1> QED BY <1>1, Invariance, BooksAreKept, PTL

-----------------------------------------------------------------------------
(* Evidence.  At every value, as many movements start as end there.        *)

MovedIn(l, p) == {o \in OrderIds : l[o].status # "NONE" /\ p \in DOMAIN l[o].items}

ReserveFrom(l, p, v) == {o \in MovedIn(l, p) : l[o].reservedBefore[p] = v}
ReserveTo(l, p, v) == {o \in MovedIn(l, p) : l[o].reservedBefore[p] - l[o].items[p] = v}
ReleaseFrom(l, p, v) == {o \in ReleasedIn(l, p) : l[o].releasedBefore[p] = v}
ReleaseTo(l, p, v) == {o \in ReleasedIn(l, p) : l[o].releasedBefore[p] + l[o].items[p] = v}

OneIf(b) == IF b THEN 1 ELSE 0

Chained(s, l, p, v) ==
    Cardinality(ReserveFrom(l, p, v)) + Cardinality(ReleaseFrom(l, p, v)) + OneIf(s[p] = v)
        = Cardinality(ReserveTo(l, p, v)) + Cardinality(ReleaseTo(l, p, v))
              + OneIf(InitialStock[p] = v)

\* An order that joins a set, on a condition.
LEMMA CountOneMore ==
    ASSUME NEW S, IsFiniteSet(S), NEW T, NEW o, o \notin S, NEW b \in BOOLEAN,
           T = IF b THEN S \cup {o} ELSE S
    PROVE  Cardinality(S) \in Nat /\ Cardinality(T) = Cardinality(S) + OneIf(b)
<1>1. Cardinality(S) \in Nat
    BY FS_CardinalityType
<1>2. CASE b
    BY <1>1, <1>2, FS_AddElement DEF OneIf
<1>3. CASE ~b
    BY <1>1, <1>3 DEF OneIf
<1> QED BY <1>1, <1>2, <1>3

LEMMA MovementsAreFinite ==
    ASSUME Records, NEW p, NEW v
    PROVE  /\ IsFiniteSet(ReserveFrom(ledger, p, v)) /\ IsFiniteSet(ReserveTo(ledger, p, v))
           /\ IsFiniteSet(ReleaseFrom(ledger, p, v)) /\ IsFiniteSet(ReleaseTo(ledger, p, v))
<1>1. /\ ReserveFrom(ledger, p, v) \in SUBSET Recorded /\ ReserveTo(ledger, p, v) \in SUBSET Recorded
      /\ ReleaseFrom(ledger, p, v) \in SUBSET Recorded /\ ReleaseTo(ledger, p, v) \in SUBSET Recorded
    BY DEF ReserveFrom, ReserveTo, ReleaseFrom, ReleaseTo, MovedIn, ReleasedIn, Recorded
<1> QED BY <1>1, FS_Subset DEF Records

LEMMA TakingKeepsChain ==
    ASSUME TypeOK, TypeOK', Records, NEW o \in OrderIds, Takes(o),
           NEW p \in Parts, NEW v \in Int, Chained(stock, ledger, p, v)
    PROVE  Chained(stock', ledger', p, v)
<1> DEFINE SF == ReserveFrom(ledger, p, v)   SF2 == ReserveFrom(ledger', p, v)
           ST == ReserveTo(ledger, p, v)     ST2 == ReserveTo(ledger', p, v)
           LF == ReleaseFrom(ledger, p, v)   LF2 == ReleaseFrom(ledger', p, v)
           LT == ReleaseTo(ledger, p, v)     LT2 == ReleaseTo(ledger', p, v)
<1>1. LF2 = LF /\ LT2 = LT /\ o \notin SF /\ o \notin ST
    BY DEF Takes, OthersKept, ReserveFrom, ReserveTo, ReleaseFrom, ReleaseTo, MovedIn, ReleasedIn
<1>2. CASE p \notin DOMAIN ledger'[o].items
    <2>1. SF2 = SF /\ ST2 = ST /\ stock'[p] = stock[p]
        BY <1>2 DEF Takes, OthersKept, ReserveFrom, ReserveTo, MovedIn
    <2> QED BY <1>1, <2>1 DEF Chained
<1>3. CASE p \in DOMAIN ledger'[o].items
    <2> DEFINE q == ledger'[o].items[p]
               from == stock[p] = v
               to == stock[p] - q = v
    <2>1. /\ ledger'[o].status = "RESERVED" /\ ledger[o].status = "NONE"
          /\ ledger'[o].reservedBefore[p] = stock[p] /\ stock'[p] = stock[p] - q
          /\ OthersKept(o)
        BY <1>3 DEF Takes
    <2>2. SF2 = IF from THEN SF \cup {o} ELSE SF
        BY <1>3, <2>1 DEF OthersKept, ReserveFrom, MovedIn
    <2>3. ST2 = IF to THEN ST \cup {o} ELSE ST
        BY <1>3, <2>1 DEF OthersKept, ReserveTo, MovedIn
    <2>4. /\ IsFiniteSet(SF) /\ IsFiniteSet(ST) /\ IsFiniteSet(LF) /\ IsFiniteSet(LT)
        BY MovementsAreFinite
    <2>5. Chained(stock, ledger, p, v) <=>
              Cardinality(SF) + Cardinality(LF) + OneIf(from)
                  = Cardinality(ST) + Cardinality(LT) + OneIf(InitialStock[p] = v)
        BY DEF Chained
    <2>6. Chained(stock', ledger', p, v) <=>
              Cardinality(SF2) + Cardinality(LF2) + OneIf(to)
                  = Cardinality(ST2) + Cardinality(LT2) + OneIf(InitialStock[p] = v)
        BY <2>1 DEF Chained
    <2>7. from \in BOOLEAN /\ to \in BOOLEAN
        OBVIOUS
    <2> HIDE DEF SF, SF2, ST, ST2, LF, LF2, LT, LT2, from, to
    <2>8. /\ Cardinality(SF) \in Nat /\ Cardinality(SF2) = Cardinality(SF) + OneIf(from)
          /\ Cardinality(ST) \in Nat /\ Cardinality(ST2) = Cardinality(ST) + OneIf(to)
          /\ Cardinality(LF) \in Nat /\ Cardinality(LT) \in Nat
        BY <1>1, <2>2, <2>3, <2>4, <2>7, CountOneMore, FS_CardinalityType
    <2>9. OneIf(from) \in Int /\ OneIf(to) \in Int /\ OneIf(InitialStock[p] = v) \in Int
        BY DEF OneIf
    <2> QED BY <1>1, <2>5, <2>6, <2>8, <2>9
<1> QED BY <1>2, <1>3

LEMMA GivingBackKeepsChain ==
    ASSUME TypeOK, TypeOK', Records, NEW o \in OrderIds, GivesBack(o),
           NEW p \in Parts, NEW v \in Int, Chained(stock, ledger, p, v)
    PROVE  Chained(stock', ledger', p, v)
<1> DEFINE SF == ReserveFrom(ledger, p, v)   SF2 == ReserveFrom(ledger', p, v)
           ST == ReserveTo(ledger, p, v)     ST2 == ReserveTo(ledger', p, v)
           LF == ReleaseFrom(ledger, p, v)   LF2 == ReleaseFrom(ledger', p, v)
           LT == ReleaseTo(ledger, p, v)     LT2 == ReleaseTo(ledger', p, v)
<1>1. SF2 = SF /\ ST2 = ST /\ o \notin LF /\ o \notin LT
    BY DEF GivesBack, OthersKept, ReserveFrom, ReserveTo, ReleaseFrom, ReleaseTo, MovedIn, ReleasedIn
<1>2. CASE p \notin DOMAIN ledger[o].items
    <2>1. LF2 = LF /\ LT2 = LT /\ stock'[p] = stock[p]
        BY <1>2 DEF GivesBack, OthersKept, ReleaseFrom, ReleaseTo, ReleasedIn
    <2> QED BY <1>1, <2>1 DEF Chained
<1>3. CASE p \in DOMAIN ledger[o].items
    <2> DEFINE q == ledger[o].items[p]
               from == stock[p] = v
               to == stock[p] + q = v
    <2>1. /\ ledger'[o].status = "RELEASED" /\ ledger[o].status = "RESERVED"
          /\ ledger'[o].items = ledger[o].items
          /\ ledger'[o].releasedBefore[p] = stock[p] /\ stock'[p] = stock[p] + q
          /\ OthersKept(o)
        BY <1>3 DEF GivesBack
    <2>2. LF2 = IF from THEN LF \cup {o} ELSE LF
        BY <1>3, <2>1 DEF OthersKept, ReleaseFrom, ReleasedIn
    <2>3. LT2 = IF to THEN LT \cup {o} ELSE LT
        BY <1>3, <2>1 DEF OthersKept, ReleaseTo, ReleasedIn
    <2>4. /\ IsFiniteSet(SF) /\ IsFiniteSet(ST) /\ IsFiniteSet(LF) /\ IsFiniteSet(LT)
        BY MovementsAreFinite
    <2>5. Chained(stock, ledger, p, v) <=>
              Cardinality(SF) + Cardinality(LF) + OneIf(from)
                  = Cardinality(ST) + Cardinality(LT) + OneIf(InitialStock[p] = v)
        BY DEF Chained
    <2>6. Chained(stock', ledger', p, v) <=>
              Cardinality(SF2) + Cardinality(LF2) + OneIf(to)
                  = Cardinality(ST2) + Cardinality(LT2) + OneIf(InitialStock[p] = v)
        BY <2>1 DEF Chained
    <2>7. from \in BOOLEAN /\ to \in BOOLEAN
        OBVIOUS
    <2> HIDE DEF SF, SF2, ST, ST2, LF, LF2, LT, LT2, from, to
    <2>8. /\ Cardinality(LF) \in Nat /\ Cardinality(LF2) = Cardinality(LF) + OneIf(from)
          /\ Cardinality(LT) \in Nat /\ Cardinality(LT2) = Cardinality(LT) + OneIf(to)
          /\ Cardinality(SF) \in Nat /\ Cardinality(ST) \in Nat
        BY <1>1, <2>2, <2>3, <2>4, <2>7, CountOneMore, FS_CardinalityType
    <2>9. OneIf(from) \in Int /\ OneIf(to) \in Int /\ OneIf(InitialStock[p] = v) \in Int
        BY DEF OneIf
    <2> QED BY <1>1, <2>5, <2>6, <2>8, <2>9
<1> QED BY <1>2, <1>3

Chains == \A p \in Parts : \A v \in Int : Chained(stock, ledger, p, v)

LEMMA InitChains == Init => Chains
<1> SUFFICES ASSUME Init, NEW p \in Parts, NEW v \in Int PROVE Chained(stock, ledger, p, v)
    BY DEF Chains
<1>1. MovedIn(ledger, p) = {} /\ ReleasedIn(ledger, p) = {} /\ stock[p] = InitialStock[p]
    BY DEF Init, NoOperation, MovedIn, ReleasedIn
<1>2. /\ ReserveFrom(ledger, p, v) = {} /\ ReserveTo(ledger, p, v) = {}
      /\ ReleaseFrom(ledger, p, v) = {} /\ ReleaseTo(ledger, p, v) = {}
    BY <1>1 DEF ReserveFrom, ReserveTo, ReleaseFrom, ReleaseTo
<1> QED BY <1>1, <1>2 DEF Chained

LEMMA StepKeepsChains ==
    IInv /\ IInv' /\ Books /\ Chains /\ [Next]_vars => Chains'
<1> SUFFICES ASSUME IInv, IInv', Books, Chains, [Next]_vars,
                    NEW p \in Parts, NEW v \in Int
             PROVE  Chained(stock', ledger', p, v)
    BY DEF Chains
<1>1. TypeOK /\ TypeOK' /\ Records /\ Chained(stock, ledger, p, v)
    BY DEF IInv, Books, Chains
<1>2. CASE UNCHANGED <<stock, ledger>>
    BY <1>1, <1>2 DEF Chained, ReserveFrom, ReserveTo, ReleaseFrom, ReleaseTo, MovedIn, ReleasedIn
<1>3. ASSUME NEW o \in OrderIds, Takes(o) \/ GivesBack(o) PROVE Chained(stock', ledger', p, v)
    BY <1>1, <1>3, TakingKeepsChain, GivingBackKeepsChain
<1> QED BY <1>2, <1>3, StepMovesStock

\* The recorded evidence of every part is one chain of movements from the seed to
\* the current stock, whatever order the calls committed in: no movement is recorded
\* with a stock it did not find (stock.service.ts:158-182, 214-226).
THEOREM EvidenceIsAChain == Spec => []EvidenceChains
<1>1. TypeOK /\ Chains => EvidenceChains
    <2> SUFFICES ASSUME TypeOK, Chains, NEW p \in Parts, NEW v \in 0..InitialStock[p]
                 PROVE  Cardinality({o \in Moved(p) : ledger[o].reservedBefore[p] = v})
                          + Cardinality({o \in Returned(p) : ledger[o].releasedBefore[p] = v})
                          + (IF stock[p] = v THEN 1 ELSE 0)
                      = Cardinality({o \in Moved(p) :
                                        ledger[o].reservedBefore[p] - ledger[o].items[p] = v})
                          + Cardinality({o \in Returned(p) :
                                        ledger[o].releasedBefore[p] + ledger[o].items[p] = v})
                          + (IF InitialStock[p] = v THEN 1 ELSE 0)
        BY DEF EvidenceChains
    <2>1. v \in Int
        BY SeedAssumption
    <2>2. Moved(p) = MovedIn(ledger, p) /\ Returned(p) = ReleasedIn(ledger, p)
        BY DEF Moved, Returned, MovedIn, ReleasedIn
    <2>3. Chained(stock, ledger, p, v)
        BY <2>1 DEF Chains
    <2> QED BY <2>2, <2>3 DEF Chained, ReserveFrom, ReserveTo, ReleaseFrom, ReleaseTo, OneIf
<1>2. IInv => TypeOK
    BY DEF IInv
<1> QED BY <1>1, <1>2, InitChains, StepKeepsChains, Invariance, BooksAreKept, PTL DEF Spec

-----------------------------------------------------------------------------
(* The seeder beside the calls *)

SeederIsAlone ==
    /\ upserts \in 0..Len(SEED_PARTS)
    /\ \A c \in Calls : \A p \in DOMAIN seen[c] : ~SeederOwns(p)

SeedBooks ==
    /\ Records
    /\ carried \subseteq Recorded
    /\ \A p \in Parts : Balanced(stock, ledger, carried, p)

SeedInv == IInv /\ SeederIsAlone /\ SeedBooks

LEMMA InitSeedInv == SeedInit => SeedInv
<1> SUFFICES ASSUME SeedInit PROVE SeedInv
    OBVIOUS
<1>1. Init /\ upserts = 0 /\ carried = {}
    BY DEF SeedInit
<1>2. Len(SEED_PARTS) \in Nat
    BY SeedPartsAssumption
<1>3. SeederIsAlone
    BY <1>1, <1>2 DEF Init, Nothing, SeederIsAlone
<1>4. SeedBooks
    BY <1>1, InitRecords, InitBalance DEF SeedBooks
<1> QED BY <1>1, <1>3, <1>4, InitIInv DEF SeedInv

\* A call changes the row locks of no other call.
LEMMA OthersKeepRows ==
    ASSUME TypeOK, NEW c \in Calls,
           Step(c) \/ (\E command \in Commands : Start(c, command)) \/ Rollback(c) \/ CommitAckLost(c)
    PROVE  \A d \in Calls \ {c} : seen'[d] = seen[d]
BY DEF TypeOK, Step, LockOrder, ReserveOnExisting, ReserveOnNone, ReserveReject, ReserveAccept,
       ReleaseAnswered, ReleaseOnReserved, ReleaseAccept, LockPart, UpdatePart, Commit,
       CommitAckLost, Rollback, Start, EndTransaction

\* A call that ends, or is started, locks no row.
LEMMA EventsLockNoRow ==
    ASSUME TypeOK, NEW c \in Calls,
           (\E command \in Commands : Start(c, command)) \/ Rollback(c) \/ CommitAckLost(c)
    PROVE  DOMAIN seen'[c] \subseteq DOMAIN seen[c]
BY NothingIsRows DEF TypeOK, Start, Rollback, CommitAckLost, EndTransaction

LEMMA CallKeepsSeedInv ==
    ASSUME SeedInv, NEW c \in Calls, CallStep(c) \/ CallEvent(c)
    PROVE  SeedInv'
<1>1. /\ IInv /\ TypeOK /\ UNCHANGED seedVars
      /\ Step(c) \/ (\E command \in Commands : Start(c, command)) \/ Rollback(c) \/ CommitAckLost(c)
    BY DEF SeedInv, IInv, CallStep, CallEvent
<1>2. Next
    BY <1>1 DEF Next
<1>3. IInv' /\ TypeOK'
    <2>1. IInv'
        BY <1>1, <1>2, NextKeepsIInv
    <2> QED BY <2>1 DEF IInv
<1>4. SeederIsAlone'
    <2>1. \A p \in DOMAIN seen'[c] \ DOMAIN seen[c] : ~SeederOwns(p)
        BY <1>1, EventsLockNoRow DEF CallStep, CallEvent
    <2>2. \A d \in Calls : \A p \in DOMAIN seen'[d] : ~SeederOwns(p)
        BY <1>1, <2>1, OthersKeepRows DEF SeedInv, SeederIsAlone
    <2>3. upserts' = upserts
        BY <1>1 DEF seedVars
    <2> QED BY <2>2, <2>3 DEF SeedInv, SeederIsAlone, SeederOwns
<1>5. SeedBooks'
    <2>1. CASE UNCHANGED <<stock, ledger>>
        BY <1>1, <2>1 DEF SeedInv, SeedBooks, Records, Recorded, Evidence, seedVars
    <2>2. ASSUME NEW o \in OrderIds, Takes(o) \/ GivesBack(o) PROVE SeedBooks'
        <3>1. Records /\ carried \subseteq Recorded /\ carried' = carried
            BY <1>1 DEF SeedInv, SeedBooks, seedVars
        <3>2. Recorded \subseteq Recorded'
            BY <2>2 DEF Recorded, Takes, GivesBack, OthersKept
        <3>3. ASSUME NEW p \in Parts PROVE Balanced(stock', ledger', carried, p)
            BY <1>1, <1>3, <2>2, <3>1, <3>3, MovementKeepsBalance DEF SeedInv, SeedBooks
        <3>4. Records'
            BY <2>2, <3>1, MovementKeepsRecords
        <3> QED BY <3>1, <3>2, <3>3, <3>4 DEF SeedBooks
    <2> QED BY <1>1, <1>2, <2>1, <2>2, StepMovesStock
<1> QED BY <1>3, <1>4, <1>5 DEF SeedInv

\* A reset that commits has locked every row of the catalogue: no call has read one.
LEMMA ResetFindsNoReader ==
    ASSUME SeedInv, ResetCommits
    PROVE  /\ \A c \in Calls : DOMAIN seen[c] = {} /\ DOMAIN staged[c] = {}
           /\ \A p \in Parts : stock'[p] = InitialStock[p]
           /\ stock' \in [Parts -> Nat]
<1>1. \A p \in Parts : SeederOwns(p)
    BY SeedPartsAssumption DEF ResetCommits, SeederOwns
<1>2. ASSUME NEW c \in Calls PROVE DOMAIN seen[c] = {} /\ DOMAIN staged[c] = {}
    <2>1. DOMAIN seen[c] \subseteq Parts /\ DOMAIN staged[c] \subseteq DOMAIN seen[c]
        BY DEF SeedInv, IInv, TypeOK, IsRows, Transactions, Staged
    <2> QED BY <1>1, <2>1 DEF SeedInv, SeederIsAlone
<1>3. stock' = [p \in Parts |-> InitialStock[p]]
    BY <1>1 DEF ResetCommits, Written, SeederOwns
<1> QED BY <1>2, <1>3, SeedAssumption

LEMMA ResetCommitsKeepsSeedInv ==
    ASSUME SeedInv, ResetCommits
    PROVE  SeedInv'
<1>1. /\ UNCHANGED <<ledger, pc, cmd, found, seen, staged, reply, faults>>
      /\ upserts' = 0 /\ carried' = ReservedOrders
    BY DEF ResetCommits
<1>2. TypeOK'
    BY <1>1, ResetFindsNoReader DEF SeedInv, IInv, TypeOK
<1>3. OneOwnerPerOrder' /\ OneOwnerPerRow'
    BY <1>1 DEF SeedInv, IInv, OneOwnerPerOrder, OneOwnerPerRow, OwnsOrderLock
<1>4. Transactions'
    BY <1>1 DEF SeedInv, IInv, Transactions, Locked, Validated, Staged, Rows, Lines, MissingParts, NewValue
<1>5. NoStaleRow' /\ NoStaleOperation'
    BY <1>1, ResetFindsNoReader DEF SeedInv, IInv, NoStaleRow, NoStaleOperation, Existing
<1>6. SeederIsAlone'
    BY <1>1, SeedPartsAssumption DEF SeedInv, SeederIsAlone, SeederOwns
<1>7. Records' /\ Recorded' = Recorded /\ carried' \subseteq Recorded
    BY <1>1 DEF SeedInv, SeedBooks, Records, Recorded, Evidence, ReservedOrders
<1>8. ASSUME NEW p \in Parts PROVE Balanced(stock', ledger, ReservedOrders, p)
    <2>1. /\ ReservedIn(ledger, p) \ ReservedOrders = {}
          /\ ReservedOrders \cap ReleasedIn(ledger, p) = {}
        BY DEF ReservedIn, ReleasedIn, ReservedOrders
    <2>2. UnitsIn(ledger, {}, p) = 0 /\ InitialStock[p] \in Int
        BY UnitsOfNone, SeedAssumption
    <2> QED BY <2>1, <2>2, ResetFindsNoReader DEF Balanced
<1>9. SeedBooks'
    BY <1>1, <1>7, <1>8 DEF SeedBooks
<1> QED BY <1>2, <1>3, <1>4, <1>5, <1>6, <1>9 DEF SeedInv, IInv

LEMMA SeederKeepsSeedInv ==
    ASSUME SeedInv, InsertMissing \/ Upsert \/ ResetFails \/ UNCHANGED allVars
    PROVE  SeedInv'
<1>1. UNCHANGED vars /\ UNCHANGED <<stock, ledger, seen, carried>>
    BY DEF InsertMissing, SkipDuplicates, Upsert, ResetFails, allVars, seedVars, vars
<1>2. IInv'
    BY <1>1, StutterKeepsIInv DEF SeedInv
<1>3. SeedBooks'
    BY <1>1 DEF SeedInv, SeedBooks, Records, Recorded, Evidence
<1>4. Len(SEED_PARTS) \in Nat
    BY SeedPartsAssumption
<1>5. CASE Upsert
    <2>1. upserts' = upserts + 1 /\ upserts < Len(SEED_PARTS) /\ upserts \in Nat
        BY <1>5 DEF Upsert, SeedInv, SeederIsAlone
    <2>2. ASSUME NEW c \in Calls, NEW p \in DOMAIN seen[c], NEW i \in 1..upserts + 1
          PROVE  SEED_PARTS[i] # p
        <3>1. i \in 1..upserts \/ i = upserts + 1
            BY <2>1
        <3>2. CASE i = upserts + 1
            BY <1>5, <3>2 DEF Upsert, OwnsRow
        <3>3. CASE i \in 1..upserts
            BY <3>3 DEF SeedInv, SeederIsAlone, SeederOwns
        <3> QED BY <3>1, <3>2, <3>3
    <2>3. SeederIsAlone'
        BY <1>1, <1>4, <2>1, <2>2 DEF SeederIsAlone, SeederOwns
    <2> QED BY <1>2, <1>3, <2>3 DEF SeedInv
<1>6. CASE ~Upsert
    <2>1. upserts' = upserts \/ upserts' = 0
        BY <1>6 DEF InsertMissing, ResetFails, allVars, seedVars
    <2>2. SeederIsAlone'
        BY <1>1, <1>4, <2>1 DEF SeedInv, SeederIsAlone, SeederOwns
    <2> QED BY <1>2, <1>3, <2>2 DEF SeedInv
<1> QED BY <1>5, <1>6

LEMMA SeedInvariance == SeedSpec => []SeedInv
<1>1. ASSUME SeedInv, [SeedNext]_allVars PROVE SeedInv'
    BY <1>1, CallKeepsSeedInv, ResetCommitsKeepsSeedInv, SeederKeepsSeedInv DEF SeedNext, Reset
<1> QED BY <1>1, InitSeedInv, PTL DEF SeedSpec

\* A reset in the middle of reserves and releases moves the books by what the
\* orders it found reserved give back later, to the unit, and by nothing else,
\* for every catalogue and number of calls and resets (seed-parts.ts:17-29).
THEOREM ResetDriftIsExact == SeedSpec => []ResetDrift
<1>1. SeedInv => ResetDrift
    <2> SUFFICES ASSUME SeedInv, NEW p \in Parts
                 PROVE  stock[p] + Units(Reserved(p) \ carried, p)
                            = InitialStock[p] + Units(carried \cap Returned(p), p)
        BY DEF ResetDrift
    <2>1. Reserved(p) = ReservedIn(ledger, p) /\ Returned(p) = ReleasedIn(ledger, p)
        BY DEF Reserved, Returned, Moved, ReservedIn, ReleasedIn
    <2> QED BY <2>1 DEF SeedInv, SeedBooks, Balanced, Units, UnitsIn
<1> QED BY <1>1, SeedInvariance, PTL

\* Nor does a reset ever make stale what a call has read and will write from: its
\* rows are locked as it writes them, and calls and reset wait for each other's rows
\* (seed-parts.ts:23-27, stock.service.ts:60-72).
THEOREM RowsAreFreshBesideResets == SeedSpec => []NoStaleRow
<1>1. SeedInv => NoStaleRow
    BY DEF SeedInv, IInv
<1> QED BY <1>1, SeedInvariance, PTL
=============================================================================
