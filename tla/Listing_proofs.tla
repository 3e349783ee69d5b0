---------------------------- MODULE Listing_proofs ----------------------------
(***************************************************************************)
(* For every table, page size and filter: what a walk over the pages of a  *)
(* changing table is given.  And for the table of customers, however many  *)
(* requests create them together: an e-mail is one customer's, and what a  *)
(* request is answered is in the table.                                    *)
(***************************************************************************)
EXTENDS Customers, FiniteSetTheorems, WellFoundedInduction, TLAPS

-----------------------------------------------------------------------------
(* The order of the rows *)

\* A set of rows is finite, and its rows are numbers.
LEMMA SomeRows ==
    ASSUME NEW S, S \subseteq Rows
    PROVE  IsFiniteSet(S) /\ S \subseteq Nat /\ Cardinality(S) \in Nat
BY RowsAssumption, FS_Subset, FS_CardinalityType

\* The order is strict and total, thanks to the tie-break.
LEMMA TotalOrder ==
    ASSUME NEW a \in Rows, NEW b \in Rows, NEW c \in Rows
    PROVE  /\ ~Before(a, a)
           /\ Before(a, b) \/ Before(b, a) \/ a = b
           /\ Before(a, b) => ~Before(b, a)
           /\ Before(a, b) /\ Before(b, c) => Before(a, c)
<1>1. a \in Nat /\ b \in Nat /\ c \in Nat
    BY RowsAssumption
<1>2. createdAt[a] \in Nat /\ createdAt[b] \in Nat /\ createdAt[c] \in Nat
    BY RowsAssumption
<1>3. CASE idDescending
    BY <1>1, <1>2, <1>3 DEF Before
<1>4. CASE ~idDescending
    BY <1>1, <1>2, <1>4 DEF Before
<1> QED BY <1>3, <1>4

LEMMA RankType == ASSUME NEW r PROVE Rank(r) \in Nat
BY SomeRows DEF Rank, Matching

\* Rows listed one after the other have increasing ranks.
LEMMA RankIncreases ==
    ASSUME NEW a \in Matching, NEW b \in Matching, Before(a, b)
    PROVE  Rank(a) < Rank(b)
<1> DEFINE Pre(r) == {x \in Matching : Before(x, r)}
<1>1. a \in Rows /\ b \in Rows /\ Matching \subseteq Rows
    BY DEF Matching
<1>2. Pre(a) \subseteq Pre(b)
    BY <1>1, TotalOrder
<1>3. a \in Pre(b) /\ a \notin Pre(a)
    BY <1>1, TotalOrder
<1>4. IsFiniteSet(Pre(b)) /\ Pre(a) \in SUBSET Pre(b) /\ Pre(a) # Pre(b)
    BY <1>1, <1>2, <1>3, SomeRows
<1> HIDE DEF Pre
<1>5. Cardinality(Pre(a)) <= Cardinality(Pre(b)) /\ Cardinality(Pre(a)) # Cardinality(Pre(b))
    BY <1>4, FS_Subset
<1>6. Rank(a) = Cardinality(Pre(a)) /\ Rank(b) = Cardinality(Pre(b))
    BY DEF Rank, Pre
<1> QED BY <1>5, <1>6, RankType

\* Different rows have different ranks.
LEMMA RankInjective ==
    ASSUME NEW a \in Matching, NEW b \in Matching, Rank(a) = Rank(b)
    PROVE  a = b
<1>1. a \in Rows /\ b \in Rows
    BY DEF Matching
<1>2. ~(Rank(a) < Rank(b)) /\ ~(Rank(b) < Rank(a))
    BY RankType
<1> QED BY <1>1, <1>2, TotalOrder, RankIncreases

\* A range of n ranks belongs to n rows at most: a page is never too long.
LEMMA PageBound ==
    ASSUME NEW skip \in Nat, NEW take \in Nat
    PROVE  Cardinality(findMany(skip, take)) <= take
<1> DEFINE S == findMany(skip, take)
           f == [r \in S |-> Rank(r)]
           T == skip..(skip + take - 1)
<1>1. \A r \in S : r \in Matching /\ Rank(r) \in T
    BY RankType DEF findMany
<1>2. f \in [S -> T]
    BY <1>1
<1>3. \A a, b \in S : f[a] = f[b] => a = b
    BY <1>1, RankInjective
<1>4. f \in Injection(S, T)
    BY <1>2, <1>3 DEF Injection, IsInjective
<1>5. IsFiniteSet(T) /\ Cardinality(T) = take
    BY FS_Interval
<1> QED BY <1>4, <1>5, FS_Injection

\* When the rows go on after a page, the page is full.
LEMMA FullPage ==
    ASSUME NEW skip \in Nat, NEW take \in Nat, NEW r \in Matching, Rank(r) >= skip + take
    PROVE  Cardinality(findMany(skip, take)) >= take
<1> DEFINE n == skip + take
           Beyond == {Rank(x) : x \in {y \in Matching : Rank(y) >= n}}
<1>1. Beyond \subseteq Nat /\ Beyond # {}
    BY RankType
<1>2. PICK k \in Beyond : \A j \in Beyond : ~(<<j, k>> \in {p \in Nat \X Nat : p[1] < p[2]})
    BY <1>1, NatLessThanWellFounded, WFMin DEF OpToRel
<1>3. ASSUME NEW j \in Beyond PROVE j >= k
    <2>1. j \in Nat /\ k \in Nat
        BY <1>1
    <2>2. ~(j < k)
        BY <1>2, <2>1
    <2> QED BY <2>1, <2>2
<1>4. PICK m \in Matching : Rank(m) = k /\ Rank(m) >= n
    BY <1>2
<1>5. \A x \in Matching : Rank(x) >= n => Rank(x) >= Rank(m)
    BY <1>3, <1>4
<1>6. m \in Rows /\ Matching \subseteq Rows
    BY DEF Matching
<1>7. {x \in Matching : Before(x, m)} = findMany(0, n)
    <2>1. ASSUME NEW x \in Matching, Before(x, m) PROVE Rank(x) < n
        BY <1>5, <2>1, RankIncreases, RankType
    <2>2. ASSUME NEW x \in Matching, Rank(x) < n PROVE Before(x, m)
        <3>1. Rank(x) < Rank(m)
            BY <1>4, <2>2, RankType
        <3>2. x # m /\ ~Before(m, x)
            BY <3>1, RankIncreases, RankType
        <3> QED BY <1>6, <3>2, TotalOrder
    <2> QED BY <2>1, <2>2, RankType DEF findMany
<1>8. Cardinality(findMany(0, n)) >= n
    BY <1>4, <1>7 DEF Rank
<1>9. findMany(0, n) = findMany(0, skip) \cup findMany(skip, take)
    BY RankType DEF findMany
<1>10. findMany(0, skip) \cap findMany(skip, take) = {}
    BY RankType DEF findMany
<1>11. \A s, t \in Nat : findMany(s, t) \subseteq Rows
    BY <1>6 DEF findMany
<1>12. Cardinality(findMany(0, n)) =
         Cardinality(findMany(0, skip)) + Cardinality(findMany(skip, take))
    <2>1. IsFiniteSet(findMany(0, skip)) /\ IsFiniteSet(findMany(skip, take))
        BY <1>11, SomeRows
    <2>2. Cardinality(findMany(0, skip)) \in Nat /\ Cardinality(findMany(skip, take)) \in Nat
        BY <1>11, SomeRows
    <2> QED BY <1>9, <1>10, <2>1, <2>2, FS_Union, FS_EmptySet
<1>13. Cardinality(findMany(0, skip)) <= skip
    BY PageBound
<1> QED BY <1>8, <1>11, <1>12, <1>13, SomeRows

-----------------------------------------------------------------------------
(* Types *)

LEMMA PageSizeType == pageSize \in Nat /\ pageSize >= 1
BY QueryAssumption

\* The next page starts where this one ends.
LEMMA OffsetType ==
    ASSUME NEW p \in Nat, p >= 1
    PROVE  /\ (p - 1) * pageSize \in Nat
           /\ (p - 1) * pageSize + pageSize = p * pageSize
           /\ ((p + 1) - 1) * pageSize = p * pageSize
<1> pageSize \in Nat
    BY PageSizeType
<1>1. ASSUME NEW q \in Nat PROVE q * pageSize \in Nat /\ (q + 1) * pageSize = q * pageSize + pageSize
    <2>1. q * pageSize \in Int /\ q * pageSize >= 0
        OBVIOUS
    <2> QED BY <2>1
<1>2. p - 1 \in Nat /\ (p - 1) + 1 = p /\ (p + 1) - 1 = p
    OBVIOUS
<1> QED BY <1>1, <1>2

\* Type correctness: in particular a page never has more rows than asked for.
THEOREM ListingTypes == ListingSpec => []ListingTypeOK
<1>1. ListingInit => ListingTypeOK
    <2> SUFFICES ASSUME ListingInit PROVE ListingTypeOK
        OBVIOUS
    <2>1. items \subseteq Rows /\ Cardinality(items) <= pageSize
        BY FS_EmptySet, PageSizeType DEF ListingInit
    <2>2. status \in [Rows -> Statuses \cup {"NONE"}]
        BY DEF ListingInit
    <2> QED BY <2>1, <2>2 DEF ListingInit, ListingTypeOK
<1>2. ListingTypeOK /\ [ListingNext]_listingVars => ListingTypeOK'
    <2> SUFFICES ASSUME ListingTypeOK, [ListingNext]_listingVars PROVE ListingTypeOK'
        OBVIOUS
    <2> USE DEF ListingTypeOK
    <2>1. ASSUME NEW r \in Rows, Insert(r) \/ Cancel(r) PROVE ListingTypeOK'
        <3>1. PICK new \in Statuses : SetStatus(r, new)
            BY <2>1 DEF Insert, Cancel, Statuses
        <3>2. status' \in [Rows -> Statuses \cup {"NONE"}]
            BY <3>1 DEF SetStatus
        <3>3. entered' \in Nat /\ left' \in Nat
            BY <3>1 DEF SetStatus
        <3> QED BY <3>1, <3>2, <3>3 DEF SetStatus, clientVars
    <2>2. CASE Count
        BY <2>2, SomeRows DEF Count, Matching, tableVars
    <2>3. CASE FindMany
        <3>1. (page - 1) * pageSize \in Nat
            BY OffsetType
        <3>2. items' \subseteq Rows /\ Cardinality(items') <= pageSize
            BY <2>3, <3>1, PageSizeType, PageBound DEF FindMany, findMany, Matching
        <3> QED BY <2>3, <3>2 DEF FindMany, tableVars
    <2>4. CASE Start
        BY <2>4 DEF Start, Matching
    <2>5. CASE Receive
        <3>1. walk' \in {"listing", "finished"} /\ page' \in Nat \ {0}
            BY <2>5 DEF Receive
        <3>2. UNCHANGED <<status, entered, left, stopsAt, total, items, known>>
            BY <2>5 DEF Receive, tableVars
        <3> QED BY <2>5, <3>1, <3>2 DEF Receive
    <2>6. CASE UNCHANGED listingVars
        BY <2>6 DEF listingVars, tableVars, clientVars
    <2> QED BY <2>1, <2>2, <2>3, <2>4, <2>5, <2>6 DEF ListingNext, ListNext
<1> QED BY <1>1, <1>2, PTL DEF ListingSpec

-----------------------------------------------------------------------------
(* What the walk is given while no row drops out *)

\* A page that came short has all that was left; known rows still match.
Steady ==
    left = 0 =>
        /\ known \subseteq Matching
        /\ NothingSkipped
        /\ walk = "listing" /\ "items" \in read /\ Cardinality(items) < pageSize
               => known \subseteq seen \cup items
        /\ walk = "finished" /\ stopsAt = "shortPage" => known \subseteq seen

\* Before the walk no page has been asked for.
LInv ==
    /\ ListingTypeOK
    /\ walk = "idle" => read = {} /\ page = 1
    /\ walk # "idle" => Steady

\* Some row begins to match: it may move others back, never forward.
LEMMA InsertKeepsSteady ==
    ASSUME ListingTypeOK, Steady, walk # "idle", Matching \subseteq Matching', left' = 0 => left = 0,
           UNCHANGED clientVars
    PROVE  Steady'
<1> SUFFICES ASSUME left = 0, left' = 0 PROVE Steady'
    BY DEF Steady
<1>1. UNCHANGED <<walk, stopsAt, page, read, items, seen, known>>
    BY DEF clientVars
<1>2. ASSUME NEW x PROVE Rank(x) \in Nat /\ Rank(x)' \in Nat /\ Rank(x) <= Rank(x)'
    <2> DEFINE Pre == {y \in Matching : Before(y, x)}
               Post == {y \in Matching' : Before(y, x)}
    <2>1. Pre \in SUBSET Post /\ Pre \subseteq Rows /\ Post \subseteq Rows
        BY DEF Matching
    <2>2. /\ Cardinality(Pre) \in Nat /\ Cardinality(Post) \in Nat
          /\ Cardinality(Pre) <= Cardinality(Post)
        BY <2>1, SomeRows, FS_Subset
    <2> QED BY <2>2 DEF Rank, Before
<1>3. (page - 1) * pageSize \in Nat /\ page * pageSize \in Nat
    <2>1. page \in Nat /\ page >= 1
        BY DEF ListingTypeOK
    <2> QED BY <2>1, OffsetType, PageSizeType
<1>4. NothingSkipped'
    <2> SUFFICES ASSUME walk = "listing", NEW x \in known \ seen
                 PROVE  IF "items" \in read THEN x \in items \/ Rank(x)' >= page * pageSize
                                            ELSE Rank(x)' >= (page - 1) * pageSize
        BY <1>1 DEF NothingSkipped
    <2>1. IF "items" \in read THEN x \in items \/ Rank(x) >= page * pageSize
                              ELSE Rank(x) >= (page - 1) * pageSize
        BY DEF Steady, NothingSkipped
    <2> QED BY <1>2, <1>3, <2>1
<1> QED BY <1>1, <1>4 DEF Steady

\* The page is read: what it lacks of the known rows lies behind it.
LEMMA FindManyKeepsSteady ==
    ASSUME ListingTypeOK, Steady, FindMany
    PROVE  Steady'
<1> SUFFICES ASSUME left = 0 PROVE Steady'
    BY DEF Steady, FindMany, tableVars
<1> DEFINE skip == (page - 1) * pageSize
<1>1. /\ skip \in Nat /\ skip + pageSize = page * pageSize /\ pageSize \in Nat
      /\ items' \subseteq Rows /\ Cardinality(items') \in Nat
    <2>1. page \in Nat /\ page >= 1
        BY DEF ListingTypeOK
    <2>2. items' \subseteq Rows
        BY DEF FindMany, findMany, Matching
    <2> QED BY <2>1, <2>2, OffsetType, PageSizeType, SomeRows
<1>2. /\ UNCHANGED <<status, left, walk, stopsAt, page, seen, known>>
      /\ walk = "listing" /\ "items" \notin read /\ "items" \in read'
      /\ items' = findMany(skip, pageSize)
    BY DEF FindMany, tableVars
<1>3. Matching' = Matching /\ \A x : Rank(x)' = Rank(x)
    BY <1>2 DEF Matching, Rank, Before
<1> HIDE DEF skip
<1>4. ASSUME NEW x \in known \ seen
      PROVE  x \in Matching /\ Rank(x) \in Nat /\ (x \in items' \/ Rank(x) >= skip + pageSize)
    <2>1. x \in Matching /\ Rank(x) >= skip /\ Rank(x) \in Nat
        BY <1>2, RankType DEF Steady, NothingSkipped, skip
    <2> QED BY <1>1, <1>2, <2>1 DEF findMany
<1>5. NothingSkipped'
    BY <1>1, <1>2, <1>3, <1>4 DEF NothingSkipped
<1>6. ASSUME Cardinality(items') < pageSize, NEW x \in known \ seen PROVE x \in items'
    <2>1. ~(Rank(x) >= skip + pageSize)
        BY <1>1, <1>2, <1>4, <1>6, FullPage
    <2> QED BY <1>4, <2>1
<1> QED BY <1>2, <1>3, <1>5, <1>6 DEF Steady

\* The client goes on to the next page, or stops.
LEMMA ReceiveKeepsSteady ==
    ASSUME ListingTypeOK, Steady, Receive
    PROVE  Steady'
<1> SUFFICES ASSUME left = 0 PROVE Steady'
    BY DEF Steady, Receive, tableVars
<1>1. /\ UNCHANGED <<status, left, stopsAt, items, known>>
      /\ walk = "listing" /\ "items" \in read /\ read' = {} /\ seen' = seen \cup items
    BY DEF Receive, tableVars
<1>2. Matching' = Matching /\ \A x : Rank(x)' = Rank(x)
    BY <1>1 DEF Matching, Rank, Before
<1>3. walk' = "listing" => page' = page + 1
    BY DEF Receive
<1>4. NothingSkipped'
    <2>1. page \in Nat /\ page >= 1
        BY DEF ListingTypeOK
    <2>2. ((page + 1) - 1) * pageSize = page * pageSize
        BY <2>1, OffsetType
    <2>3. \A x \in known \ seen : x \in items \/ Rank(x) >= page * pageSize
        BY <1>1 DEF Steady, NothingSkipped
    <2> QED BY <1>1, <1>2, <1>3, <2>2, <2>3 DEF NothingSkipped
<1>5. walk' = "finished" /\ stopsAt = "shortPage" => known \subseteq seen \cup items
    BY <1>1 DEF Receive, LastPage, Steady
<1> QED BY <1>1, <1>2, <1>4, <1>5 DEF Steady

\* The client starts: nothing is behind it.
LEMMA StartMakesSteady ==
    ASSUME LInv, Start
    PROVE  Steady'
<1>1. /\ walk' = "listing" /\ known' = Matching' /\ read' = {} /\ page' = 1
    BY DEF LInv, Start, Matching
<1>2. (1 - 1) * pageSize = 0
    BY PageSizeType
<1>3. \A x : Rank(x)' \in Nat
    <2>1. ASSUME NEW x PROVE Rank(x)' \in Nat
        <3>1. {y \in Matching' : Before(y, x)} \subseteq Rows
            BY DEF Matching
        <3> QED BY <3>1, SomeRows DEF Rank, Before
    <2> QED BY <2>1
<1>4. NothingSkipped'
    BY <1>1, <1>2, <1>3 DEF NothingSkipped
<1> QED BY <1>1, <1>4 DEF Steady

LEMMA NextKeepsLInv ==
    ASSUME LInv, ListingTypeOK', [ListingNext]_listingVars
    PROVE  LInv'
<1>1. ASSUME NEW r \in Rows, Insert(r) \/ Cancel(r) PROVE LInv'
    <2>1. PICK new \in Statuses : SetStatus(r, new) /\ status[r] # new
        BY <1>1 DEF Insert, Cancel, Statuses
    <2>2. UNCHANGED clientVars /\ UNCHANGED <<walk, read, page>>
        BY <2>1 DEF SetStatus, clientVars
    <2>3. CASE status[r] \in where /\ new \notin where
        <3>1. left' # 0
            BY <2>1, <2>3 DEF SetStatus, LInv, ListingTypeOK
        <3> QED BY <2>2, <3>1 DEF LInv, Steady
    <2>4. CASE ~(status[r] \in where /\ new \notin where)
        <3>1. left' = left
            BY <2>1, <2>4 DEF SetStatus
        <3>2. Matching \subseteq Matching'
            BY <2>1, <2>4 DEF SetStatus, Matching, LInv, ListingTypeOK
        <3> QED BY <2>2, <3>1, <3>2, InsertKeepsSteady DEF LInv
    <2> QED BY <2>3, <2>4
<1>2. ASSUME UNCHANGED <<status, left, walk, stopsAt, page, items, seen, known>>,
             "items" \in read' <=> "items" \in read, walk = "idle" => read' = read
      PROVE  LInv'
    <2>1. Matching' = Matching /\ \A x : Rank(x)' = Rank(x)
        BY <1>2 DEF Matching, Rank, Before
    <2>2. NothingSkipped => NothingSkipped'
        BY <1>2, <2>1 DEF NothingSkipped
    <2> QED BY <1>2, <2>1, <2>2 DEF LInv, Steady
<1>3. CASE Count
    BY <1>2, <1>3 DEF Count, tableVars
<1>4. CASE FindMany
    BY <1>4, FindManyKeepsSteady DEF LInv, FindMany
<1>5. CASE Start
    BY <1>5, StartMakesSteady DEF LInv, Start
<1>6. CASE Receive
    <2>1. walk' \in {"listing", "finished"}
        BY <1>6 DEF Receive
    <2> QED BY <1>6, <2>1, ReceiveKeepsSteady DEF LInv, Receive
<1>7. CASE UNCHANGED listingVars
    BY <1>2, <1>7 DEF listingVars, tableVars, clientVars
<1> QED BY <1>1, <1>3, <1>4, <1>5, <1>6, <1>7 DEF ListingNext, ListNext

\* The invariant of a walk.
THEOREM ListingInvariance == ListingSpec => []LInv
<1>1. ListingInit /\ ListingTypeOK => LInv
    BY DEF ListingInit, LInv
<1>2. LInv /\ ListingTypeOK' /\ [ListingNext]_listingVars => LInv'
    BY NextKeepsLInv
<1> QED BY <1>1, <1>2, ListingTypes, PTL DEF ListingSpec

\* While no row drops out of the filter, no page skips a row that was there when the
\* walk started, whatever is created meanwhile.
THEOREM NeverSkipped == ListingSpec => []NothingSkipped
<1>1. LInv => NothingSkipped
    BY DEF LInv, Steady, NothingSkipped
<1> QED BY <1>1, ListingInvariance, PTL

\* A client that goes on to the first short page has then been given all of them.
THEOREM WalkComplete ==
    ListingSpec => [](walk = "finished" /\ stopsAt = "shortPage" /\ left = 0 => known \subseteq seen)
<1>1. LInv => (walk = "finished" /\ stopsAt = "shortPage" /\ left = 0 => known \subseteq seen)
    BY DEF LInv, Steady
<1> QED BY <1>1, ListingInvariance, PTL

-----------------------------------------------------------------------------
(* What a walk misses when rows drop out *)

\* The rows of the start that still match and are on no page read so far; those of
\* them that are behind the walk will be on none.
Ungiven == Missed \ (IF "items" \in read THEN items ELSE {})
Boundary == (IF "items" \in read THEN page ELSE page - 1) * pageSize
Behind == {r \in Ungiven : Rank(r) < Boundary}

\* Behind the walk are no more than have dropped out, a short page has no row ahead
\* of it, and a total misses what came in after it was counted.
Losing ==
    /\ Cardinality(Behind) <= left
    /\ "items" \in read /\ Cardinality(items) < pageSize => Cardinality(Ungiven) <= left
    /\ read = {"total", "items"} /\ page * pageSize >= total =>
           Cardinality(Ungiven) <= left + entered

MInv ==
    /\ \A r \in known \ Matching : status[r] = "CANCELLED"
    /\ "total" \in read => Cardinality(Matching) <= total + entered
    /\ walk = "listing" => Losing
    /\ MissesAtMostChanges

LEMMA Fewer ==
    ASSUME NEW S, NEW T, T \subseteq S, S \subseteq Rows
    PROVE  Cardinality(T) <= Cardinality(S) /\ Cardinality(T) \in Nat /\ Cardinality(S) \in Nat
BY SomeRows, FS_Subset

LEMMA SomeUngiven ==
    /\ Matching \subseteq Rows /\ Missed \subseteq Matching /\ Ungiven \subseteq Missed
    /\ Behind \subseteq Ungiven
    /\ Cardinality(Ungiven) \in Nat /\ Cardinality(Behind) \in Nat
    /\ Cardinality(Missed) \in Nat /\ Cardinality(Matching) \in Nat
<1>1. /\ Matching \subseteq Rows /\ Missed \subseteq Matching /\ Ungiven \subseteq Missed
      /\ Behind \subseteq Ungiven
    BY DEF Matching, Missed, Ungiven, Behind
<1> QED BY <1>1, SomeRows

\* The last of n rows has rank n - 1.
LEMMA RankBound ==
    ASSUME NEW r \in Matching
    PROVE  Rank(r) < Cardinality(Matching)
<1> DEFINE Pre == {x \in Matching : Before(x, r)}
<1>1. r \in Rows /\ r \notin Pre /\ Pre \in SUBSET Matching /\ Matching \subseteq Rows
    BY TotalOrder DEF Matching
<1> HIDE DEF Pre
<1>2. /\ Cardinality(Pre) <= Cardinality(Matching) /\ Cardinality(Pre) # Cardinality(Matching)
      /\ Cardinality(Pre) \in Nat /\ Cardinality(Matching) \in Nat
    BY <1>1, SomeRows, FS_Subset
<1>3. Rank(r) = Cardinality(Pre)
    BY DEF Rank, Pre
<1> QED BY <1>2, <1>3

\* No more rows have rank n or a later one than there are beyond the first n.
LEMMA AheadBound ==
    ASSUME NEW n \in Nat, NEW m \in Nat, Cardinality(Matching) <= n + m
    PROVE  Cardinality({r \in Matching : Rank(r) >= n}) <= m
<1>1. {r \in Matching : Rank(r) >= n} \subseteq findMany(n, m)
    BY RankBound, RankType, SomeUngiven DEF findMany
<1>2. findMany(n, m) \subseteq Rows
    BY SomeUngiven DEF findMany
<1>3. Cardinality(findMany(n, m)) <= m
    BY PageBound
<1>4. /\ Cardinality({r \in Matching : Rank(r) >= n}) <= Cardinality(findMany(n, m))
      /\ Cardinality({r \in Matching : Rank(r) >= n}) \in Nat
      /\ Cardinality(findMany(n, m)) \in Nat
    BY <1>1, <1>2, Fewer
<1> QED BY <1>3, <1>4

LEMMA BoundaryType ==
    ASSUME ListingTypeOK
    PROVE  Boundary \in Nat /\ page * pageSize \in Nat
           /\ Boundary = IF "items" \in read THEN page * pageSize ELSE (page - 1) * pageSize
<1>1. page \in Nat /\ page >= 1
    BY DEF ListingTypeOK
<1>2. (page - 1) * pageSize \in Nat /\ page * pageSize \in Nat
    BY <1>1, OffsetType, PageSizeType
<1> QED BY <1>2 DEF Boundary

\* What was missed before a step, and is missed after it.
LEMMA MissedKept ==
    ASSUME ListingTypeOK, ListingTypeOK', MInv, UNCHANGED clientVars,
           left' >= left, entered' >= entered, Missed' \subseteq Missed,
           Cardinality(Matching') <= Cardinality(Matching) + (entered' - entered),
           walk = "listing" => Cardinality(Behind)' <= left',
           \A r \in known \ Matching' : status'[r] = "CANCELLED"
    PROVE  MInv'
<1>1. UNCHANGED <<walk, stopsAt, page, read, total, items, seen, known>>
    BY DEF clientVars
<1>2. Ungiven' \subseteq Ungiven
    BY <1>1 DEF Ungiven
<1>3. Cardinality(Ungiven') <= Cardinality(Ungiven) /\ Cardinality(Missed') <= Cardinality(Missed)
      /\ Cardinality(Ungiven') \in Nat /\ Cardinality(Missed') \in Nat
    BY <1>2, SomeUngiven, Fewer
<1>4. /\ left \in Nat /\ left' \in Nat /\ entered \in Nat /\ entered' \in Nat /\ total \in Nat
      /\ Cardinality(Matching) \in Nat /\ Cardinality(Matching') \in Nat
    <2>1. Matching' \subseteq Rows
        BY DEF Matching
    <2> QED BY <2>1, SomeUngiven, SomeRows DEF ListingTypeOK
<1>5. ("total" \in read => Cardinality(Matching) <= total + entered)'
    BY <1>1, <1>4 DEF MInv
<1>6. (walk = "listing" => Losing)'
    BY <1>1, <1>3, <1>4, SomeUngiven DEF MInv, Losing
<1>7. MissesAtMostChanges'
    BY <1>1, <1>3, <1>4, SomeUngiven DEF MInv, MissesAtMostChanges
<1> QED BY <1>1, <1>5, <1>6, <1>7 DEF MInv

\* A row begins to match, or none does: none of those before it comes nearer to the front.
LEMMA EnteringMissesNone ==
    ASSUME ListingTypeOK, ListingTypeOK', MInv, NEW r \in Rows, UNCHANGED clientVars,
           \/ Matching' = Matching /\ entered' = entered
           \/ Matching' = Matching \cup {r} /\ r \notin Matching \cup known
              /\ entered' = entered + 1,
           left' = left,
           \A x \in known \ Matching' : status'[x] = "CANCELLED"
    PROVE  MInv'
<1>1. UNCHANGED <<walk, page, read, items, seen, known>>
    BY DEF clientVars
<1>2. Missed' = Missed
    BY <1>1 DEF Missed
<1>3. entered' >= entered /\ Cardinality(Matching') <= Cardinality(Matching) + (entered' - entered)
    <2>1. IsFiniteSet(Matching) /\ Cardinality(Matching) \in Nat /\ entered \in Nat
        BY SomeUngiven, SomeRows DEF ListingTypeOK
    <2>2. CASE Matching' = Matching /\ entered' = entered
        BY <2>1, <2>2
    <2>3. CASE /\ Matching' = Matching \cup {r} /\ r \notin Matching
               /\ entered' = entered + 1
        <3> DEFINE M == Matching
        <3>1. IsFiniteSet(M) /\ Cardinality(M) \in Nat /\ r \notin M
            BY <2>1, <2>3
        <3> HIDE DEF M
        <3>2. Cardinality(M \cup {r}) = Cardinality(M) + 1
            BY <3>1, FS_AddElement
        <3>3. Cardinality(Matching') = Cardinality(Matching) + 1
            BY <2>3, <3>2 DEF M
        <3> QED BY <2>1, <2>3, <3>3
    <2> QED BY <2>2, <2>3
<1>4. ASSUME NEW x PROVE Rank(x) <= Rank(x)' /\ Rank(x) \in Nat /\ Rank(x)' \in Nat
    <2> DEFINE Pre == {y \in Matching : Before(y, x)}
               Post == {y \in Matching' : Before(y, x)}
    <2>1. Pre \subseteq Post /\ Post \subseteq Rows
        BY DEF Matching
    <2> QED BY <2>1, Fewer DEF Rank, Before
<1>5. Behind' \subseteq Behind
    <2>1. Boundary' = Boundary /\ Ungiven' = Ungiven /\ Boundary \in Nat
        BY <1>1, <1>2, BoundaryType DEF Boundary, Ungiven
    <2> QED BY <1>4, <2>1 DEF Behind
<1>6. walk = "listing" => Cardinality(Behind)' <= left'
    <2>1. Cardinality(Behind') <= Cardinality(Behind) /\ Cardinality(Behind') \in Nat
        BY <1>5, SomeUngiven, Fewer
    <2> QED BY <2>1, SomeUngiven DEF MInv, Losing, ListingTypeOK
<1>7. left' >= left
    BY DEF ListingTypeOK
<1> QED BY <1>2, <1>3, <1>6, <1>7, MissedKept

\* A row drops out: of the others one at most moves from the next page to the last one.
LEMMA LeavingMissesOne ==
    ASSUME ListingTypeOK, ListingTypeOK', MInv, NEW r \in Matching, UNCHANGED clientVars,
           Matching' = Matching \ {r}, left' = left + 1, entered' = entered,
           \A x \in known \ Matching' : status'[x] = "CANCELLED"
    PROVE  MInv'
<1>1. UNCHANGED <<walk, page, read, items, seen, known>>
    BY DEF clientVars
<1>2. Missed' \subseteq Missed /\ Ungiven' \subseteq Ungiven
    BY <1>1 DEF Missed, Ungiven
<1>3. left \in Nat /\ entered \in Nat /\ left' >= left /\ entered' >= entered
    BY DEF ListingTypeOK
<1>4. Cardinality(Matching') <= Cardinality(Matching) + (entered' - entered)
    <2>1. Cardinality(Matching') <= Cardinality(Matching) /\ Cardinality(Matching') \in Nat
        BY SomeUngiven, Fewer
    <2> QED BY <1>3, <2>1, SomeUngiven
<1>5. ASSUME NEW x PROVE Rank(x) <= Rank(x)' + 1 /\ Rank(x) \in Nat /\ Rank(x)' \in Nat
    <2> DEFINE Pre == {y \in Matching : Before(y, x)}
               Post == {y \in Matching' : Before(y, x)}
    <2>1. Pre \subseteq Rows /\ Post \subseteq Rows /\ Pre \subseteq Post \cup {r}
          /\ Post \cup {r} \subseteq Rows
        BY SomeUngiven
    <2>2. /\ Cardinality(Pre) <= Cardinality(Post \cup {r})
          /\ Cardinality(Post \cup {r}) <= Cardinality(Post) + 1
          /\ Cardinality(Pre) \in Nat /\ Cardinality(Post) \in Nat
          /\ Cardinality(Post \cup {r}) \in Nat
        BY <2>1, Fewer, SomeRows, FS_AddElement
    <2> QED BY <2>2 DEF Rank, Before
<1>6. Boundary' = Boundary /\ Boundary \in Nat
    BY <1>1, BoundaryType DEF Boundary
<1>7. \E m : Behind' \subseteq Behind \cup {m}
    <2> DEFINE Next1 == {x \in Ungiven : Rank(x) = Boundary}
               m == CHOOSE x \in Next1 : TRUE
    <2>1. Ungiven \subseteq Matching
        BY SomeUngiven
    <2>2. \A x, y \in Next1 : x = y
        BY <2>1, RankInjective
    <2>3. Next1 \subseteq {m}
        BY <2>2
    <2>4. ASSUME NEW x \in Behind' PROVE x \in Behind \cup Next1
        <3>1. x \in Ungiven /\ Rank(x)' < Boundary
            BY <1>2, <1>6, <2>4 DEF Behind
        <3>2. Rank(x) < Boundary \/ Rank(x) = Boundary
            BY <1>5, <1>6, <3>1
        <3> QED BY <3>1, <3>2 DEF Behind
    <2> QED BY <2>3, <2>4
<1>8. walk = "listing" => Cardinality(Behind)' <= left'
    <2>1. PICK m : Behind' \subseteq Behind \cup {m}
        BY <1>7
    <2>2. IsFiniteSet(Behind) /\ Cardinality(Behind) \in Nat
        BY SomeUngiven, SomeRows
    <2>3. /\ IsFiniteSet(Behind \cup {m}) /\ Cardinality(Behind \cup {m}) \in Nat
          /\ Cardinality(Behind \cup {m}) <= Cardinality(Behind) + 1
        <3>1. /\ IsFiniteSet(Behind \cup {m})
              /\ Cardinality(Behind \cup {m}) =
                     IF m \in Behind THEN Cardinality(Behind) ELSE Cardinality(Behind) + 1
            BY <2>2, FS_AddElement, Zenon
        <3> QED BY <2>2, <3>1
    <2>4. Cardinality(Behind') <= Cardinality(Behind \cup {m}) /\ Cardinality(Behind') \in Nat
        BY <2>1, <2>3, FS_Subset, FS_CardinalityType
    <2> QED BY <1>3, <2>2, <2>3, <2>4 DEF MInv, Losing
<1> QED BY <1>2, <1>3, <1>4, <1>8, MissedKept

LEMMA TableStepKeepsMInv ==
    ASSUME ListingTypeOK, ListingTypeOK', MInv, NEW r \in Rows, Insert(r) \/ Cancel(r)
    PROVE  MInv'
<1>1. PICK new \in Statuses : /\ SetStatus(r, new)
                              /\ status[r] = "NONE" \/ (status[r] = "CONFIRMED" /\ new = "CANCELLED")
    BY DEF Insert, Cancel, Statuses
<1>2. /\ UNCHANGED clientVars /\ known' = known
      /\ status' = [status EXCEPT ![r] = new] /\ status \in [Rows -> Statuses \cup {"NONE"}]
    BY <1>1 DEF SetStatus, clientVars, ListingTypeOK
<1>3. \A x \in Rows : status'[x] = IF x = r THEN new ELSE status[x]
    BY <1>2
<1>4. Matching' = IF new \in where THEN Matching \cup {r} ELSE Matching \ {r}
    BY <1>3 DEF Matching
<1>5. /\ r \in Matching <=> status[r] \in where
      /\ \A x \in known \ Matching : status[x] = "CANCELLED"
    BY DEF Matching, MInv
<1>6. r \in known => r \in Matching
    BY <1>1, <1>5
<1>7. ASSUME NEW x \in known \ Matching' PROVE status'[x] = "CANCELLED"
    <2>1. x \in Rows
        BY DEF ListingTypeOK
    <2>2. CASE x # r
        BY <1>3, <1>4, <1>5, <1>7, <2>1, <2>2
    <2>3. CASE x = r
        <3>1. r \in Matching /\ new \notin where
            BY <1>4, <1>6, <1>7, <2>3
        <3>2. status[r] # "NONE"
            BY <1>5, <3>1, QueryAssumption DEF Statuses
        <3> QED BY <1>1, <1>3, <2>1, <2>3, <3>2
    <2> QED BY <2>2, <2>3
<1>8. CASE status[r] \in where /\ new \notin where
    <2>1. /\ r \in Matching /\ Matching' = Matching \ {r}
          /\ left' = left + 1 /\ entered' = entered
        BY <1>1, <1>4, <1>5, <1>8 DEF SetStatus
    <2> QED BY <1>2, <1>7, <2>1, LeavingMissesOne
<1>9. CASE status[r] \notin where /\ new \in where
    <2>1. /\ r \notin Matching \cup known /\ Matching' = Matching \cup {r}
          /\ left' = left /\ entered' = entered + 1
        BY <1>1, <1>4, <1>5, <1>6, <1>9 DEF SetStatus
    <2> QED BY <1>2, <1>7, <2>1, EnteringMissesNone
<1>10. CASE (status[r] \in where) = (new \in where)
    <2>1. Matching' = Matching /\ left' = left /\ entered' = entered
        BY <1>1, <1>4, <1>5, <1>10 DEF SetStatus
    <2> QED BY <1>2, <1>7, <2>1, EnteringMissesNone
<1> QED BY <1>8, <1>9, <1>10

\* The page is read: what is behind it was behind it before.
LEMMA FindManyKeepsMInv ==
    ASSUME ListingTypeOK, MInv, FindMany
    PROVE  MInv'
<1> DEFINE skip == (page - 1) * pageSize
           Ahead == {x \in Matching : Rank(x) >= skip + pageSize}
<1>1. /\ skip \in Nat /\ pageSize \in Nat /\ page * pageSize = skip + pageSize
      /\ Boundary = skip
    <2>1. page \in Nat /\ page >= 1
        BY DEF ListingTypeOK
    <2> QED BY <2>1, OffsetType, PageSizeType DEF FindMany, Boundary
<1>2. /\ UNCHANGED <<status, entered, left, walk, stopsAt, page, total, seen, known>>
      /\ walk = "listing" /\ "items" \notin read /\ read' = read \cup {"items"}
      /\ items' = findMany(skip, pageSize)
    BY DEF FindMany, tableVars
<1>3. Matching' = Matching /\ Missed' = Missed /\ \A x : Rank(x)' = Rank(x)
    BY <1>2 DEF Matching, Missed, Rank, Before
<1>4. Boundary' = skip + pageSize
    BY <1>1, <1>2 DEF Boundary
<1>5. Ungiven = Missed /\ Ungiven' = Missed \ findMany(skip, pageSize)
    BY <1>2, <1>3 DEF Ungiven
<1> HIDE DEF skip
<1>6. Missed \subseteq Matching /\ \A x \in Missed : Rank(x) \in Nat
    BY RankType, SomeUngiven
<1>7. Ungiven' \subseteq Behind \cup Ahead /\ Behind' \subseteq Behind
    <2>1. ASSUME NEW x \in Ungiven' PROVE x \in Behind \/ (x \in Ahead /\ ~(x \in Behind'))
        BY <1>1, <1>3, <1>4, <1>5, <1>6, <2>1 DEF Behind, findMany
    <2> QED BY <2>1 DEF Behind
<1>8. /\ Cardinality(Behind) <= left /\ left \in Nat /\ entered \in Nat /\ total \in Nat
      /\ Cardinality(Behind) \in Nat
    BY <1>2, SomeUngiven DEF MInv, Losing, ListingTypeOK
<1>9. /\ Cardinality(Behind') <= left' /\ Cardinality(Ungiven') \in Nat
      /\ Cardinality(Ungiven') <= left + Cardinality(Ahead) /\ Cardinality(Ahead) \in Nat
    <2>1. /\ Behind \subseteq Rows /\ Ahead \subseteq Rows /\ Behind \cup Ahead \subseteq Rows
        BY SomeUngiven
    <2>2. /\ Cardinality(Behind') <= Cardinality(Behind) /\ Cardinality(Behind') \in Nat
          /\ Cardinality(Ungiven') <= Cardinality(Behind \cup Ahead)
          /\ Cardinality(Ungiven') \in Nat
        BY <1>7, <2>1, Fewer
    <2>3. /\ Cardinality(Behind \cup Ahead) <= Cardinality(Behind) + Cardinality(Ahead)
          /\ Cardinality(Behind \cup Ahead) \in Nat /\ Cardinality(Ahead) \in Nat
        <3> DEFINE both == Behind \cap Ahead
        <3>1. both \subseteq Rows
            BY <2>1
        <3>2. Cardinality(both) \in Nat /\ Cardinality(Ahead) \in Nat
            BY <2>1, <3>1, SomeRows
        <3>3. /\ IsFiniteSet(Behind) /\ IsFiniteSet(Ahead)
              /\ Cardinality(Behind \cup Ahead) \in Nat
            BY <2>1, SomeRows
        <3>4. Cardinality(Behind \cup Ahead)
                  = Cardinality(Behind) + Cardinality(Ahead) - Cardinality(both)
            BY <3>3, FS_Union
        <3> QED BY <1>8, <3>2, <3>3, <3>4
    <2> QED BY <1>2, <1>8, <2>2, <2>3
<1>10. ASSUME Cardinality(items') < pageSize PROVE Cardinality(Ahead) = 0
    <2>1. ASSUME NEW x \in Ahead PROVE FALSE
        <3>1. Cardinality(findMany(skip, pageSize)) >= pageSize
            BY <1>1, FullPage
        <3>2. Cardinality(findMany(skip, pageSize)) \in Nat
            BY SomeRows DEF findMany, Matching
        <3> QED BY <1>1, <1>2, <1>10, <3>1, <3>2
    <2>2. Ahead = {}
        BY <2>1
    <2> QED BY <2>2, FS_EmptySet
<1>11. ASSUME "total" \in read, page * pageSize >= total PROVE Cardinality(Ahead) <= entered
    <2>1. Cardinality(Matching) <= (skip + pageSize) + entered
        BY <1>1, <1>8, <1>11, SomeUngiven DEF MInv
    <2> QED BY <1>1, <1>8, <2>1, AheadBound
<1> HIDE DEF Ahead
<1>12. Losing'
    BY <1>2, <1>8, <1>9, <1>10, <1>11 DEF Losing
<1>13. MissesAtMostChanges'
    BY <1>2 DEF MissesAtMostChanges
<1> QED BY <1>2, <1>3, <1>12, <1>13 DEF MInv

\* The total is read: of the rows counted none is ahead of a last page read before.
LEMMA CountKeepsMInv ==
    ASSUME ListingTypeOK, MInv, Count
    PROVE  MInv'
<1>1. /\ UNCHANGED <<status, entered, left, walk, stopsAt, page, items, seen, known>>
      /\ walk = "listing" /\ total' = Cardinality(Matching)
      /\ read' = read \cup {"total"} /\ ("items" \in read' <=> "items" \in read)
    BY DEF Count, tableVars
<1>2. Matching' = Matching /\ Missed' = Missed /\ \A x : Rank(x)' = Rank(x)
    BY <1>1 DEF Matching, Missed, Rank, Before
<1>3. Ungiven' = Ungiven /\ Behind' = Behind
    <2>1. Ungiven' = Ungiven /\ Boundary' = Boundary
        BY <1>1, <1>2 DEF Ungiven, Boundary
    <2> QED BY <1>2, <2>1 DEF Behind
<1>4. Losing /\ left \in Nat /\ entered \in Nat
    BY <1>1 DEF MInv, ListingTypeOK
<1>5. ASSUME "items" \in read, page * pageSize >= total' PROVE Ungiven = Behind
    <2>1. ASSUME NEW x \in Ungiven PROVE Rank(x) < Boundary
        <3>1. Rank(x) < Cardinality(Matching) /\ Rank(x) \in Nat
            BY <2>1, RankBound, RankType, SomeUngiven
        <3> QED BY <1>1, <1>5, <3>1, BoundaryType, SomeUngiven
    <2> QED BY <2>1, SomeUngiven DEF Behind
<1>6. Losing'
    BY <1>1, <1>3, <1>4, <1>5, SomeUngiven DEF Losing
<1>7. (Cardinality(Matching) <= total + entered)'
    BY <1>1, <1>2, <1>4, SomeUngiven
<1>8. MissesAtMostChanges'
    BY <1>1 DEF MissesAtMostChanges
<1> QED BY <1>1, <1>2, <1>6, <1>7, <1>8 DEF MInv

\* The client goes on to the next page, or stops.
LEMMA ReceiveKeepsMInv ==
    ASSUME ListingTypeOK, MInv, Receive
    PROVE  MInv'
<1>1. /\ UNCHANGED <<status, entered, left, stopsAt, total, items, known>>
      /\ walk = "listing" /\ read = {"total", "items"} /\ read' = {} /\ seen' = seen \cup items
      /\ walk' \in {"listing", "finished"}
    BY DEF Receive, tableVars
<1>2. Matching' = Matching /\ \A x : Rank(x)' = Rank(x)
    BY <1>1 DEF Matching, Rank, Before
<1>3. Missed' = Ungiven /\ Ungiven' = Ungiven
    BY <1>1, <1>2 DEF Missed, Ungiven
<1>4. /\ Losing /\ left \in Nat /\ entered \in Nat /\ total \in Nat
      /\ page * pageSize \in Nat /\ Boundary = page * pageSize
    BY <1>1, BoundaryType DEF MInv, ListingTypeOK
<1>5. ASSUME walk' = "listing" PROVE Losing'
    <2>1. page' = page + 1 /\ page \in Nat /\ page >= 1
        BY <1>1, <1>5 DEF Receive, ListingTypeOK
    <2>2. Boundary' = Boundary
        BY <1>1, <1>4, <2>1, OffsetType DEF Boundary
    <2>3. Behind' = Behind
        BY <1>2, <1>3, <2>2 DEF Behind
    <2> QED BY <1>1, <1>4, <2>3 DEF Losing
<1>6. MissesAtMostChanges'
    <2> SUFFICES ASSUME walk' = "finished"
                 PROVE  Cardinality(Ungiven) <= left + IF stopsAt = "total" THEN entered ELSE 0
        BY <1>1, <1>3 DEF MissesAtMostChanges
    <2>1. LastPage
        BY <1>1 DEF Receive
    <2>2. CASE stopsAt = "total"
        BY <1>1, <1>4, <2>1, <2>2 DEF LastPage, Losing
    <2>3. CASE stopsAt # "total"
        BY <1>1, <1>4, <2>1, <2>3, SomeUngiven DEF LastPage, Losing
    <2> QED BY <2>2, <2>3
<1> QED BY <1>1, <1>2, <1>5, <1>6 DEF MInv

\* The client starts.
LEMMA StartMakesMInv ==
    ASSUME LInv, Start
    PROVE  MInv'
<1>1. /\ walk' = "listing" /\ known' = Matching' /\ read' = {} /\ page' = 1
      /\ left' = 0 /\ entered' = 0
    BY DEF LInv, Start, Matching
<1>2. Boundary' = 0
    BY <1>1, PageSizeType DEF Boundary
<1>3. Behind' = {}
    <2>1. ASSUME NEW x \in Behind' PROVE FALSE
        <3>1. {y \in Matching' : Before(y, x)} \subseteq Rows
            BY DEF Matching
        <3>2. Rank(x)' \in Nat /\ Rank(x)' < 0
            BY <1>2, <2>1, <3>1, SomeRows DEF Behind, Rank, Before
        <3> QED BY <3>2
    <2> QED BY <2>1
<1>4. Losing'
    BY <1>1, <1>3, FS_EmptySet DEF Losing
<1> QED BY <1>1, <1>4 DEF MInv, MissesAtMostChanges

LEMMA NextKeepsMInv ==
    ASSUME LInv, MInv, ListingTypeOK', [ListingNext]_listingVars
    PROVE  MInv'
<1>1. ListingTypeOK
    BY DEF LInv
<1>2. CASE UNCHANGED listingVars
    BY <1>2 DEF listingVars, tableVars, clientVars, MInv, Losing, MissesAtMostChanges, Behind,
                Boundary, Ungiven, Missed, Matching, Rank, Before
<1> QED BY <1>1, <1>2, TableStepKeepsMInv, CountKeepsMInv, FindManyKeepsMInv, StartMakesMInv,
           ReceiveKeepsMInv DEF ListingNext, ListNext

\* A finished walk has missed, of what matched at its start and still does, at most one
\* row for each that dropped out, and one for each that came in if it trusted `total'.
THEOREM FewMissed == ListingSpec => []MissesAtMostChanges
<1>1. ListingInit => MInv
    BY DEF ListingInit, MInv, MissesAtMostChanges
<1>2. LInv /\ MInv /\ ListingTypeOK' /\ [ListingNext]_listingVars => MInv'
    BY NextKeepsMInv
<1>3. MInv => MissesAtMostChanges
    BY DEF MInv
<1> QED BY <1>1, <1>2, <1>3, ListingInvariance, ListingTypes, PTL DEF ListingSpec

-----------------------------------------------------------------------------
(* Customers *)

\* The unique index does not tell apart spellings of one mailbox.
LEMMA OneSpelling ==
    ASSUME NEW x \in Rows, NEW y \in Rows
    PROVE  normalizeEmail(email[x]) = normalizeEmail(email[y]) <=> SameMailbox(x, y)
<1>1. /\ email[x] = [mailbox |-> email[x].mailbox, typed |-> email[x].typed]
      /\ email[y] = [mailbox |-> email[y].mailbox, typed |-> email[y].typed]
    BY EmailAssumption
<1>2. /\ normalizeEmail(email[x]) = [mailbox |-> email[x].mailbox, typed |-> "plain"]
      /\ normalizeEmail(email[y]) = [mailbox |-> email[y].mailbox, typed |-> "plain"]
    BY <1>1 DEF normalizeEmail
<1> QED BY <1>2 DEF SameMailbox

CustomerRow(r) ==
    /\ status[r] \in {"NONE", "CONFIRMED"}
    /\ answer[r] = "201" => status[r] # "NONE"
    /\ answer[r] = "409" => \E x \in Rows : status[x] # "NONE" /\ SameMailbox(x, r)

CInv ==
    /\ status \in [Rows -> Statuses \cup {"NONE"}]
    /\ answer \in [Rows -> {"none", "201", "409", "500"}]
    /\ \A r \in Rows : CustomerRow(r)
    /\ \A x, y \in Rows : x # y /\ SameMailbox(x, y) => status[x] = "NONE" \/ status[y] = "NONE"

LEMMA CreateKeepsCInv ==
    ASSUME CInv, NEW r \in Rows, Create(r)
    PROVE  CInv'
<1>1. /\ status[r] = "NONE" /\ status' = [status EXCEPT ![r] = "CONFIRMED"]
      /\ \E code \in {"201", "500"} : answer' = [answer EXCEPT ![r] = code]
    BY DEF Create, Insert, SetStatus, Answer
<1>2. /\ \A x \in Rows : status'[x] = IF x = r THEN "CONFIRMED" ELSE status[x]
      /\ \A x \in Rows \ {r} : answer'[x] = answer[x]
      /\ answer'[r] \in {"201", "500"}
      /\ status' \in [Rows -> Statuses \cup {"NONE"}]
      /\ answer' \in [Rows -> {"none", "201", "409", "500"}]
    BY <1>1 DEF CInv, Statuses
<1>3. \A x \in Rows : status[x] # "NONE" => ~SameMailbox(x, r)
    BY OneSpelling DEF Create, UniqueViolation
<1>4. ASSUME NEW x \in Rows PROVE CustomerRow(x)'
    BY <1>2 DEF CInv, CustomerRow, SameMailbox
<1>5. \A x, y \in Rows : x # y /\ SameMailbox(x, y) => status'[x] = "NONE" \/ status'[y] = "NONE"
    BY <1>2, <1>3 DEF CInv, SameMailbox
<1> QED BY <1>2, <1>4, <1>5 DEF CInv, SameMailbox

LEMMA RefusalKeepsCInv ==
    ASSUME CInv, NEW r \in Rows, CreateRefused(r) \/ CreateFails(r)
    PROVE  CInv'
<1>1. PICK code \in {"409", "500"} :
        /\ answer' = [answer EXCEPT ![r] = code] /\ status' = status
        /\ code = "409" => UniqueViolation(r)
    BY DEF CreateRefused, CreateFails, Answer, listingVars, tableVars
<1>2. code = "409" => \E x \in Rows : status[x] # "NONE" /\ SameMailbox(x, r)
    BY <1>1, OneSpelling DEF UniqueViolation
<1>3. /\ answer' \in [Rows -> {"none", "201", "409", "500"}]
      /\ \A x \in Rows : answer'[x] = IF x = r THEN code ELSE answer[x]
    BY <1>1 DEF CInv
<1>4. ASSUME NEW x \in Rows PROVE CustomerRow(x)'
    BY <1>1, <1>2, <1>3 DEF CInv, CustomerRow, SameMailbox
<1> QED BY <1>1, <1>3, <1>4 DEF CInv, SameMailbox

LEMMA NextKeepsCInv == CInv /\ [Next]_customersVars => CInv'
<1> SUFFICES ASSUME CInv, [Next]_customersVars PROVE CInv'
    OBVIOUS
<1>1. CASE UNCHANGED <<status, answer>>
    BY <1>1 DEF CInv, CustomerRow, SameMailbox
<1>2. ListNext \/ UNCHANGED listingVars => status' = status
    BY DEF ListNext, Count, FindMany, Start, Receive, listingVars, tableVars
<1> QED BY <1>1, <1>2, CreateKeepsCInv, RefusalKeepsCInv DEF Next, customersVars

\* What the two theorems below are read from.
THEOREM CustomersInvariance == Spec => []CInv
<1>1. Init => CInv
    BY DEF Init, ListingInit, CInv, CustomerRow
<1> QED BY <1>1, NextKeepsCInv, PTL DEF Spec

\* An e-mail is one customer's, however it was typed and however many requests create it
\* together, and one of those at most is answered 201.
THEOREM OneCustomer == Spec => []OneCustomerPerEmail
<1>1. CInv => OneCustomerPerEmail
    BY DEF CInv, CustomerRow, OneCustomerPerEmail
<1> QED BY <1>1, CustomersInvariance, PTL

\* A 201 is in the table, and a 409 names an e-mail that is.
THEOREM CustomersAnswered == Spec => []AnswersAreTrue
<1>1. CInv => AnswersAreTrue
    BY DEF CInv, CustomerRow, AnswersAreTrue
<1> QED BY <1>1, CustomersInvariance, PTL
=============================================================================
