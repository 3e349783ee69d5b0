------------------------ MODULE OrderRequest_proofs -------------------------
(***************************************************************************)
(* For every body a client may send, every pair of configured keys and     *)
(* every limit: what Sales lets through Inventory takes, an                *)
(* Idempotency-Key stands for one order however it is spelled, and the     *)
(* reader's key writes nothing.                                            *)
(*                                                                         *)
(* The argument is about sorting: two orders of the same parts and         *)
(* quantities are sorted into the same sequence, and sorting a sorted one  *)
(* changes nothing, so that what Inventory fingerprints is what Sales      *)
(* hashed.                                                                 *)
(***************************************************************************)
EXTENDS OrderRequest, FiniteSetTheorems, SequenceTheorems, TLAPS

Name(items, i) == items[i].partId.name

\* No part twice.
Distinct(items) == \A i, j \in DOMAIN items : Name(items, i) = Name(items, j) => i = j

\* Every item of the one is an item of the other.
Within(items, others) ==
    \A i \in DOMAIN items : \E j \in DOMAIN others : others[j] = items[i]

Place(items, i) == Cardinality(Before(items, i)) + 1

-----------------------------------------------------------------------------
(* Sorting *)

\* What the items of a request are.
LEMMA ItemTypes ==
    ASSUME NEW s \in Items
    PROVE  /\ Len(s) \in Nat /\ DOMAIN s = 1..Len(s)
           /\ \A i \in DOMAIN s : /\ s[i] \in [partId : Values, quantity : Int]
                                  /\ s[i].partId \in Values /\ s[i].quantity \in Int
                                  /\ Name(s, i) \in Int
<1>1. Len(s) \in Nat /\ DOMAIN s = 1..Len(s)
  BY LenProperties DEF Items
<1>2. \A i \in DOMAIN s : s[i] \in [partId : Values, quantity : Int]
  BY <1>1, ElementOfSeq DEF Items
<1> QED BY <1>1, <1>2 DEF Values, Name

\* Each item has a place of its own: sorting is a permutation.
LEMMA Places ==
    ASSUME NEW s \in Items
    PROVE  /\ \A i \in DOMAIN s : Place(s, i) \in DOMAIN s
           /\ \A i, j \in DOMAIN s : Place(s, i) = Place(s, j) => i = j
           /\ \A p \in DOMAIN s : \E i \in DOMAIN s : Place(s, i) = p
<1> DEFINE n == Len(s)
<1>1. n \in Nat /\ DOMAIN s = 1..n /\ \A i \in 1..n : Name(s, i) \in Int
  BY ItemTypes
<1>2. IsFiniteSet(1..n) /\ Cardinality(1..n) = n
  <2> HIDE DEF n
  <2> QED BY <1>1, FS_Interval
<1>3. \A i \in 1..n : /\ IsFiniteSet(Before(s, i)) /\ Cardinality(Before(s, i)) \in Nat
                      /\ i \notin Before(s, i) /\ Before(s, i) \subseteq 1..n
  <2> SUFFICES ASSUME NEW i \in 1..n
               PROVE  /\ IsFiniteSet(Before(s, i)) /\ Cardinality(Before(s, i)) \in Nat
                      /\ i \notin Before(s, i) /\ Before(s, i) \subseteq 1..n
    OBVIOUS
  <2>1. i \notin Before(s, i) /\ Before(s, i) \subseteq 1..n
    BY <1>1 DEF Before, Name
  <2> QED BY <1>2, <2>1, FS_Subset, FS_CardinalityType
<1>4. ASSUME NEW i \in 1..n PROVE Place(s, i) \in 1..n
  <2>1. Before(s, i) \subseteq (1..n) \ {i}
    BY <1>3
  <2>2. IsFiniteSet((1..n) \ {i}) /\ Cardinality((1..n) \ {i}) = n - 1
    BY <1>2, FS_RemoveElement
  <2>3. Cardinality(Before(s, i)) <= n - 1
    BY <2>1, <2>2, FS_Subset
  <2> QED BY <1>1, <1>3, <2>3 DEF Place
<1>5. ASSUME NEW i \in 1..n, NEW j \in 1..n, i \in Before(s, j) PROVE Place(s, i) < Place(s, j)
  <2>1. Before(s, i) \cup {i} \subseteq Before(s, j)
    BY <1>1, <1>5 DEF Before, Name
  <2>2. Cardinality(Before(s, i) \cup {i}) = Cardinality(Before(s, i)) + 1
    BY <1>3, FS_AddElement
  <2>3. Cardinality(Before(s, i) \cup {i}) <= Cardinality(Before(s, j))
    BY <1>3, <2>1, FS_Subset
  <2> QED BY <1>3, <2>2, <2>3 DEF Place
<1>6. ASSUME NEW i \in 1..n, NEW j \in 1..n, i # j PROVE Place(s, i) # Place(s, j)
  <2>1. i \in Before(s, j) \/ j \in Before(s, i)
    BY <1>1, <1>6 DEF Before, Name
  <2> QED BY <1>1, <1>4, <1>5, <2>1
<1>7. \A p \in 1..n : \E i \in 1..n : Place(s, i) = p
  <2> DEFINE f == [i \in 1..n |-> Place(s, i)]
  <2>1. f \in Injection(1..n, 1..n)
    BY <1>4, <1>6 DEF Injection, IsInjective
  <2>2. f \in Surjection(1..n, 1..n)
    <3> HIDE DEF f, n
    <3> QED BY <1>2, <2>1, FS_Injection
  <2>3. \A p \in 1..n : \E i \in 1..n : f[i] = p
    <3> HIDE DEF f, n
    <3> QED BY <2>2 DEF Surjection
  <2> QED BY <2>3
<1> QED BY <1>1, <1>4, <1>6, <1>7

\* The item at a place is the one whose place it is.
LEMMA Sorted ==
    ASSUME NEW s \in Items
    PROVE  /\ ByPart(s) \in Items /\ Len(ByPart(s)) = Len(s) /\ DOMAIN ByPart(s) = DOMAIN s
           /\ \A p \in DOMAIN s : \E i \in DOMAIN s : Place(s, i) = p /\ ByPart(s)[p] = s[i]
<1>1. Len(s) \in Nat /\ DOMAIN s = 1..Len(s)
  BY ItemTypes
<1>2. \A p \in DOMAIN s : \E i \in DOMAIN s : Place(s, i) = p /\ ByPart(s)[p] = s[i]
  <2> SUFFICES ASSUME NEW p \in DOMAIN s
               PROVE  \E i \in DOMAIN s : Place(s, i) = p /\ ByPart(s)[p] = s[i]
    OBVIOUS
  <2> DEFINE i == CHOOSE i \in DOMAIN s : Cardinality(Before(s, i)) = p - 1
  <2>1. \A j \in DOMAIN s : Cardinality(Before(s, j)) \in Nat
    <3>1. IsFiniteSet(DOMAIN s)
      BY <1>1, FS_Interval
    <3>2. \A j \in DOMAIN s : Before(s, j) \subseteq DOMAIN s
      BY DEF Before
    <3> QED BY <3>1, <3>2, FS_Subset, FS_CardinalityType
  <2>2. \E j \in DOMAIN s : Cardinality(Before(s, j)) = p - 1
    BY <1>1, <2>1, Places DEF Place
  <2>3. i \in DOMAIN s /\ Cardinality(Before(s, i)) = p - 1
    BY <2>2
  <2>4. ByPart(s)[p] = s[i]
    BY DEF ByPart
  <2>5. Place(s, i) = p
    <3> HIDE DEF i
    <3> QED BY <1>1, <2>1, <2>3 DEF Place
  <2> QED BY <2>3, <2>4, <2>5
<1>3. DOMAIN ByPart(s) = DOMAIN s
  BY DEF ByPart
<1>4. ByPart(s) \in [1..Len(s) -> [partId : Values, quantity : Int]]
  <2>1. \A p \in DOMAIN s : ByPart(s)[p] \in [partId : Values, quantity : Int]
    BY <1>2, ItemTypes
  <2> QED BY <1>1, <2>1 DEF ByPart
<1>5. ByPart(s) \in Items /\ Len(ByPart(s)) = Len(s)
  BY <1>1, <1>4 DEF Items
<1> QED BY <1>2, <1>3, <1>5

\* Sorting adds nothing, loses nothing and makes no part appear twice.
LEMMA SortedSame ==
    ASSUME NEW s \in Items
    PROVE  /\ Within(ByPart(s), s) /\ Within(s, ByPart(s))
           /\ Distinct(s) => Distinct(ByPart(s))
<1>1. Within(ByPart(s), s)
  BY Sorted DEF Within
<1>2. Within(s, ByPart(s))
  <2> SUFFICES ASSUME NEW i \in DOMAIN s
               PROVE  \E p \in DOMAIN ByPart(s) : ByPart(s)[p] = s[i]
    BY DEF Within
  <2>1. Place(s, i) \in DOMAIN s
    BY Places
  <2>2. PICK j \in DOMAIN s : Place(s, j) = Place(s, i) /\ ByPart(s)[Place(s, i)] = s[j]
    BY <2>1, Sorted
  <2>3. j = i
    BY <2>2, Places
  <2> QED BY <2>1, <2>2, <2>3, Sorted
<1>3. ASSUME Distinct(s) PROVE Distinct(ByPart(s))
  <2> SUFFICES ASSUME NEW p \in DOMAIN s, NEW q \in DOMAIN s,
                      Name(ByPart(s), p) = Name(ByPart(s), q)
               PROVE  p = q
    BY Sorted DEF Distinct
  <2>1. PICK i \in DOMAIN s : Place(s, i) = p /\ ByPart(s)[p] = s[i]
    BY Sorted
  <2>2. PICK j \in DOMAIN s : Place(s, j) = q /\ ByPart(s)[q] = s[j]
    BY Sorted
  <2>3. i = j
    BY <1>3, <2>1, <2>2 DEF Distinct, Name
  <2> QED BY <2>1, <2>2, <2>3
<1> QED BY <1>1, <1>2, <1>3

\* What is before an item in one order is before it in any order with those items.
LEMMA NoFurtherBack ==
    ASSUME NEW s \in Items, NEW t \in Items, Distinct(s), Distinct(t), Within(s, t)
    PROVE  /\ Len(s) <= Len(t)
           /\ \A i \in DOMAIN s, j \in DOMAIN t : s[i] = t[j] => Place(s, i) <= Place(t, j)
<1> DEFINE at(a) == CHOOSE b \in DOMAIN t : t[b] = s[a]
<1>1. /\ Len(s) \in Nat /\ DOMAIN s = 1..Len(s) /\ \A i \in DOMAIN s : Name(s, i) \in Int
      /\ Len(t) \in Nat /\ DOMAIN t = 1..Len(t) /\ \A i \in DOMAIN t : Name(t, i) \in Int
  BY ItemTypes
<1>2. \A a \in DOMAIN s : at(a) \in DOMAIN t /\ t[at(a)] = s[a]
  BY DEF Within
<1>3. \A a, b \in DOMAIN s : at(a) = at(b) => a = b
  <2> SUFFICES ASSUME NEW a \in DOMAIN s, NEW b \in DOMAIN s, at(a) = at(b) PROVE a = b
    OBVIOUS
  <2>1. s[a] = s[b]
    BY <1>2
  <2> QED BY <2>1 DEF Distinct, Name
<1> HIDE DEF at
<1>4. Len(s) <= Len(t)
  <2> DEFINE f == [a \in DOMAIN s |-> at(a)]
  <2>1. f \in Injection(DOMAIN s, DOMAIN t)
    BY <1>2, <1>3 DEF Injection, IsInjective
  <2>2. \A n \in Nat : IsFiniteSet(1..n) /\ Cardinality(1..n) = n
    BY FS_Interval
  <2>3. /\ IsFiniteSet(DOMAIN t) /\ Cardinality(DOMAIN s) = Len(s)
        /\ Cardinality(DOMAIN t) = Len(t)
    BY <1>1, <2>2
  <2> HIDE DEF f
  <2> QED BY <2>1, <2>3, FS_Injection
<1>5. ASSUME NEW i \in DOMAIN s, NEW j \in DOMAIN t, s[i] = t[j]
      PROVE  Place(s, i) <= Place(t, j)
  <2> DEFINE f == [a \in Before(s, i) |-> at(a)]
  <2>1. Before(s, i) \subseteq DOMAIN s /\ Before(t, j) \subseteq DOMAIN t
    BY DEF Before
  <2>2. \A a \in Before(s, i) : Name(s, a) < Name(s, i)
    BY <1>1 DEF Before, Distinct, Name
  <2>3. \A a \in Before(s, i) : at(a) \in Before(t, j)
    <3> SUFFICES ASSUME NEW a \in Before(s, i) PROVE at(a) \in Before(t, j)
      OBVIOUS
    <3>1. at(a) \in DOMAIN t /\ t[at(a)] = s[a]
      BY <1>2, <2>1
    <3>2. Name(t, at(a)) < Name(t, j)
      BY <1>5, <2>2, <3>1 DEF Name
    <3> QED BY <3>1, <3>2 DEF Before, Name
  <2>4. f \in Injection(Before(s, i), Before(t, j))
    BY <1>3, <2>1, <2>3 DEF Injection, IsInjective
  <2>5. IsFiniteSet(Before(s, i)) /\ IsFiniteSet(Before(t, j))
    <3>1. IsFiniteSet(DOMAIN s) /\ IsFiniteSet(DOMAIN t)
      BY <1>1, FS_Interval
    <3> QED BY <2>1, <3>1, FS_Subset
  <2>6. Cardinality(Before(s, i)) <= Cardinality(Before(t, j))
    <3> HIDE DEF f
    <3> QED BY <2>4, <2>5, FS_Injection
  <2>7. Cardinality(Before(s, i)) \in Nat /\ Cardinality(Before(t, j)) \in Nat
    BY <2>5, FS_CardinalityType
  <2> QED BY <2>6, <2>7 DEF Place
<1> QED BY <1>4, <1>5

\* The same items, in whatever order, are sorted into the same sequence.
LEMMA SortsAlike ==
    ASSUME NEW s \in Items, NEW t \in Items, Distinct(s), Distinct(t),
           Within(s, t), Within(t, s)
    PROVE  ByPart(s) = ByPart(t)
<1>1. Len(s) = Len(t) /\ Len(s) \in Nat /\ DOMAIN s = 1..Len(s) /\ DOMAIN t = DOMAIN s
  BY NoFurtherBack, ItemTypes
<1>2. \A p \in DOMAIN s : ByPart(s)[p] = ByPart(t)[p]
  <2> SUFFICES ASSUME NEW p \in DOMAIN s PROVE ByPart(s)[p] = ByPart(t)[p]
    OBVIOUS
  <2>1. PICK i \in DOMAIN s : Place(s, i) = p /\ ByPart(s)[p] = s[i]
    BY Sorted
  <2>2. PICK j \in DOMAIN t : t[j] = s[i]
    BY DEF Within
  <2>3. Place(s, i) \in DOMAIN s /\ Place(t, j) \in DOMAIN t
    BY Places
  <2>4. Place(s, i) <= Place(t, j) /\ Place(t, j) <= Place(s, i)
    BY <2>2, NoFurtherBack
  <2>5. Place(t, j) = p
    BY <1>1, <2>1, <2>3, <2>4
  <2>6. PICK m \in DOMAIN t : Place(t, m) = p /\ ByPart(t)[p] = t[m]
    BY <1>1, Sorted
  <2>7. m = j
    BY <2>5, <2>6, Places
  <2> QED BY <2>1, <2>2, <2>6, <2>7
<1>3. /\ ByPart(s) \in Seq([partId : Values, quantity : Int]) /\ Len(ByPart(s)) = Len(s)
      /\ ByPart(t) \in Seq([partId : Values, quantity : Int]) /\ Len(ByPart(t)) = Len(t)
  BY Sorted DEF Items
<1> QED BY <1>1, <1>2, <1>3, SeqEqual

\* Sorting what is sorted changes nothing.
LEMMA SortedOnce ==
    ASSUME NEW s \in Items, Distinct(s)
    PROVE  ByPart(ByPart(s)) = ByPart(s)
BY Sorted, SortedSame, SortsAlike

-----------------------------------------------------------------------------
(* Spellings *)

\* What the reference asks of a body's items.
Wellformed(items) ==
    /\ Len(items) \in 1..MAX_ITEMS_PER_ORDER
    /\ \A i \in DOMAIN items :
           /\ items[i].partId.form \in {"lower", "upper"}
           /\ items[i].quantity \in {Units(n) : n \in 1..MAX_QUANTITY}
    /\ Distinct(items)

\* A quantity that is whole and within the limits, as the reference says it.
LEMMA Quantities ==
    ASSUME NEW q \in Int
    PROVE  /\ ItemQuantity(q) <=> q \in {Units(n) : n \in 1..MAX_QUANTITY}
           /\ ItemQuantity(q) => /\ Units(q \div 2) = q /\ Whole(q)
                                 /\ q \in Units(MIN_QUANTITY)..Units(MAX_QUANTITY)
<1> USE LimitsAssumption DEF Units, Whole, MIN_QUANTITY, MaxQuantity
<1>1. ASSUME ItemQuantity(q)
      PROVE  /\ q \in {Units(n) : n \in 1..MAX_QUANTITY}
             /\ Units(q \div 2) = q /\ Whole(q) /\ q \in Units(MIN_QUANTITY)..Units(MAX_QUANTITY)
  <2>1. q % 2 = 0 /\ 2 <= q /\ q <= 2 * MAX_QUANTITY
    BY <1>1 DEF ItemQuantity
  <2>2. q = 2 * (q \div 2) /\ q \div 2 \in Int
    BY <2>1
  <2>3. q \div 2 \in 1..MAX_QUANTITY
    BY <2>1, <2>2
  <2> QED BY <2>1, <2>2, <2>3
<1>2. ASSUME NEW n \in 1..MAX_QUANTITY, q = Units(n) PROVE ItemQuantity(q)
  BY <1>2 DEF ItemQuantity
<1> QED BY <1>1, <1>2

\* Lower case, of a UUID.
LEMMA LowerCase ==
    ASSUME NEW value \in Values, value.form \in {"lower", "upper"}
    PROVE  toLowerCase(value) = [form |-> "lower", name |-> value.name]
BY DEF Values, toLowerCase

\* Lower case tells apart what has another name, whatever else was sent.
LEMMA LowerCaseKeepsName ==
    ASSUME NEW value \in Values
    PROVE  toLowerCase(value) \in Values /\ toLowerCase(value).name = value.name
BY DEF Values, toLowerCase

\* The pipe lets through what the reference calls well-formed, and nothing else.
LEMMA PipeIsReference ==
    ASSUME NEW body \in Bodies
    PROVE  /\ ValidationPipe(body) = OK <=> ~Malformed(body)
           /\ ~Malformed(body) <=> /\ body.customerId.form \in {"lower", "upper"}
                                   /\ Wellformed(body.items)
<1> DEFINE s == body.items
<1>1. s \in Items /\ body.customerId \in Values
  BY BodiesAssumption
<1>2. \A i \in DOMAIN s : /\ s[i].partId \in Values /\ s[i].quantity \in Int
                          /\ Name(s, i) \in Int
  BY <1>1, ItemTypes
<1>3. ~Malformed(body) <=> /\ body.customerId.form \in {"lower", "upper"}
                           /\ Wellformed(s)
  BY DEF Malformed, Wellformed, Distinct, Name
<1>4. ASSUME \A i \in DOMAIN s : s[i].partId.form \in {"lower", "upper"}
      PROVE  ArrayUnique(s) <=> Distinct(s)
  <2>1. \A i \in DOMAIN s : identifier(s[i]) = [form |-> "lower", name |-> Name(s, i)]
    BY <1>2, <1>4, LowerCase DEF identifier, Name
  <2>2. \A i, j \in DOMAIN s : identifier(s[i]) = identifier(s[j]) <=> Name(s, i) = Name(s, j)
    <3> DEFINE lower(name) == [form |-> "lower", name |-> name]
    <3>1. \A m, n : lower(m) = lower(n) <=> m = n
      <4>1. \A n : lower(n).name = n
        OBVIOUS
      <4> QED BY <4>1
    <3>2. \A i \in DOMAIN s : identifier(s[i]) = lower(Name(s, i))
      BY <2>1
    <3> HIDE DEF lower
    <3> QED BY <3>1, <3>2
  <2> QED BY <2>2 DEF ArrayUnique, Distinct
<1>5. OrderCreateDto(body) <=> body.customerId.form \in {"lower", "upper"} /\ Wellformed(s)
  <2>1. \A i \in DOMAIN s : ItemQuantity(s[i].quantity)
                                <=> s[i].quantity \in {Units(n) : n \in 1..MAX_QUANTITY}
    BY <1>2, Quantities
  <2> QED BY <1>4, <2>1 DEF OrderCreateDto, Wellformed, IsUUID, ArrayMaxSize
<1>6. ValidationPipe(body) = OK <=> OrderCreateDto(body)
  <2>1. OK # VALIDATION /\ OK # INTERNAL
    BY DEF OK, VALIDATION, INTERNAL, Answer
  <2>2. OrderCreateDto(body) => ~IdentifierThrows(s)
    BY DEF OrderCreateDto, IsUUID, IdentifierThrows
  <2>3. catch("TypeError") = INTERNAL
    BY DEF catch
  <2> QED BY <2>1, <2>2, <2>3 DEF ValidationPipe
<1> QED BY <1>3, <1>5, <1>6

Entry(name, quantity) ==
    [partId |-> [form |-> "lower", name |-> name], quantity |-> quantity]

\* A function on the first numbers is a sequence.
LEMMA FunctionIsSeq ==
    ASSUME NEW S, NEW n \in Nat, NEW f \in [1..n -> S]
    PROVE  f \in Seq(S) /\ Len(f) = n
OBVIOUS

\* Lower case changes the spelling of the parts, and nothing else.
LEMMA LowerItems ==
    ASSUME NEW s \in Items, Wellformed(s)
    PROVE  /\ Lowered(s) \in Items /\ DOMAIN Lowered(s) = DOMAIN s /\ Len(Lowered(s)) = Len(s)
           /\ \A i \in DOMAIN s : Lowered(s)[i] = Entry(Name(s, i), s[i].quantity)
           /\ Distinct(Lowered(s))
<1>1. /\ Len(s) \in Nat /\ DOMAIN s = 1..Len(s)
      /\ \A i \in DOMAIN s : /\ s[i] \in [partId : Values, quantity : Int]
                             /\ s[i].partId \in Values /\ s[i].quantity \in Int /\ Name(s, i) \in Int
  BY ItemTypes
<1>2. ASSUME NEW i \in DOMAIN s
      PROVE  /\ Lowered(s)[i] = Entry(Name(s, i), s[i].quantity)
             /\ Lowered(s)[i] \in [partId : Values, quantity : Int]
  <2>1. toLowerCase(s[i].partId) = [form |-> "lower", name |-> Name(s, i)]
    BY <1>1, LowerCase DEF Wellformed, Name
  <2>2. Lowered(s)[i] = [s[i] EXCEPT !.partId = toLowerCase(s[i].partId)]
    BY DEF Lowered
  <2>3. Lowered(s)[i] = Entry(Name(s, i), s[i].quantity)
    BY <1>1, <2>1, <2>2 DEF Entry
  <2>4. Entry(Name(s, i), s[i].quantity) \in [partId : Values, quantity : Int]
    BY <1>1 DEF Entry, Values
  <2> QED BY <2>3, <2>4
<1>3. Lowered(s) \in [1..Len(s) -> [partId : Values, quantity : Int]] /\ DOMAIN Lowered(s) = DOMAIN s
  BY <1>1, <1>2 DEF Lowered
<1>4. Lowered(s) \in Items /\ Len(Lowered(s)) = Len(s)
  <2> DEFINE l == Lowered(s)
             n == Len(s)
  <2>1. n \in Nat /\ l \in [1..n -> [partId : Values, quantity : Int]]
    BY <1>1, <1>3
  <2>2. l \in Seq([partId : Values, quantity : Int]) /\ Len(l) = n
    <3> HIDE DEF l, n
    <3> QED BY <2>1, FunctionIsSeq
  <2> QED BY <2>2 DEF Items
<1>5. \A i \in DOMAIN s : Name(Lowered(s), i) = Name(s, i)
  <2> SUFFICES ASSUME NEW i \in DOMAIN s PROVE Name(Lowered(s), i) = Name(s, i)
    OBVIOUS
  <2>1. Lowered(s)[i] = Entry(Name(s, i), s[i].quantity)
    BY <1>2
  <2>2. \A name, quantity : Entry(name, quantity).partId.name = name
    BY DEF Entry
  <2>3. Lowered(s)[i].partId.name = Name(s, i)
    BY <2>1, <2>2
  <2> QED BY <2>3 DEF Name
<1> QED BY <1>2, <1>3, <1>4, <1>5 DEF Distinct, Wellformed

\* The one orders nothing that the other does not, in the same quantity.
OrdersWithin(s, t) ==
    \A i \in DOMAIN s : \E j \in DOMAIN t :
        Name(t, j) = Name(s, i) /\ t[j].quantity = s[i].quantity

\* Two requests are the same order when each orders what the other does.
LEMMA OrderedAlike ==
    ASSUME NEW s, NEW t
    PROVE  ItemsOrdered(s) = ItemsOrdered(t) <=> OrdersWithin(s, t) /\ OrdersWithin(t, s)
<1> DEFINE names(u) == {Name(u, i) : i \in DOMAIN u}
           of(u, name) == {u[i].quantity : i \in {k \in DOMAIN u : Name(u, k) = name}}
<1>1. \A u : ItemsOrdered(u) = [name \in names(u) |-> of(u, name)]
  BY DEF ItemsOrdered, Name
<1>2. ASSUME ItemsOrdered(s) = ItemsOrdered(t) PROVE OrdersWithin(s, t) /\ OrdersWithin(t, s)
  <2>1. names(s) = names(t) /\ \A name \in names(s) : of(s, name) = of(t, name)
    <3> HIDE DEF names, of
    <3>1. DOMAIN ItemsOrdered(s) = names(s) /\ DOMAIN ItemsOrdered(t) = names(t)
      BY <1>1
    <3>2. /\ \A name \in names(s) : ItemsOrdered(s)[name] = of(s, name)
          /\ \A name \in names(t) : ItemsOrdered(t)[name] = of(t, name)
      BY <1>1
    <3> QED BY <1>2, <3>1, <3>2
  <2>2. \A i \in DOMAIN s : s[i].quantity \in of(s, Name(s, i)) /\ Name(s, i) \in names(s)
    OBVIOUS
  <2>3. \A i \in DOMAIN t : t[i].quantity \in of(t, Name(t, i)) /\ Name(t, i) \in names(t)
    OBVIOUS
  <2>4. \A i \in DOMAIN s : s[i].quantity \in of(t, Name(s, i))
    BY <2>1, <2>2
  <2>5. \A i \in DOMAIN t : t[i].quantity \in of(s, Name(t, i))
    BY <2>1, <2>3
  <2> QED BY <2>4, <2>5 DEF OrdersWithin
<1>3. ASSUME OrdersWithin(s, t), OrdersWithin(t, s) PROVE ItemsOrdered(s) = ItemsOrdered(t)
  <2>1. names(s) = names(t)
    BY <1>3 DEF OrdersWithin
  <2>2. \A name \in names(s) : of(s, name) = of(t, name)
    BY <1>3 DEF OrdersWithin
  <2> HIDE DEF names, of
  <2> QED BY <1>1, <2>1, <2>2
<1> QED BY <1>2, <1>3

\* What Sales makes of the items of a request is the same order, goes through the
\* encoding and Inventory's parsing as it is, and is its own fingerprint.
LEMMA Canonical ==
    ASSUME NEW s \in Items, Wellformed(s)
    PROVE  LET c == normalizeItems(s) IN
           /\ c # <<>> /\ ItemsOrdered(c) = ItemsOrdered(s)
           /\ Encode(c) = c /\ parseReserveRequest(c) = c /\ requestFingerprint(c) = c
<1> DEFINE l == Lowered(s)
           c == normalizeItems(s)
<1>1. /\ l \in Items /\ DOMAIN l = DOMAIN s /\ Len(l) = Len(s) /\ Distinct(l)
      /\ \A i \in DOMAIN s : l[i] = Entry(Name(s, i), s[i].quantity)
  BY LowerItems
<1>2. c = ByPart(l)
  BY DEF normalizeItems
<1> HIDE DEF l, c
<1>3. /\ c \in Items /\ DOMAIN c = DOMAIN s /\ Len(c) = Len(s) /\ Distinct(c)
      /\ Within(c, l) /\ Within(l, c)
  BY <1>1, <1>2, Sorted, SortedSame
<1>4. \A p \in DOMAIN c : \E i \in DOMAIN s : c[p] = Entry(Name(s, i), s[i].quantity)
  BY <1>1, <1>3 DEF Within
<1>5. \A i \in DOMAIN s : \E p \in DOMAIN c : c[p] = Entry(Name(s, i), s[i].quantity)
  BY <1>1, <1>3 DEF Within
<1>6. ItemsOrdered(c) = ItemsOrdered(s)
  <2>1. OrdersWithin(c, s)
    BY <1>4 DEF OrdersWithin, Entry, Name
  <2>2. OrdersWithin(s, c)
    BY <1>5 DEF OrdersWithin, Entry, Name
  <2> QED BY <2>1, <2>2, OrderedAlike
<1>7. /\ Len(c) \in 1..MAX_ITEMS_PER_ORDER /\ Len(c) \in Nat /\ DOMAIN c = 1..Len(c) /\ c # <<>>
  BY <1>3, ItemTypes, LimitsAssumption, EmptySeq DEF Wellformed
<1>8. ASSUME NEW p \in DOMAIN c
      PROVE  /\ c[p] = Entry(Name(c, p), c[p].quantity) /\ Name(c, p) \in Int
             /\ Units(c[p].quantity \div 2) = c[p].quantity /\ Whole(c[p].quantity)
             /\ c[p].quantity \in Units(MIN_QUANTITY)..Units(MAX_QUANTITY)
             /\ toLowerCase(c[p].partId) = c[p].partId /\ isUuid(c[p].partId)
  <2>1. PICK i \in DOMAIN s : c[p] = Entry(Name(s, i), s[i].quantity)
    BY <1>4
  <2>2. c[p].quantity = s[i].quantity /\ Name(c, p) = Name(s, i) /\ Name(s, i) \in Int
    BY <2>1, ItemTypes DEF Entry, Name
  <2>3. s[i].quantity \in Int /\ ItemQuantity(s[i].quantity)
    BY ItemTypes, Quantities DEF Wellformed
  <2>4. toLowerCase(c[p].partId) = c[p].partId /\ isUuid(c[p].partId)
    BY <2>1 DEF Entry, toLowerCase, isUuid
  <2> QED BY <2>1, <2>2, <2>3, <2>4, Quantities
<1>9. Encode(c) = c
  <2>1. \A p \in DOMAIN c : [c[p] EXCEPT !.quantity = Units(c[p].quantity \div 2)] = c[p]
    BY <1>8 DEF Entry
  <2>2. Encode(c) = [p \in DOMAIN c |-> c[p]]
    BY <2>1 DEF Encode
  <2> QED BY <1>3, <2>2 DEF Items
<1>10. Lowered(c) = c
  <2>1. \A p \in DOMAIN c : [c[p] EXCEPT !.partId = toLowerCase(c[p].partId)] = c[p]
    BY <1>8 DEF Entry
  <2>2. Lowered(c) = [p \in DOMAIN c |-> c[p]]
    BY <2>1 DEF Lowered
  <2> QED BY <1>3, <2>2 DEF Items
<1>11. parseReserveRequest(c) = c
  <2>1. \A p \in DOMAIN c : \A q \in 1..(p - 1) :
            toLowerCase(c[q].partId) # toLowerCase(c[p].partId)
    <3> SUFFICES ASSUME NEW p \in DOMAIN c, NEW q \in 1..(p - 1)
                 PROVE  toLowerCase(c[q].partId) # toLowerCase(c[p].partId)
      OBVIOUS
    <3>1. q \in DOMAIN c /\ q # p
      BY <1>7
    <3>2. Name(c, q) # Name(c, p)
      BY <1>3, <3>1 DEF Distinct
    <3> QED BY <1>8, <3>1, <3>2 DEF Name
  <2> QED BY <1>7, <1>8, <1>10, <2>1 DEF parseReserveRequest
<1>12. requestFingerprint(c) = c
  BY <1>1, <1>2, SortedOnce DEF requestFingerprint
<1> QED BY <1>6, <1>7, <1>9, <1>11, <1>12 DEF c

\* Two bodies have one hash exactly when they are one order.
LEMMA HashIsOrder ==
    ASSUME NEW b \in Bodies, NEW c \in Bodies, ~Malformed(b), ~Malformed(c)
    PROVE  hashRequest(b) = hashRequest(c) <=> Ordered(b) = Ordered(c)
<1>1. /\ b.items \in Items /\ Wellformed(b.items) /\ c.items \in Items /\ Wellformed(c.items)
      /\ b.customerId \in Values /\ b.customerId.form \in {"lower", "upper"}
      /\ c.customerId \in Values /\ c.customerId.form \in {"lower", "upper"}
  BY BodiesAssumption, PipeIsReference
<1>2. toLowerCase(b.customerId) = toLowerCase(c.customerId)
        <=> b.customerId.name = c.customerId.name
  <2> DEFINE lower(name) == [form |-> "lower", name |-> name]
  <2>1. \A m, n : lower(m) = lower(n) <=> m = n
    <3>1. \A n : lower(n).name = n
      OBVIOUS
    <3> QED BY <3>1
  <2>2. /\ toLowerCase(b.customerId) = lower(b.customerId.name)
        /\ toLowerCase(c.customerId) = lower(c.customerId.name)
    BY <1>1, LowerCase
  <2> HIDE DEF lower
  <2> QED BY <2>1, <2>2
<1>3. ASSUME normalizeItems(b.items) = normalizeItems(c.items)
      PROVE  ItemsOrdered(b.items) = ItemsOrdered(c.items)
  BY <1>1, <1>3, Canonical
<1>4. ASSUME ItemsOrdered(b.items) = ItemsOrdered(c.items)
      PROVE  normalizeItems(b.items) = normalizeItems(c.items)
  <2>1. OrdersWithin(b.items, c.items) /\ OrdersWithin(c.items, b.items)
    BY <1>4, OrderedAlike
  <2>2. \A s, t \in Items : Wellformed(s) /\ Wellformed(t) /\ OrdersWithin(s, t)
                                => Within(Lowered(s), Lowered(t))
    <3> SUFFICES ASSUME NEW s \in Items, NEW t \in Items, Wellformed(s), Wellformed(t),
                        OrdersWithin(s, t), NEW i \in DOMAIN Lowered(s)
                 PROVE  \E j \in DOMAIN Lowered(t) : Lowered(t)[j] = Lowered(s)[i]
      BY DEF Within
    <3>1. i \in DOMAIN s /\ Lowered(s)[i] = Entry(Name(s, i), s[i].quantity)
      BY LowerItems
    <3>2. PICK j \in DOMAIN t : Name(t, j) = Name(s, i) /\ t[j].quantity = s[i].quantity
      BY <3>1 DEF OrdersWithin
    <3>3. j \in DOMAIN Lowered(t) /\ Lowered(t)[j] = Entry(Name(t, j), t[j].quantity)
      BY LowerItems
    <3> QED BY <3>1, <3>2, <3>3
  <2>3. Within(Lowered(b.items), Lowered(c.items)) /\ Within(Lowered(c.items), Lowered(b.items))
    BY <1>1, <2>1, <2>2
  <2>4. /\ Lowered(b.items) \in Items /\ Distinct(Lowered(b.items))
        /\ Lowered(c.items) \in Items /\ Distinct(Lowered(c.items))
    BY <1>1, LowerItems
  <2>5. ByPart(Lowered(b.items)) = ByPart(Lowered(c.items))
    BY <2>3, <2>4, SortsAlike
  <2> QED BY <2>5 DEF normalizeItems
<1> QED BY <1>2, <1>3, <1>4 DEF hashRequest, Ordered

-----------------------------------------------------------------------------
(* Requests *)

\* The key's row is the hash of an order that was let through, and what Inventory
\* holds, if anything, is that order.
Claimed(body) ==
    /\ ~Malformed(body)
    /\ row = hashRequest(body) /\ ordered = Ordered(body)
    /\ reserved \in {NoRow, normalizeItems(body.items)}

RowInv ==
    /\ row = NoRow => ordered = NoOrder /\ reserved = NoRow
    /\ row # NoRow => \E body \in Bodies : Claimed(body)

RInv == RowInv /\ InventoryAgrees /\ SameKeySameOrder

\* The public answers are told apart by their codes.
LEMMA AnswersDiffer ==
    /\ IDEMPOTENCY_KEY_CONFLICT \notin
          {OK, UNAUTHORIZED, FORBIDDEN, CUSTOMER_NOT_FOUND, INTERNAL, VALIDATION, PART_NOT_FOUND,
           INSUFFICIENT_STOCK, INVENTORY_UNAVAILABLE, INVENTORY_TIMEOUT}
    /\ OK \notin {UNAUTHORIZED, FORBIDDEN}
<1> DEFINE code(answer) == answer.code
<1>1. \A http, text : code(Answer(http, text)) = text
  BY DEF Answer
<1> HIDE DEF code
<1>2. /\ code(OK) = "OK" /\ code(UNAUTHORIZED) = "UNAUTHORIZED" /\ code(FORBIDDEN) = "FORBIDDEN"
      /\ code(CUSTOMER_NOT_FOUND) = "CUSTOMER_NOT_FOUND" /\ code(INTERNAL) = "INTERNAL_ERROR"
      /\ code(VALIDATION) = "VALIDATION_ERROR" /\ code(PART_NOT_FOUND) = "PART_NOT_FOUND"
      /\ code(INSUFFICIENT_STOCK) = "INSUFFICIENT_STOCK"
      /\ code(INVENTORY_UNAVAILABLE) = "INVENTORY_UNAVAILABLE"
      /\ code(INVENTORY_TIMEOUT) = "INVENTORY_TIMEOUT"
      /\ code(IDEMPOTENCY_KEY_CONFLICT) = "IDEMPOTENCY_KEY_CONFLICT"
  BY <1>1 DEF OK, UNAUTHORIZED, FORBIDDEN, CUSTOMER_NOT_FOUND, INTERNAL, VALIDATION, PART_NOT_FOUND,
     INSUFFICIENT_STOCK, INVENTORY_UNAVAILABLE, INVENTORY_TIMEOUT, IDEMPOTENCY_KEY_CONFLICT
<1> QED BY <1>2

\* No translation of an Inventory status, nor anything of the guard and the pipes,
\* reads as a conflict of keys.
LEMMA NoneIsConflict ==
    /\ \A status : toInventoryApiError("reserve", status) # IDEMPOTENCY_KEY_CONFLICT
    /\ \A apiKey, route : canActivate(apiKey, route) \in {OK, UNAUTHORIZED, FORBIDDEN}
    /\ \A body : ValidationPipe(body) \in {OK, VALIDATION, INTERNAL}
    /\ \A id : ParseUUIDPipe(id) \in {OK, VALIDATION}
<1>1. \A status : toInventoryApiError("reserve", status) \in
          {VALIDATION, PART_NOT_FOUND, INSUFFICIENT_STOCK, INTERNAL, INVENTORY_UNAVAILABLE,
           INVENTORY_TIMEOUT}
  BY DEF toInventoryApiError, SHARED
<1>2. \A apiKey, route : canActivate(apiKey, route) \in {OK, UNAUTHORIZED, FORBIDDEN}
  BY DEF canActivate
<1>3. \A body : ValidationPipe(body) \in {OK, VALIDATION, INTERNAL}
  BY DEF ValidationPipe, catch
<1>4. \A id : ParseUUIDPipe(id) \in {OK, VALIDATION}
  BY DEF ParseUUIDPipe, catch
<1> QED BY <1>1, <1>2, <1>3, <1>4, AnswersDiffer

\* What the claim does: the row is that of the order, new or old, and the body is the
\* same order exactly when its hash is the row's.
LEMMA ClaimStep ==
    ASSUME RowInv, NEW body \in Bodies, ~Malformed(body), Claim(body)
    PROVE  /\ row' # NoRow
           /\ \E b \in Bodies : /\ ~Malformed(b) /\ row' = hashRequest(b) /\ ordered' = Ordered(b)
                                /\ reserved \in {NoRow, normalizeItems(b.items)}
           /\ row' = hashRequest(body) <=> Judge(body) = "same"
           /\ row' # hashRequest(body) <=> Judge(body) = "different"
<1>1. \A b : hashRequest(b) # NoRow /\ Ordered(b) # NoOrder
  BY DEF hashRequest, Ordered, NoRow, NoOrder
<1>2. CASE row = NoRow
  <2>1. row' = hashRequest(body) /\ ordered' = Ordered(body) /\ reserved = NoRow /\ ordered = NoOrder
    BY <1>2 DEF Claim, RowInv
  <2>2. Judge(body) = "same"
    BY <2>1 DEF Judge
  <2> QED BY <1>1, <2>1, <2>2
<1>3. CASE row # NoRow
  <2>1. row' = row /\ ordered' = ordered
    BY <1>3 DEF Claim
  <2>2. PICK b \in Bodies : Claimed(b)
    BY <1>3 DEF RowInv
  <2>3. row = hashRequest(body) <=> ordered = Ordered(body)
    BY <2>2, HashIsOrder DEF Claimed
  <2>4. Judge(body) = IF ordered = Ordered(body) THEN "same" ELSE "different"
    BY <1>1, <2>2 DEF Judge, Claimed
  <2> QED BY <1>3, <2>1, <2>2, <2>3, <2>4 DEF Claimed
<1> QED BY <1>2, <1>3

\* What Inventory makes of a reservation.
LEMMA ReserveAgrees ==
    ASSUME NEW body \in Bodies, ~Malformed(body),
           NEW items, items = Encode(normalizeItems(body.items)),
           reserved \in {NoRow, normalizeItems(body.items)}
    PROVE  /\ ReserveStatus(items) \subseteq {"OK", "NOT_FOUND", "FAILED_PRECONDITION"}
           /\ requestFingerprint(parseReserveRequest(items)) = normalizeItems(body.items)
<1> DEFINE c == normalizeItems(body.items)
<1>1. body.items \in Items /\ Wellformed(body.items)
  BY BodiesAssumption, PipeIsReference
<1>2. /\ c # <<>> /\ items = c /\ parseReserveRequest(c) = c /\ requestFingerprint(c) = c
  BY <1>1, Canonical
<1> HIDE DEF c
<1>3. reserved \in {NoRow, c}
  BY DEF c
<1>4. ReserveStatus(items) \subseteq {"OK", "NOT_FOUND", "FAILED_PRECONDITION"}
  BY <1>2, <1>3 DEF ReserveStatus, InvalidArgument
<1> QED BY <1>2, <1>4 DEF c

\* A request that claims the key, or finds it claimed.
LEMMA CreateStep ==
    ASSUME RInv, NEW apiKey \in ApiKeys, NEW body \in Bodies, create(apiKey, body)
    PROVE  RInv'
<1> DEFINE c == normalizeItems(body.items)
<1> USE DEF RInv
<1>1. ~Malformed(body) /\ Claim(body)
  BY PipeIsReference DEF create, Conflict, WithoutCall, Reserve
<1>2. /\ row' # NoRow
      /\ row' = hashRequest(body) <=> Judge(body) = "same"
      /\ row' # hashRequest(body) <=> Judge(body) = "different"
  BY <1>1, ClaimStep
<1>3. PICK b \in Bodies : /\ ~Malformed(b) /\ row' = hashRequest(b) /\ ordered' = Ordered(b)
                          /\ reserved \in {NoRow, normalizeItems(b.items)}
  BY <1>1, ClaimStep
<1>4. CASE Conflict(apiKey, body)
  <2>1. reserved' = reserved /\ row' # hashRequest(body)
    BY <1>4 DEF Conflict
  <2>2. last' = Outcome(apiKey, "create", Judge(body), IDEMPOTENCY_KEY_CONFLICT, "none")
    BY <1>4 DEF Conflict
  <2>3. RowInv'
    BY <1>2, <1>3, <2>1 DEF RowInv, Claimed
  <2>4. last'.rpc = "none" /\ last'.answer = IDEMPOTENCY_KEY_CONFLICT /\ last'.order = "different"
    BY <1>2, <2>1, <2>2 DEF Outcome
  <2> QED BY <2>3, <2>4 DEF InventoryAgrees, SameKeySameOrder
<1>5. CASE WithoutCall(apiKey, body)
  <2>1. reserved' = reserved /\ row' = hashRequest(body)
    BY <1>5 DEF WithoutCall
  <2>2. PICK answer \in {OK, CUSTOMER_NOT_FOUND, PART_NOT_FOUND, INSUFFICIENT_STOCK} :
            last' = Outcome(apiKey, "create", Judge(body), answer, "none")
    BY <1>5 DEF WithoutCall
  <2>3. RowInv'
    BY <1>2, <1>3, <2>1 DEF RowInv, Claimed
  <2>4. last'.rpc = "none" /\ last'.answer # IDEMPOTENCY_KEY_CONFLICT /\ last'.order # "different"
    BY <1>2, <2>1, <2>2, AnswersDiffer DEF Outcome
  <2> QED BY <2>3, <2>4 DEF InventoryAgrees, SameKeySameOrder
<1>6. CASE Reserve(apiKey, body)
  <2> DEFINE items == Encode(normalizeItems(body.items))
  <2>1. row' = hashRequest(body)
    BY <1>6 DEF Reserve
  <2>2. PICK status \in ReserveStatus(items) :
            /\ reserved' = IF status = "OK" THEN requestFingerprint(parseReserveRequest(items))
                           ELSE reserved
            /\ last' = Outcome(apiKey, "create", Judge(body),
                           IF status = "OK" THEN OK ELSE toInventoryApiError("reserve", status),
                           status)
    BY <1>6 DEF Reserve
  <2>3. normalizeItems(b.items) = c
    BY <1>3, <2>1 DEF hashRequest
  <2>4. /\ ReserveStatus(items) \subseteq {"OK", "NOT_FOUND", "FAILED_PRECONDITION"}
        /\ requestFingerprint(parseReserveRequest(items)) = c
    BY <1>1, <1>3, <2>3, ReserveAgrees
  <2> HIDE DEF items, c
  <2>5. reserved' \in {NoRow, normalizeItems(b.items)}
    BY <1>3, <2>2, <2>3, <2>4
  <2>6. RowInv'
    BY <1>2, <1>3, <2>5 DEF RowInv, Claimed
  <2>7. /\ last'.rpc = status /\ last'.order # "different"
        /\ last'.answer = IF status = "OK" THEN OK ELSE toInventoryApiError("reserve", status)
    BY <1>2, <2>1, <2>2 DEF Outcome
  <2>8. last'.answer # IDEMPOTENCY_KEY_CONFLICT
    BY <2>7, AnswersDiffer, NoneIsConflict
  <2> QED BY <2>2, <2>4, <2>6, <2>7, <2>8 DEF InventoryAgrees, SameKeySameOrder
<1> QED BY <1>4, <1>5, <1>6 DEF create

\* A request that is answered without the key.
LEMMA AnsweredStep ==
    ASSUME RInv, NEW apiKey, NEW route, NEW order, NEW answer,
           Answered(apiKey, route, order, answer),
           order # "different", answer # IDEMPOTENCY_KEY_CONFLICT
    PROVE  RInv'
<1>1. RowInv'
  BY DEF RInv, Answered, RowInv, Claimed
<1>2. last'.rpc = "none" /\ last'.order = order /\ last'.answer = answer
  BY DEF Answered, Outcome
<1> QED BY <1>1, <1>2 DEF InventoryAgrees, SameKeySameOrder, RInv

\* The invariant holds when the process starts, and every step preserves it.
LEMMA InitRInv == Init => RInv
<1> SUFFICES ASSUME Init PROVE RInv
  OBVIOUS
<1>1. last.rpc = "none" /\ last.order = "none" /\ last.answer = OK
  BY DEF Init, Outcome
<1> QED BY <1>1, AnswersDiffer DEF Init, RInv, RowInv, InventoryAgrees, SameKeySameOrder

LEMMA NextRInv == RInv /\ [Next]_vars => RInv'
<1> SUFFICES ASSUME RInv, [Next]_vars PROVE RInv'
  OBVIOUS
<1>1. CASE bootstrap
  BY <1>1 DEF bootstrap, RInv, RowInv, Claimed, InventoryAgrees, SameKeySameOrder
<1>2. ASSUME NEW apiKey, NEW route, Refused(apiKey, route) PROVE RInv'
  BY <1>2, AnsweredStep, NoneIsConflict, AnswersDiffer DEF Refused
<1>3. ASSUME NEW apiKey, NEW route, Read(apiKey, route) PROVE RInv'
  BY <1>3, AnsweredStep, AnswersDiffer DEF Read
<1>4. ASSUME NEW apiKey, NEW route, NEW id, ById(apiKey, route, id) PROVE RInv'
  BY <1>4, AnsweredStep, NoneIsConflict, AnswersDiffer DEF ById
<1>5. ASSUME NEW apiKey, NEW body \in Bodies, CreateRefused(apiKey, body) PROVE RInv'
  <2>1. Judge(body) = "malformed"
    BY <1>5, PipeIsReference DEF CreateRefused, Judge
  <2> QED BY <1>5, <2>1, AnsweredStep, NoneIsConflict, AnswersDiffer DEF CreateRefused
<1>6. ASSUME NEW apiKey, NEW body \in Bodies, KeyRefused(apiKey, body) PROVE RInv'
  BY <1>6, AnsweredStep, AnswersDiffer DEF KeyRefused
<1>7. ASSUME NEW apiKey \in ApiKeys, NEW body \in Bodies, create(apiKey, body) PROVE RInv'
  BY <1>7, CreateStep
<1>8. CASE UNCHANGED vars
  BY <1>8 DEF vars, RInv, RowInv, Claimed, InventoryAgrees, SameKeySameOrder
<1> QED BY <1>1, <1>2, <1>3, <1>4, <1>5, <1>6, <1>7, <1>8 DEF Next

\* It holds in every reachable state.
LEMMA RequestInvariance == Spec => []RInv
<1> QED BY InitRInv, NextRInv, PTL DEF Spec

\* What Sales lets through Inventory never refuses as malformed, and never takes for
\* another payload of the order (order.dto.ts:16-37, stock-request.ts:31-74).
THEOREM InventoryTakesWhatSalesSends == Spec => []InventoryAgrees
<1> QED BY RequestInvariance, PTL DEF RInv

\* A conflict is answered for a different order, and only for that, however the orders
\* are spelled and in whatever sequence their items are (orders.service.ts:24-33, 222-224).
THEOREM KeyStandsForOneOrder == Spec => []SameKeySameOrder
<1> QED BY RequestInvariance, PTL DEF RInv

\* What Inventory holds for the key is what the client that claimed it ordered.
THEOREM ReservationIsTheOrder == Spec => []ReservedIsOrdered
<1>1. RInv => ReservedIsOrdered
  <2> SUFFICES ASSUME RInv, reserved # NoRow PROVE ItemsOrdered(reserved) = ordered[2]
    BY DEF ReservedIsOrdered
  <2>1. PICK body \in Bodies : Claimed(body)
    BY DEF RInv, RowInv
  <2>2. reserved = normalizeItems(body.items) /\ ordered[2] = ItemsOrdered(body.items)
    BY <2>1 DEF Claimed, Ordered
  <2>3. body.items \in Items /\ Wellformed(body.items)
    BY <2>1, BodiesAssumption, PipeIsReference DEF Claimed
  <2> QED BY <2>2, <2>3, Canonical
<1> QED BY <1>1, RequestInvariance, PTL

-----------------------------------------------------------------------------
(* The guard *)

\* A process is up only with two keys that differ, and answers only when it is up.
KeysInv ==
    /\ proc = "up" => KeysDiffer(env)
    /\ proc # "up" => last.route = "none"
    /\ ReaderNeverWrites

\* The reader's key is nobody else's: the guard refuses it every route that writes.
LEMMA GuardStep ==
    ASSUME KeysInv, NEW apiKey, NEW route, NEW order, NEW answer, NEW rpc, proc = "up",
           UNCHANGED <<env, proc>>, last' = Outcome(apiKey, route, order, answer, rpc),
           canActivate(apiKey, route) = OK \/ answer = canActivate(apiKey, route)
    PROVE  KeysInv'
<1>1. ASSUME apiKey = trim(env.reader), Method(route) = "POST"
      PROVE  canActivate(apiKey, route) = FORBIDDEN
  <2>1. role(apiKey) = "reader" /\ ~Public(route)
    BY <1>1 DEF role, KeysInv, KeysDiffer, Method, Public
  <2>2. role(apiKey) \notin allowedRoles(route)
    BY <1>1, <2>1 DEF allowedRoles
  <2> QED BY <2>1, <2>2 DEF canActivate
<1>2. last'.apiKey = apiKey /\ last'.route = route /\ last'.answer = answer
  BY DEF Outcome
<1> QED BY <1>1, <1>2, AnswersDiffer DEF KeysInv, ReaderNeverWrites, KeysDiffer

\* Who presents the reader's key gets no write past the guard, whatever the two keys
\* the process started with (app-config.ts:52-57, api-key.guard.ts:38-49).
THEOREM ReadersOnlyRead == Spec => []ReaderNeverWrites
<1>1. Init => KeysInv
  <2> SUFFICES ASSUME Init PROVE KeysInv
    OBVIOUS
  <2>1. proc = "starting" /\ last.route = "none"
    BY DEF Init, Outcome
  <2> QED BY <2>1 DEF KeysInv, ReaderNeverWrites
<1>2. KeysInv /\ [Next]_vars => KeysInv'
  <2> SUFFICES ASSUME KeysInv, [Next]_vars PROVE KeysInv'
    OBVIOUS
  <2>1. CASE bootstrap
    BY <2>1 DEF bootstrap, loadSalesConfig, KeysInv, ReaderNeverWrites, KeysDiffer
  <2>2. ASSUME NEW apiKey, NEW route, NEW order, NEW answer,
               Answered(apiKey, route, order, answer),
               canActivate(apiKey, route) = OK \/ answer = canActivate(apiKey, route)
        PROVE  KeysInv'
    BY <2>2, GuardStep DEF Answered
  <2>3. ASSUME NEW apiKey, NEW route, Refused(apiKey, route) PROVE KeysInv'
    BY <2>2, <2>3 DEF Refused
  <2>4. ASSUME NEW apiKey, NEW route, Read(apiKey, route) PROVE KeysInv'
    BY <2>2, <2>4 DEF Read
  <2>5. ASSUME NEW apiKey, NEW route, NEW id, ById(apiKey, route, id) PROVE KeysInv'
    BY <2>2, <2>5 DEF ById
  <2>6. ASSUME NEW apiKey, NEW body, CreateRefused(apiKey, body) \/ KeyRefused(apiKey, body)
        PROVE  KeysInv'
    BY <2>2, <2>6 DEF CreateRefused, KeyRefused
  <2>7. ASSUME NEW apiKey, NEW body, create(apiKey, body) PROVE KeysInv'
    <3>1. \E order, answer, rpc : last' = Outcome(apiKey, "create", order, answer, rpc)
      BY <2>7 DEF create, Conflict, WithoutCall, Reserve
    <3>2. proc = "up" /\ UNCHANGED <<env, proc>> /\ canActivate(apiKey, "create") = OK
      BY <2>7 DEF create
    <3> QED BY <3>1, <3>2, GuardStep
  <2>8. CASE UNCHANGED vars
    BY <2>8 DEF vars, KeysInv, ReaderNeverWrites, KeysDiffer
  <2> QED BY <2>1, <2>3, <2>4, <2>5, <2>6, <2>7, <2>8 DEF Next
<1>3. KeysInv => ReaderNeverWrites
  BY DEF KeysInv
<1> QED BY <1>1, <1>2, <1>3, PTL DEF Spec
=============================================================================
