------------------------ MODULE ConnectionPool_proofs -----------------------
(***************************************************************************)
(* For every number of requests, keys and connections, every deadline and  *)
(* every pattern of arrivals: the pool moves, and no transaction runs into *)
(* its timeout by waiting.  Who waits for a row waits behind at most       *)
(* Connections - 1 others, each for one call; and who keeps a connection   *)
(* without a call waits for a row whose first holder makes one.            *)
(***************************************************************************)
EXTENDS ConnectionPool, FiniteSetTheorems, SequenceTheorems, TLAPS

D == inventoryRpcDeadline

\* Who stands in the queue for a row holds a connection; only the first one calls.
RowsHoldTheirOwn ==
    \A k \in Keys : \A i \in 1..Len(rows[k]) :
        /\ Key[rows[k][i]] = k
        /\ at[rows[k][i]] \in {"row", "call"}
        /\ at[rows[k][i]] = "call" => i = 1

RowsDistinct ==
    \A k \in Keys : \A i, j \in 1..Len(rows[k]) : rows[k][i] = rows[k][j] => i = j

HoldersInRows ==
    \A r \in Requests : at[r] \in {"row", "call"} =>
        \E i \in 1..Len(rows[Key[r]]) : rows[Key[r]][i] = r

\* Who waits for a connection holds none.
QueueWaits ==
    /\ \A i \in 1..Len(queue) : at[queue[i]] = "queue"
    /\ \A i, j \in 1..Len(queue) : queue[i] = queue[j] => i = j

NewIsOut == \A r \in Requests : phase[r] = "new" => at[r] = "out"

OneConnectionEach == idle + Cardinality(Holders) = Connections

CallsInTime ==
    \A r \in Requests :
        /\ call[r] <= D
        /\ at[r] # "call" => call[r] = 0

\* What one waits at most at place i of a row before its first holder has called.
Behind(i) == (Connections - i) * D

WaitsBounded ==
    \A k \in Keys : \A i \in 1..Len(rows[k]) :
        clock[rows[k][i]] <= Behind(i) + call[rows[k][1]]

\* Time goes on only while calls are out: each is at least as old as the stall.
StallsBehindCalls ==
    /\ queue = <<>> => stalled = 0
    /\ \A r \in Requests : (CanWork(r) => stalled = 0) /\ (at[r] = "call" => stalled <= call[r])
    /\ stalled <= D

PInv ==
    /\ TypeOK /\ RowsHoldTheirOwn /\ RowsDistinct /\ HoldersInRows /\ QueueWaits
    /\ NewIsOut /\ OneConnectionEach /\ CallsInTime /\ WaitsBounded /\ StallsBehindCalls

-----------------------------------------------------------------------------
(* Numbers and sequences *)

\* One place nearer to the row is one call less to wait for.
LEMMA BehindLess ==
    /\ \A i \in Nat : Behind(i) \in Int /\ Behind(i) = Behind(i + 1) + D
    /\ \A i \in 1..Connections : Behind(i) \in Nat /\ Behind(i) <= Behind(1)
    /\ Behind(1) < Margin
<1> USE PoolAssumption DEF D
<1>1. \A i \in Nat : Behind(i) \in Int /\ Behind(i) = Behind(i + 1) + D
  BY DEF Behind
<1>2. ASSUME NEW i \in 1..Connections PROVE Behind(i) \in Nat /\ Behind(i) <= Behind(1)
  <2>1. Connections - i \in Nat /\ i - 1 \in Nat
    OBVIOUS
  <2>2. (Connections - i) * D \in Nat /\ (i - 1) * D \in Nat
    BY <2>1
  <2>3. (Connections - 1) * D = (Connections - i) * D + (i - 1) * D
    BY <2>1
  <2> QED BY <2>2, <2>3 DEF Behind
<1>3. Behind(1) < Margin
  BY MarginAssumption DEF Behind
<1> QED BY <1>1, <1>2, <1>3

\* Joining a queue: the others keep their places.
LEMMA Joining ==
    ASSUME NEW q \in Seq(Requests), NEW r \in Requests
    PROVE  /\ Append(q, r) \in Seq(Requests) /\ Append(q, r) # <<>>
           /\ Len(q) \in Nat /\ Len(Append(q, r)) = Len(q) + 1
           /\ \A i \in 1..Len(q) : Append(q, r)[i] = q[i]
           /\ Append(q, r)[Len(q) + 1] = r
BY AppendProperties, LenProperties

\* Leaving it at the front: the others move up by one.
LEMMA Leaving ==
    ASSUME NEW q \in Seq(Requests), q # <<>>
    PROVE  /\ Tail(q) \in Seq(Requests)
           /\ Len(q) \in Nat \ {0} /\ Len(Tail(q)) = Len(q) - 1
           /\ Head(q) = q[1] /\ Head(q) \in Requests
           /\ \A i \in 1..Len(Tail(q)) : i + 1 \in 1..Len(q) /\ Tail(q)[i] = q[i + 1]
<1>1. Tail(q) \in Seq(Requests) /\ Len(Tail(q)) = Len(q) - 1 /\ Len(q) \in Nat \ {0}
  BY HeadTailProperties, LenProperties, EmptySeq
<1> QED BY <1>1, HeadTailProperties

\* A queue of distinct requests that are all at "queue".
Waits(q, a) ==
    /\ \A i \in 1..Len(q) : a[q[i]] = "queue"
    /\ \A i, j \in 1..Len(q) : q[i] = q[j] => i = j

\* Who is not in the queue may join it.
LEMMA JoinQueue ==
    ASSUME NEW q \in Seq(Requests), NEW r \in Requests, NEW a, NEW b,
           Waits(q, a), a[r] # "queue", b[r] = "queue",
           \A s \in Requests \ {r} : b[s] = a[s]
    PROVE  Waits(Append(q, r), b)
<1>1. \A i \in 1..Len(q) : q[i] # r /\ q[i] \in Requests
  BY ElementOfSeq DEF Waits
<1> QED BY <1>1, Joining DEF Waits

\* And the first one may leave it for anything else.
LEMMA LeaveQueue ==
    ASSUME NEW q \in Seq(Requests), q # <<>>, NEW a, NEW b, Waits(q, a),
           \A s \in Requests \ {Head(q)} : b[s] = a[s]
    PROVE  /\ Waits(Tail(q), b)
           /\ \A i \in 1..Len(Tail(q)) : Tail(q)[i] # Head(q)
<1>1. \A i \in 1..Len(Tail(q)) : Tail(q)[i] # Head(q) /\ Tail(q)[i] \in Requests
  BY Leaving, ElementOfSeq DEF Waits
<1> QED BY <1>1, Leaving DEF Waits

\* Who is in a call, or can work, is the first of its row.
LEMMA FirstOfRow ==
    ASSUME PInv, NEW r \in Requests, at[r] = "call" \/ CanWork(r)
    PROVE  /\ Key[r] \in Keys /\ rows[Key[r]] \in Seq(Requests) /\ rows[Key[r]] # <<>>
           /\ r = rows[Key[r]][1] /\ r = Head(rows[Key[r]])
           /\ at[r] \in {"row", "call"}
<1>1. Key[r] \in Keys /\ rows[Key[r]] \in Seq(Requests)
  BY PoolAssumption DEF PInv, TypeOK
<1>2. CASE CanWork(r)
  BY <1>1, <1>2, Leaving DEF CanWork, HasRow
<1>3. CASE at[r] = "call"
  <2>1. PICK i \in 1..Len(rows[Key[r]]) : rows[Key[r]][i] = r
    BY <1>3 DEF PInv, HoldersInRows
  <2>2. i = 1
    BY <1>1, <1>3, <2>1 DEF PInv, RowsHoldTheirOwn
  <2>3. rows[Key[r]] # <<>>
    BY <1>1, <2>1, EmptySeq
  <2> QED BY <1>1, <1>3, <2>1, <2>2, <2>3, Leaving
<1> QED BY <1>2, <1>3

\* At most as many wait for a row as connections are out.
LEMMA RowsFit ==
    ASSUME PInv, NEW k \in Keys
    PROVE  Len(rows[k]) \in Nat /\ Len(rows[k]) <= Connections - idle
<1> DEFINE n == Len(rows[k])
<1>1. rows[k] \in Seq(Requests) /\ n \in Nat
  BY LenProperties DEF PInv, TypeOK
<1>2. IsFiniteSet(Holders) /\ Cardinality(Holders) \in Nat
  BY PoolAssumption, FS_Subset, FS_CardinalityType DEF Holders
<1>3. IsFiniteSet(1..n) /\ Cardinality(1..n) = n
  <2> HIDE DEF n
  <2> QED BY <1>1, FS_Interval
<1>4. n <= Cardinality(Holders)
  <2>1. SUFFICES ASSUME Cardinality(Holders) < n PROVE FALSE
    BY <1>1, <1>2
  <2> DEFINE f == [i \in 1..n |-> rows[k][i]]
  <2>2. f \in [1..n -> Holders]
    <3>1. \A i \in 1..n : rows[k][i] \in Holders
      BY <1>1, ElementOfSeq DEF PInv, RowsHoldTheirOwn, Holders
    <3> QED BY <3>1
  <2>3. \E i, j \in 1..n : i # j /\ f[i] = f[j]
    <3> HIDE DEF f, n
    <3> QED BY <1>2, <1>3, <2>1, <2>2, FS_PigeonHole
  <2> QED BY <2>3 DEF PInv, RowsDistinct
<1> QED BY <1>1, <1>2, <1>4, PoolAssumption DEF PInv, OneConnectionEach, TypeOK

-----------------------------------------------------------------------------
(* What the actions do to the invariant *)

\* The invariant holds when a program starts.
LEMMA InitPInv == Init => PInv
<1> SUFFICES ASSUME Init PROVE PInv
  OBVIOUS
<1> USE PoolAssumption DEF Init
<1>1. TypeOK
  BY EmptySeq DEF TypeOK
<1>2. RowsHoldTheirOwn /\ RowsDistinct /\ WaitsBounded /\ QueueWaits
  BY EmptySeq DEF RowsHoldTheirOwn, RowsDistinct, WaitsBounded, QueueWaits
<1>3. HoldersInRows /\ NewIsOut /\ CallsInTime
  BY DEF HoldersInRows, NewIsOut, CallsInTime, D
<1>4. OneConnectionEach
  <2>1. Holders = {}
    BY DEF Holders
  <2> QED BY <2>1, FS_EmptySet DEF OneConnectionEach
<1>5. StallsBehindCalls
  BY DEF StallsBehindCalls, CanWork, HasRow, D
<1> QED BY <1>1, <1>2, <1>3, <1>4, <1>5 DEF PInv

\* Nobody holds more, or waits longer for a row, because a request without a
\* connection asks for one, or gives up.
LEMMA OutsideStep ==
    ASSUME PInv, NEW r \in Requests, at[r] \in {"out", "queue"},
           NEW x \in {"out", "queue"}, at' = [at EXCEPT ![r] = x],
           clock' = [clock EXCEPT ![r] = 0], UNCHANGED <<call, rows, idle>>,
           TypeOK', QueueWaits', NewIsOut',
           queue' = <<>> => stalled' = 0, stalled' \in {0, stalled}
    PROVE  PInv'
<1> USE DEF PInv
<1>1. \A s \in Requests : (at[s] \in {"row", "call"} \/ at'[s] \in {"row", "call"}) => at'[s] = at[s]
  BY DEF TypeOK
<1>2. \A k \in Keys : \A i \in 1..Len(rows[k]) : rows[k][i] \in Requests /\ rows[k][i] # r
  <2>1. \A k \in Keys : rows[k] \in Seq(Requests)
    BY DEF TypeOK
  <2> QED BY <2>1, ElementOfSeq DEF RowsHoldTheirOwn
<1>3. RowsHoldTheirOwn' /\ RowsDistinct' /\ HoldersInRows'
  BY <1>1, <1>2 DEF RowsHoldTheirOwn, RowsDistinct, HoldersInRows
<1>4. OneConnectionEach'
  <2>1. Holders' = Holders
    BY <1>1 DEF Holders
  <2> QED BY <2>1 DEF OneConnectionEach
<1>5. CallsInTime'
  BY DEF CallsInTime, TypeOK
<1>6. WaitsBounded'
  BY <1>2 DEF WaitsBounded, TypeOK, Behind
<1>7. StallsBehindCalls'
  <2>1. D \in Nat
    BY PoolAssumption DEF D
  <2>2. \A s \in Requests : /\ CanWork(s)' => CanWork(s)
                            /\ at'[s] = "call" => at[s] = "call"
    BY <1>1 DEF CanWork, HasRow
  <2>3. \A s \in Requests : at'[s] = "call" => 0 <= call'[s]
    BY DEF TypeOK
  <2>4. \A s \in Requests : CanWork(s)' => stalled' = 0
    BY <2>2 DEF StallsBehindCalls
  <2>5. \A s \in Requests : at'[s] = "call" => stalled' <= call'[s]
    BY <2>2, <2>3 DEF StallsBehindCalls
  <2>6. stalled' <= D
    BY <2>1 DEF StallsBehindCalls
  <2> QED BY <2>4, <2>5, <2>6 DEF StallsBehindCalls
<1> QED BY <1>3, <1>4, <1>5, <1>6, <1>7

\* A request that arrives waits for a connection.
LEMMA ArriveStep ==
    ASSUME PInv, NEW r \in Requests, Arrive(r)
    PROVE  PInv'
<1> USE DEF PInv, Arrive, Ask
<1>1. at[r] = "out"
  BY DEF NewIsOut
<1>2. queue \in Seq(Requests) /\ queue' = Append(queue, r)
  BY DEF TypeOK
<1>3. TypeOK'
  BY <1>2, Joining DEF TypeOK
<1>4. QueueWaits'
  <2>1. Waits(Append(queue, r), at')
    BY <1>1, <1>2, JoinQueue DEF Waits, QueueWaits, TypeOK
  <2> QED BY <1>2, <2>1 DEF Waits, QueueWaits
<1>5. NewIsOut'
  BY DEF NewIsOut, TypeOK
<1>6. queue' # <<>>
  BY <1>2, Joining
<1> QED BY <1>1, <1>3, <1>4, <1>5, <1>6, OutsideStep

\* The claim is served, and its transaction goes to the end of the queue.
LEMMA ClaimStep ==
    ASSUME PInv, NEW r \in Requests, Claim(r)
    PROVE  PInv'
<1> USE DEF PInv, Claim, CanConnect, Ask
<1>1. queue \in Seq(Requests) /\ queue # <<>> /\ Tail(queue) \in Seq(Requests)
  BY Leaving DEF TypeOK
<1>2. at[r] = "queue"
  BY <1>1, Leaving DEF QueueWaits
<1>3. TypeOK'
  BY <1>1, Joining, PoolAssumption DEF TypeOK
<1>4. QueueWaits'
  <2> DEFINE out == [at EXCEPT ![r] = "out"]
  <2>1. Waits(Tail(queue), out)
    BY <1>1, LeaveQueue DEF Waits, QueueWaits, TypeOK
  <2>2. out[r] # "queue" /\ at'[r] = "queue" /\ \A s \in Requests \ {r} : at'[s] = out[s]
    BY DEF TypeOK
  <2>3. Waits(Append(Tail(queue), r), at')
    <3> HIDE DEF out, PInv, Claim, CanConnect, Ask
    <3> QED BY <1>1, <2>1, <2>2, JoinQueue
  <2> QED BY <2>3 DEF Waits, QueueWaits
<1>5. NewIsOut'
  BY DEF NewIsOut, TypeOK
<1> QED BY <1>2, <1>3, <1>4, <1>5, OutsideStep

\* A request gives up: it held nothing.
LEMMA ConnectTimeoutStep ==
    ASSUME PInv, NEW r \in Requests, ConnectTimeout(r)
    PROVE  PInv'
<1> USE DEF PInv, ConnectTimeout, Done
<1>1. queue \in Seq(Requests) /\ queue # <<>> /\ Tail(queue) \in Seq(Requests)
  BY Leaving DEF TypeOK
<1>2. at[r] = "queue"
  BY <1>1, Leaving DEF QueueWaits
<1>3. TypeOK'
  BY <1>1 DEF TypeOK
<1>4. QueueWaits'
  <2>1. \A s \in Requests \ {Head(queue)} : at'[s] = at[s]
    BY DEF TypeOK
  <2>2. Waits(Tail(queue), at')
    BY <1>1, <2>1, LeaveQueue DEF Waits, QueueWaits
  <2> QED BY <2>2 DEF Waits, QueueWaits
<1>5. NewIsOut'
  BY DEF NewIsOut, TypeOK
<1>6. stalled' \in {0, stalled} /\ (queue' = <<>> => stalled' = 0)
  OBVIOUS
<1> QED BY <1>2, <1>3, <1>4, <1>5, <1>6, OutsideStep

\* A transaction begins: it takes a connection, and the last place at its row.
LEMMA BeginStep ==
    ASSUME PInv, NEW r \in Requests, Begin(r)
    PROVE  PInv'
<1> DEFINE k0 == Key[r]
<1> USE DEF PInv, Begin, CanConnect
<1>1. queue \in Seq(Requests) /\ queue # <<>> /\ Tail(queue) \in Seq(Requests)
  BY Leaving DEF TypeOK
<1>2. at[r] = "queue" /\ k0 \in Keys
  BY <1>1, Leaving, PoolAssumption DEF QueueWaits
<1>3. \A k \in Keys : rows[k] \in Seq(Requests)
  BY DEF TypeOK
<1>4. at'[r] = "row" /\ \A s \in Requests \ {r} : at'[s] = at[s]
  BY DEF TypeOK
<1>5. clock'[r] = 0 /\ \A s \in Requests \ {r} : clock'[s] = clock[s]
  BY DEF TypeOK
<1>6. \A k \in Keys : \A i \in 1..Len(rows[k]) : rows[k][i] \in Requests /\ rows[k][i] # r
  BY <1>2, <1>3, ElementOfSeq DEF RowsHoldTheirOwn
<1>7. /\ rows' \in [Keys -> Seq(Requests)]
      /\ rows'[k0] = Append(rows[k0], r)
      /\ \A k \in Keys \ {k0} : rows'[k] = rows[k]
  BY <1>2, <1>3, Joining DEF TypeOK
<1>8. \A k \in Keys : \A i \in 1..Len(rows[k]) :
        i \in 1..Len(rows'[k]) /\ rows'[k][i] = rows[k][i]
  BY <1>2, <1>3, <1>7, Joining
<1>9. \A k \in Keys : \A i \in 1..Len(rows'[k]) :
        \/ i \in 1..Len(rows[k]) /\ rows'[k][i] = rows[k][i]
        \/ k = k0 /\ i = Len(rows[k0]) + 1 /\ rows'[k][i] = r
  BY <1>2, <1>3, <1>7, Joining
<1>10. TypeOK'
  <2>1. idle' \in 0..Connections
    BY PoolAssumption DEF TypeOK
  <2> QED BY <1>1, <1>7, <2>1 DEF TypeOK
<1>11. RowsHoldTheirOwn'
  BY <1>2, <1>4, <1>6, <1>9 DEF RowsHoldTheirOwn
<1>12. RowsDistinct'
  <2> SUFFICES ASSUME NEW k \in Keys, NEW i \in 1..Len(rows'[k]), NEW j \in 1..Len(rows'[k]),
                      rows'[k][i] = rows'[k][j]
               PROVE  i = j
    BY DEF RowsDistinct
  <2> QED BY <1>6, <1>9 DEF RowsDistinct
<1>13. HoldersInRows'
  <2> SUFFICES ASSUME NEW s \in Requests, at'[s] \in {"row", "call"}
               PROVE  \E i \in 1..Len(rows'[Key[s]]) : rows'[Key[s]][i] = s
    BY DEF HoldersInRows
  <2>1. CASE s = r
    <3>1. Len(rows[k0]) \in Nat /\ Len(rows'[k0]) = Len(rows[k0]) + 1
          /\ rows'[k0][Len(rows[k0]) + 1] = r
      BY <1>2, <1>3, <1>7, Joining
    <3>2. Len(rows[k0]) + 1 \in 1..Len(rows'[k0])
      BY <3>1
    <3> QED BY <2>1, <3>1, <3>2
  <2>2. CASE s # r
    <3>1. PICK i \in 1..Len(rows[Key[s]]) : rows[Key[s]][i] = s
      BY <1>4, <2>2 DEF HoldersInRows
    <3> QED BY <1>8, <3>1, PoolAssumption
  <2> QED BY <2>1, <2>2
<1>14. QueueWaits'
  <2>1. Waits(queue, at) /\ \A s \in Requests \ {Head(queue)} : at'[s] = at[s]
    BY <1>4 DEF Waits, QueueWaits
  <2>2. Waits(Tail(queue), at')
    BY <1>1, <2>1, LeaveQueue
  <2> QED BY <2>2 DEF Waits, QueueWaits
<1>15. NewIsOut'
  BY <1>2, <1>4 DEF NewIsOut
<1>16. OneConnectionEach'
  <2>1. Holders' = Holders \cup {r} /\ r \notin Holders
    BY <1>2, <1>4 DEF Holders
  <2>2. IsFiniteSet(Holders) /\ Cardinality(Holders) \in Nat
    BY PoolAssumption, FS_Subset, FS_CardinalityType DEF Holders
  <2>3. Cardinality(Holders') = Cardinality(Holders) + 1
    BY <2>1, <2>2, FS_AddElement
  <2> QED BY <2>2, <2>3, PoolAssumption DEF OneConnectionEach, TypeOK
<1>17. CallsInTime'
  BY <1>2, <1>4 DEF CallsInTime, TypeOK
<1>18. WaitsBounded'
  <2> SUFFICES ASSUME NEW k \in Keys, NEW i \in 1..Len(rows'[k])
               PROVE  clock'[rows'[k][i]] <= Behind(i) + call'[rows'[k][1]]
    BY DEF WaitsBounded, Behind
  <2>1. CASE i \in 1..Len(rows[k]) /\ rows'[k][i] = rows[k][i]
    <3>1. rows'[k][1] = rows[k][1]
      BY <1>3, <1>8, <2>1, LenProperties
    <3>2. clock'[rows'[k][i]] = clock[rows[k][i]]
      BY <1>5, <1>6, <2>1
    <3> QED BY <2>1, <3>1, <3>2 DEF WaitsBounded
  <2>2. CASE k = k0 /\ i = Len(rows[k0]) + 1 /\ rows'[k][i] = r
    <3>1. Len(rows[k0]) \in Nat /\ Len(rows[k0]) <= Connections - idle
      BY <1>2, RowsFit
    <3>2. i \in 1..Connections
      BY <2>2, <3>1, PoolAssumption DEF TypeOK
    <3>3. Behind(i) \in Nat
      BY <3>2, BehindLess
    <3>4. rows'[k][1] \in Requests
      <4>1. rows'[k] \in Seq(Requests) /\ 1 \in 1..Len(rows'[k])
        BY <1>7, LenProperties
      <4> QED BY <4>1, ElementOfSeq
    <3>5. call'[rows'[k][1]] \in Nat
      BY <1>10, <3>4 DEF TypeOK
    <3> QED BY <1>5, <2>2, <3>3, <3>5
  <2> QED BY <1>9, <2>1, <2>2
<1>19. StallsBehindCalls'
  <2>1. \A s \in Requests : 0 <= call'[s]
    BY <1>10 DEF TypeOK
  <2> QED BY <2>1, PoolAssumption DEF StallsBehindCalls, D
<1> QED BY <1>10, <1>11, <1>12, <1>13, <1>14, <1>15, <1>16, <1>17, <1>18, <1>19

\* The first of a row calls Inventory: nothing has stalled until then.
LEMMA CallsStep ==
    ASSUME PInv, NEW r \in Requests, Calls(r)
    PROVE  PInv'
<1> USE DEF PInv, Calls
<1>1. /\ Key[r] \in Keys /\ rows[Key[r]] \in Seq(Requests)
      /\ r = rows[Key[r]][1] /\ at[r] = "row" /\ stalled = 0
  BY FirstOfRow DEF CanWork, StallsBehindCalls
<1>2. at'[r] = "call" /\ \A s \in Requests \ {r} : at'[s] = at[s]
  BY DEF TypeOK
<1>3. call' = call
  BY <1>1 DEF CallsInTime, TypeOK
<1>4. TypeOK'
  BY DEF TypeOK
<1>5. RowsHoldTheirOwn'
  <2> SUFFICES ASSUME NEW k \in Keys, NEW i \in 1..Len(rows[k])
               PROVE  /\ Key[rows[k][i]] = k /\ at'[rows[k][i]] \in {"row", "call"}
                      /\ at'[rows[k][i]] = "call" => i = 1
    BY DEF RowsHoldTheirOwn
  <2>1. rows[k][i] \in Requests
    BY ElementOfSeq DEF TypeOK
  <2>2. CASE rows[k][i] = r
    <3>1. k = Key[r] /\ 1 \in 1..Len(rows[k])
      BY <2>2, LenProperties DEF RowsHoldTheirOwn, TypeOK
    <3>2. i = 1
      BY <1>1, <2>2, <3>1 DEF RowsDistinct
    <3> QED BY <1>2, <2>2, <3>1, <3>2
  <2>3. CASE rows[k][i] # r
    BY <1>2, <2>1, <2>3 DEF RowsHoldTheirOwn
  <2> QED BY <2>2, <2>3
<1>6. RowsDistinct' /\ HoldersInRows'
  BY <1>1, <1>2 DEF RowsDistinct, HoldersInRows
<1>7. QueueWaits'
  <2>1. queue \in Seq(Requests)
    BY DEF TypeOK
  <2>2. \A i \in 1..Len(queue) : queue[i] \in Requests \ {r}
    BY <1>1, <2>1, ElementOfSeq DEF QueueWaits
  <2> QED BY <1>2, <2>2 DEF QueueWaits
<1>8. NewIsOut'
  BY <1>1, <1>2 DEF NewIsOut
<1>9. OneConnectionEach'
  <2>1. Holders' = Holders
    BY <1>1, <1>2 DEF Holders
  <2> QED BY <2>1 DEF OneConnectionEach
<1>10. CallsInTime' /\ WaitsBounded'
  BY <1>2, <1>3 DEF CallsInTime, WaitsBounded, Behind
<1>11. StallsBehindCalls'
  <2>1. \A s \in Requests : 0 <= call'[s]
    BY <1>4 DEF TypeOK
  <2> QED BY <1>1, <2>1, PoolAssumption DEF StallsBehindCalls, D
<1> QED BY <1>4, <1>5, <1>6, <1>7, <1>8, <1>9, <1>10, <1>11

\* A transaction ends, whatever its request does next: the others at its row move up
\* by one place, for the one call it may have made.
LEMMA EndStep ==
    ASSUME PInv, NEW r \in Requests, at[r] = "call" \/ CanWork(r), End(r),
           NEW x \in {"out", "queue"}, at' = [at EXCEPT ![r] = x],
           clock' = [clock EXCEPT ![r] = 0], TypeOK', QueueWaits', NewIsOut'
    PROVE  PInv'
<1> DEFINE k0 == Key[r]
<1> USE DEF PInv, End
<1>1. /\ k0 \in Keys /\ rows[k0] # <<>> /\ r = rows[k0][1] /\ at[r] \in {"row", "call"}
      /\ \A k \in Keys : rows[k] \in Seq(Requests)
  BY FirstOfRow DEF TypeOK
<1>2. at'[r] = x /\ \A s \in Requests \ {r} : at'[s] = at[s]
  BY DEF TypeOK
<1>3. clock'[r] = 0 /\ \A s \in Requests \ {r} : clock'[s] = clock[s]
  BY DEF TypeOK
<1>4. call'[r] = 0 /\ \A s \in Requests \ {r} : call'[s] = call[s]
  BY DEF TypeOK
<1>5. rows'[k0] = Tail(rows[k0]) /\ \A k \in Keys \ {k0} : rows'[k] = rows[k]
  BY <1>1 DEF TypeOK
<1>6. \A k \in Keys \ {k0} : \A i \in 1..Len(rows[k]) : rows[k][i] \in Requests \ {r}
  BY <1>1, ElementOfSeq DEF RowsHoldTheirOwn
<1>7. /\ Len(rows[k0]) \in Nat \ {0} /\ Len(rows'[k0]) = Len(rows[k0]) - 1
      /\ \A i \in 1..Len(rows'[k0]) :
            /\ i + 1 \in 1..Len(rows[k0]) /\ rows'[k0][i] = rows[k0][i + 1]
            /\ rows'[k0][i] \in Requests \ {r}
  <2>1. /\ Len(rows[k0]) \in Nat \ {0} /\ Len(rows'[k0]) = Len(rows[k0]) - 1
        /\ \A i \in 1..Len(rows'[k0]) : i + 1 \in 1..Len(rows[k0]) /\ rows'[k0][i] = rows[k0][i + 1]
    <3>1. rows[k0] \in Seq(Requests) /\ rows[k0] # <<>> /\ rows'[k0] = Tail(rows[k0])
      BY <1>1, <1>5
    <3> HIDE DEF k0, PInv, End
    <3> QED BY <3>1, Leaving
  <2>2. \A i \in 1..Len(rows'[k0]) : rows'[k0][i] \in Requests \ {r}
    <3> SUFFICES ASSUME NEW i \in 1..Len(rows'[k0]) PROVE rows'[k0][i] \in Requests \ {r}
      OBVIOUS
    <3>1. i + 1 \in 1..Len(rows[k0]) /\ 1 \in 1..Len(rows[k0]) /\ i + 1 # 1
      BY <2>1
    <3>2. rows[k0][i + 1] # rows[k0][1]
      BY <1>1, <3>1 DEF RowsDistinct
    <3>3. rows[k0][i + 1] \in Requests
      BY <1>1, <3>1, ElementOfSeq
    <3> QED BY <1>1, <2>1, <3>2, <3>3
  <2> QED BY <2>1, <2>2
<1>8. RowsHoldTheirOwn'
  <2> SUFFICES ASSUME NEW k \in Keys, NEW i \in 1..Len(rows'[k])
               PROVE  /\ Key[rows'[k][i]] = k /\ at'[rows'[k][i]] \in {"row", "call"}
                      /\ at'[rows'[k][i]] = "call" => i = 1
    BY DEF RowsHoldTheirOwn
  <2>1. CASE k = k0
    <3>1. /\ Key[rows[k0][i + 1]] = k0 /\ at[rows[k0][i + 1]] \in {"row", "call"}
          /\ at[rows[k0][i + 1]] = "call" => i + 1 = 1
      BY <1>1, <1>7, <2>1 DEF RowsHoldTheirOwn
    <3>2. i + 1 # 1 /\ rows'[k0][i] = rows[k0][i + 1] /\ rows'[k0][i] \in Requests \ {r}
      BY <1>7, <2>1
    <3>3. at'[rows'[k0][i]] = at[rows[k0][i + 1]]
      BY <1>2, <3>2
    <3> QED BY <2>1, <3>1, <3>2, <3>3
  <2>2. CASE k # k0
    BY <1>2, <1>5, <1>6, <2>2 DEF RowsHoldTheirOwn
  <2> QED BY <2>1, <2>2
<1>9. RowsDistinct'
  <2> SUFFICES ASSUME NEW k \in Keys, NEW i \in 1..Len(rows'[k]), NEW j \in 1..Len(rows'[k]),
                      rows'[k][i] = rows'[k][j]
               PROVE  i = j
    BY DEF RowsDistinct
  <2>1. CASE k = k0
    <3>1. i + 1 = j + 1
      BY <1>1, <1>7, <2>1 DEF RowsDistinct
    <3> QED BY <1>7, <2>1, <3>1
  <2>2. CASE k # k0
    BY <1>5, <2>2 DEF RowsDistinct
  <2> QED BY <2>1, <2>2
<1>10. HoldersInRows'
  <2> SUFFICES ASSUME NEW s \in Requests, at'[s] \in {"row", "call"}
               PROVE  \E i \in 1..Len(rows'[Key[s]]) : rows'[Key[s]][i] = s
    BY DEF HoldersInRows
  <2>1. s # r /\ Key[s] \in Keys
    BY <1>2, PoolAssumption
  <2>2. PICK j \in 1..Len(rows[Key[s]]) : rows[Key[s]][j] = s
    BY <1>2, <2>1 DEF HoldersInRows
  <2>3. CASE Key[s] = k0
    <3>1. j # 1 /\ j - 1 \in 1..Len(rows'[k0]) /\ (j - 1) + 1 = j
      BY <1>1, <1>7, <2>1, <2>2, <2>3
    <3>2. rows'[k0][j - 1] = rows[k0][(j - 1) + 1]
      BY <1>7, <3>1
    <3> QED BY <2>2, <2>3, <3>1, <3>2
  <2>4. CASE Key[s] # k0
    BY <1>5, <2>1, <2>2, <2>4
  <2> QED BY <2>3, <2>4
<1>11. OneConnectionEach'
  <2>1. Holders' = Holders \ {r} /\ r \in Holders
    BY <1>1, <1>2 DEF Holders
  <2>2. IsFiniteSet(Holders) /\ Cardinality(Holders) \in Nat
    BY PoolAssumption, FS_Subset, FS_CardinalityType DEF Holders
  <2>3. Cardinality(Holders') = Cardinality(Holders) - 1
    BY <2>1, <2>2, FS_RemoveElement
  <2> QED BY <2>2, <2>3, PoolAssumption DEF OneConnectionEach, TypeOK
<1>12. CallsInTime'
  BY <1>2, <1>4, PoolAssumption DEF CallsInTime, D
<1>13. WaitsBounded'
  <2> SUFFICES ASSUME NEW k \in Keys, NEW i \in 1..Len(rows'[k])
               PROVE  clock'[rows'[k][i]] <= Behind(i) + call'[rows'[k][1]]
    BY DEF WaitsBounded, Behind
  <2>1. CASE k = k0
    <3>1. clock'[rows'[k0][i]] = clock[rows[k0][i + 1]]
      BY <1>3, <1>7, <2>1
    <3>2. clock[rows[k0][i + 1]] <= Behind(i + 1) + call[r]
      BY <1>1, <1>7, <2>1 DEF WaitsBounded
    <3>3. call[r] \in Nat /\ call[r] <= D /\ clock[rows[k0][i + 1]] \in Nat
      <4>1. rows[k0][i + 1] \in Requests
        BY <1>7, <2>1
      <4> QED BY <4>1 DEF CallsInTime, TypeOK
    <3>4. i \in Nat /\ Behind(i) \in Int /\ Behind(i + 1) \in Int /\ Behind(i) = Behind(i + 1) + D
      <4>1. i \in Nat /\ i + 1 \in Nat
        BY <1>7, <2>1
      <4> QED BY <4>1, BehindLess
    <3>5. call'[rows'[k0][1]] \in Nat
      <4>1. 1 \in 1..Len(rows'[k0])
        BY <1>7, <2>1
      <4>2. rows'[k0][1] \in Requests
        BY <1>7, <4>1
      <4> QED BY <4>2 DEF TypeOK
    <3>6. clock[rows[k0][i + 1]] <= Behind(i)
      BY <3>2, <3>3, <3>4, PoolAssumption DEF D
    <3>7. clock'[rows'[k0][i]] <= Behind(i) + call'[rows'[k0][1]]
      <4> HIDE DEF PInv, End, k0
      <4> QED BY <3>1, <3>3, <3>4, <3>5, <3>6
    <3> QED BY <2>1, <3>7
  <2>2. CASE k # k0
    <3>1. rows'[k] = rows[k] /\ rows[k][i] \in Requests \ {r}
      BY <1>5, <1>6, <2>2
    <3>2. rows[k][1] \in Requests \ {r}
      <4>1. 1 \in 1..Len(rows[k])
        BY <1>1, <3>1, LenProperties
      <4> QED BY <1>6, <2>2, <4>1
    <3>3. clock'[rows'[k][i]] = clock[rows[k][i]] /\ call'[rows'[k][1]] = call[rows[k][1]]
      BY <1>3, <1>4, <3>1, <3>2
    <3>4. clock[rows[k][i]] <= Behind(i) + call[rows[k][1]]
      BY <3>1 DEF WaitsBounded
    <3> HIDE DEF PInv, End, k0
    <3> QED BY <3>3, <3>4
  <2> QED BY <2>1, <2>2
<1>14. StallsBehindCalls'
  <2>1. \A s \in Requests : 0 <= call'[s]
    BY DEF TypeOK
  <2> QED BY <2>1, PoolAssumption DEF StallsBehindCalls, D
<1> QED BY <1>8, <1>9, <1>10, <1>11, <1>12, <1>13, <1>14

\* The request of the transaction that ends has its answer.
LEMMA DoneStep ==
    ASSUME PInv, NEW r \in Requests, at[r] = "call" \/ CanWork(r), Done(r, queue), End(r)
    PROVE  PInv'
<1> USE DEF PInv, Done
<1>1. at[r] \in {"row", "call"} /\ Key[r] \in Keys /\ rows[Key[r]] \in Seq(Requests) /\ rows[Key[r]] # <<>>
  BY FirstOfRow
<1>2. TypeOK'
  <2>1. idle' \in 0..Connections
    <3>1. r \in Holders /\ IsFiniteSet(Holders) /\ Cardinality(Holders) \in Nat
      BY <1>1, PoolAssumption, FS_Subset, FS_CardinalityType DEF Holders
    <3>2. Cardinality(Holders) # 0
      BY <3>1, FS_EmptySet
    <3> QED BY <3>1, <3>2, PoolAssumption DEF OneConnectionEach, TypeOK, End
  <2>2. rows' \in [Keys -> Seq(Requests)]
    BY <1>1, Leaving DEF TypeOK, End
  <2> QED BY <2>1, <2>2 DEF TypeOK, End
<1>3. QueueWaits' /\ NewIsOut'
  <2>1. queue \in Seq(Requests) /\ \A s \in Requests \ {r} : at'[s] = at[s]
    BY DEF TypeOK
  <2>2. \A i \in 1..Len(queue) : queue[i] \in Requests \ {r}
    BY <1>1, <2>1, ElementOfSeq DEF QueueWaits
  <2> QED BY <2>1, <2>2 DEF QueueWaits, NewIsOut, TypeOK
<1> HIDE DEF PInv
<1> QED BY <1>2, <1>3, EndStep

\* It goes on to the next transaction, and joins the queue again.
LEMMA AskStep ==
    ASSUME PInv, NEW r \in Requests, at[r] = "call" \/ CanWork(r), End(r),
           NEW p \in {"prepare", "compensate"}, Ask(r, p, queue)
    PROVE  PInv'
<1> USE DEF PInv, Ask
<1>1. at[r] \in {"row", "call"} /\ Key[r] \in Keys /\ rows[Key[r]] \in Seq(Requests) /\ rows[Key[r]] # <<>>
  BY FirstOfRow
<1>2. queue \in Seq(Requests)
  BY DEF TypeOK
<1>3. TypeOK'
  <2>1. idle' \in 0..Connections
    <3>1. r \in Holders /\ IsFiniteSet(Holders) /\ Cardinality(Holders) \in Nat
      BY <1>1, PoolAssumption, FS_Subset, FS_CardinalityType DEF Holders
    <3>2. Cardinality(Holders) # 0
      BY <3>1, FS_EmptySet
    <3> QED BY <3>1, <3>2, PoolAssumption DEF OneConnectionEach, TypeOK, End
  <2>2. rows' \in [Keys -> Seq(Requests)]
    BY <1>1, Leaving DEF TypeOK, End
  <2>3. queue' \in Seq(Requests)
    BY <1>2, Joining
  <2> QED BY <2>1, <2>2, <2>3 DEF TypeOK, End
<1>4. QueueWaits'
  <2>1. /\ Waits(queue, at) /\ at[r] # "queue" /\ at'[r] = "queue"
        /\ \A s \in Requests \ {r} : at'[s] = at[s]
    BY <1>1 DEF Waits, QueueWaits, TypeOK
  <2>2. Waits(Append(queue, r), at')
    BY <1>2, <2>1, JoinQueue
  <2> QED BY <2>2 DEF Waits, QueueWaits
<1>5. NewIsOut'
  BY DEF NewIsOut, TypeOK
<1> HIDE DEF PInv
<1> QED BY <1>3, <1>4, <1>5, EndStep

\* Time goes on only while the first of every row is in a call; and with no
\* connection left, there is such a row.
LEMMA TickStep == PInv /\ Tick => PInv'
<1> SUFFICES ASSUME PInv, Tick PROVE PInv'
  OBVIOUS
<1> USE DEF PInv, Tick
<1>1. D \in Nat /\ stalled \in Nat /\ \A r \in Requests : call[r] \in Nat /\ clock[r] \in Nat
  BY PoolAssumption DEF D, TypeOK
<1>2. \A r \in Requests : at[r] = "call" => call[r] < D
  BY <1>1 DEF CallsInTime, DeadlineDue, D
<1>3. \A r \in Requests : call'[r] = IF at[r] = "call" THEN call[r] + 1 ELSE call[r]
  BY <1>1, <1>2 DEF D
<1>4. \A r \in Requests : clock'[r] \in Nat /\ clock'[r] <= clock[r] + 1
  BY <1>1
<1>5. \A k \in Keys : Len(rows[k]) \in Nat /\ \A i \in 1..Len(rows[k]) :
        /\ rows[k][i] \in Requests /\ rows[k][1] \in Requests
        /\ at[rows[k][1]] = "call"
  <2> SUFFICES ASSUME NEW k \in Keys, NEW i \in 1..Len(rows[k])
               PROVE  /\ rows[k][i] \in Requests /\ rows[k][1] \in Requests
                      /\ at[rows[k][1]] = "call"
    BY LenProperties DEF TypeOK
  <2>1. rows[k] \in Seq(Requests)
    BY DEF TypeOK
  <2>2. 1 \in 1..Len(rows[k]) /\ rows[k] # <<>>
    BY <2>1, LenProperties, EmptySeq
  <2>3. /\ rows[k][i] \in Requests /\ rows[k][1] \in Requests
        /\ Key[rows[k][1]] = k /\ at[rows[k][1]] \in {"row", "call"}
    BY <2>1, <2>2, ElementOfSeq DEF RowsHoldTheirOwn
  <2>4. at[rows[k][1]] = "row" => CanWork(rows[k][1])
    BY <2>1, <2>2, <2>3, Leaving DEF CanWork, HasRow
  <2> QED BY <2>3, <2>4
<1>6. TypeOK'
  <2>1. call' \in [Requests -> Nat] /\ clock' \in [Requests -> Nat]
    BY <1>1 DEF TypeOK
  <2> QED BY <1>1, <2>1 DEF TypeOK
<1>7. /\ RowsHoldTheirOwn' /\ RowsDistinct' /\ HoldersInRows' /\ QueueWaits' /\ NewIsOut'
      /\ OneConnectionEach'
  BY DEF RowsHoldTheirOwn, RowsDistinct, HoldersInRows, QueueWaits, NewIsOut, OneConnectionEach, Holders
<1>8. CallsInTime'
  BY <1>1, <1>2, <1>3 DEF CallsInTime
<1>9. WaitsBounded'
  <2> SUFFICES ASSUME NEW k \in Keys, NEW i \in 1..Len(rows[k])
               PROVE  clock'[rows[k][i]] <= Behind(i) + call'[rows[k][1]]
    BY DEF WaitsBounded, Behind
  <2>1. clock[rows[k][i]] <= Behind(i) + call[rows[k][1]]
    BY DEF WaitsBounded
  <2>2. call'[rows[k][1]] = call[rows[k][1]] + 1 /\ call[rows[k][1]] \in Nat
    BY <1>1, <1>3, <1>5
  <2>3. clock'[rows[k][i]] <= clock[rows[k][i]] + 1 /\ clock[rows[k][i]] \in Nat /\ clock'[rows[k][i]] \in Nat
    BY <1>1, <1>4, <1>5
  <2>4. Behind(i) \in Int
    BY <1>5, BehindLess
  <2> DEFINE b == Behind(i)
             waited == clock[rows[k][i]]
             waits == clock'[rows[k][i]]
             before == call[rows[k][1]]
  <2>5. b \in Int /\ waited \in Nat /\ waits \in Nat /\ before \in Nat
    BY <2>2, <2>3, <2>4
  <2>6. waited <= b + before /\ waits <= waited + 1
    BY <2>1, <2>3
  <2>7. waits <= b + (before + 1)
    <3> HIDE DEF b, waited, waits, before
    <3> QED BY <2>5, <2>6
  <2> QED BY <2>2, <2>7
<1>10. StallsBehindCalls'
  <2>1. stalled' \in Nat /\ stalled' <= stalled + 1
    BY <1>1
  <2>2. queue' = <<>> => stalled' = 0
    BY DEF StallsBehindCalls
  <2>3. \A r \in Requests : ~CanWork(r)'
    BY DEF CanWork, HasRow
  <2>4. \A r \in Requests : at'[r] = "call" => stalled' <= call'[r]
    BY <1>1, <1>3, <2>1 DEF StallsBehindCalls
  <2>5. CASE queue = <<>>
    BY <1>1, <2>2, <2>3, <2>4, <2>5 DEF StallsBehindCalls
  <2>6. CASE queue # <<>>
    <3>1. idle = 0
      BY <2>6, PoolAssumption DEF CanConnect, TypeOK
    <3>2. Holders # {}
      <4>1. Cardinality(Holders) # 0
        <5>1. Cardinality(Holders) = Connections
          <6>1. Cardinality(Holders) \in Nat
            BY PoolAssumption, FS_Subset, FS_CardinalityType DEF Holders
          <6> QED BY <3>1, <6>1, PoolAssumption DEF OneConnectionEach
        <5> QED BY <5>1, PoolAssumption
      <4> QED BY <4>1, FS_EmptySet
    <3>3. PICK r \in Requests : at[r] \in {"row", "call"}
      BY <3>2 DEF Holders
    <3>4. PICK h \in Requests : at[h] = "call"
      BY <1>5, <3>3, PoolAssumption DEF HoldersInRows
    <3>5. stalled' <= call'[h] /\ call'[h] <= D /\ call'[h] \in Nat
      BY <1>1, <1>2, <1>3, <2>4, <3>4
    <3>6. stalled' <= D
      <4> HIDE DEF PInv, Tick
      <4> QED BY <1>1, <2>1, <3>5
    <3> QED BY <2>2, <2>3, <2>4, <3>6 DEF StallsBehindCalls
  <2> QED BY <2>5, <2>6
<1> QED BY <1>6, <1>7, <1>8, <1>9, <1>10

\* Every step preserves the invariant.
LEMMA NextPInv == PInv /\ [Next]_vars => PInv'
<1> SUFFICES ASSUME PInv, [Next]_vars PROVE PInv'
  OBVIOUS
<1>1. ASSUME NEW r \in Requests, Arrive(r) PROVE PInv'
  BY <1>1, ArriveStep
<1>2. ASSUME NEW r \in Requests, Claim(r) PROVE PInv'
  BY <1>2, ClaimStep
<1>3. ASSUME NEW r \in Requests, Begin(r) PROVE PInv'
  BY <1>3, BeginStep
<1>4. ASSUME NEW r \in Requests, ConnectTimeout(r) PROVE PInv'
  BY <1>4, ConnectTimeoutStep
<1>5. ASSUME NEW r \in Requests, Calls(r) PROVE PInv'
  BY <1>5, CallsStep
<1>6. ASSUME NEW r \in Requests, EndsWithoutCall(r) PROVE PInv'
  BY <1>6, DoneStep DEF EndsWithoutCall
<1>7. ASSUME NEW r \in Requests, EndsAfterCall(r) PROVE PInv'
  BY <1>7, DoneStep DEF EndsAfterCall
<1>8. ASSUME NEW r \in Requests, Recover(r) PROVE PInv'
  BY <1>8, AskStep DEF Recover
<1>9. ASSUME NEW r \in Requests, Prepare(r) PROVE PInv'
  BY <1>9, AskStep DEF Prepare
<1>10. CASE Tick
  BY <1>10, TickStep
<1>11. CASE UNCHANGED vars
  BY <1>11 DEF vars, PInv, TypeOK, RowsHoldTheirOwn, RowsDistinct, HoldersInRows, QueueWaits, NewIsOut,
     OneConnectionEach, Holders, CallsInTime, WaitsBounded, Behind, StallsBehindCalls, CanWork, HasRow
<1> QED BY <1>1, <1>2, <1>3, <1>4, <1>5, <1>6, <1>7, <1>8, <1>9, <1>10, <1>11 DEF Next

\* Who waits longest for its row has the other connections' calls before it.
LEMMA PInvImpliesInTime == PInv => NeverExpires
<1> SUFFICES ASSUME PInv, NEW r \in Holders PROVE clock[r] < timeout
  BY DEF NeverExpires
<1> DEFINE k == Key[r]
<1>1. r \in Requests /\ k \in Keys
  BY PoolAssumption DEF Holders
<1>2. PICK i \in 1..Len(rows[k]) : rows[k][i] = r
  BY DEF PInv, HoldersInRows, Holders
<1>3. rows[k] \in Seq(Requests) /\ Len(rows[k]) \in Nat /\ Len(rows[k]) <= Connections
  BY <1>1, RowsFit, PoolAssumption DEF PInv, TypeOK
<1>4. rows[k][1] \in Requests
  BY <1>3, ElementOfSeq
<1>5. clock[r] <= Behind(i) + call[rows[k][1]]
  BY <1>1, <1>2 DEF PInv, WaitsBounded
<1>6. call[rows[k][1]] \in Nat /\ call[rows[k][1]] <= D /\ clock[r] \in Nat
  BY <1>1, <1>4 DEF PInv, TypeOK, CallsInTime
<1>7. Behind(i) \in Nat /\ Behind(1) \in Nat /\ Behind(i) <= Behind(1) /\ Behind(1) < Margin
  <2>1. i \in 1..Connections /\ 1 \in 1..Connections
    BY <1>3, PoolAssumption
  <2> QED BY <2>1, BehindLess
<1> HIDE DEF k
<1> QED BY <1>5, <1>6, <1>7, PoolAssumption DEF timeout, D

\* The invariant holds in every reachable state.
THEOREM PoolInvariance == Spec => []PInv
<1> QED BY InitPInv, NextPInv, PTL DEF Spec

\* However many requests repeat a key: while one waits for a connection, another is
\* freed, or given, within the deadline of one call (orders.service.ts:218-316).
THEOREM PoolNeverStops == Spec => []PoolMoves
<1>1. PInv => PoolMoves
  BY DEF PInv, StallsBehindCalls, PoolMoves, D
<1> QED BY <1>1, PoolInvariance, PTL

\* The timeout of a transaction leaves time for every call that can come before its
\* own: with the defaults, nine of 800 ms each in 10 s (orders.service.ts:306-310).
THEOREM TransactionsEndInTime == Spec => []NeverExpires
<1> QED BY PInvImpliesInTime, PoolInvariance, PTL
=============================================================================
