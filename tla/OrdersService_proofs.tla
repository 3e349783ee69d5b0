------------------------- MODULE OrdersService_proofs ------------------------
(***************************************************************************)
(* For every number of requests, order ids, bodies and faults, and whether *)
(* or not calls for one order overtake each other: the state is well       *)
(* typed, a key only moves forward, an order exists exactly for a          *)
(* CONFIRMED key, a confirmed order has its reservation and a cancelled    *)
(* one has given it back.  All follow from one inductive invariant, IInv.  *)
(*                                                                         *)
(* What clients are told lasts: a 201 has its order and a 200 its          *)
(* cancellation, and all definite answers to one body of a key are the     *)
(* same (AInv).  And a key that has failed has no stock left behind,       *)
(* unless Inventory refused a reserve of it ahead of an earlier one        *)
(* (OInv).  Both are inductive given IInv.                                 *)
(***************************************************************************)
EXTENDS OrdersService, SequenceTheorems, TLAPS

(* The inductive invariant *)

Creating == {"claim", "lock", "reserve", "release", "commit", "relock", "prepared", "relock2"}
Cancelling == {"cancelRead", "cancelRelease", "cancelPersist"}

\* Why stock of order k may be given back: a compensation, or a cancel.
MayRelease(k) ==
    \/ key[k].state \in {"COMPENSATING", "FAILED"}
    \/ (order[k] # "NONE" /\ CancelAsked(k))

OneHolder ==
    \A r, q \in Requests : r # q /\ holds[r] /\ holds[q] => req[r].id # req[q].id

\* What a handler may do, from its place: the request it serves, its hold on the row,
\* what it will write there and the call it waits for.
Asked(r) ==
    /\ IF pc[r] = "idle" THEN req[r] = NoRequest ELSE req[r] \in Creates \cup Cancels
    /\ pc[r] \in Creating => req[r] \in Creates
    /\ pc[r] \in Cancelling => req[r] \in Cancels
    /\ pc[r] \in Creating \ {"claim"} => Entry(r).state # "ABSENT"
Holding(r) ==
    /\ holds[r] => pc[r] \in {"reserve", "release", "commit", "prepared"}
    /\ pc[r] = "prepared" => holds[r]
    /\ holds[r] /\ pc[r] = "reserve" => Entry(r).state = "IN_PROGRESS"
    /\ holds[r] /\ pc[r] = "release" => Entry(r).state = "COMPENSATING"
Writing(r) ==
    /\ pc[r] \notin {"commit", "prepared"} => write[r] = "nothing"
    /\ pc[r] = "commit" => write[r] # "COMPENSATING"
    /\ pc[r] = "prepared" => write[r] \in {"nothing", "COMPENSATING"}
    /\ holds[r] /\ write[r] \in {"CONFIRMED", "COMPENSATING"} => Entry(r).state = "IN_PROGRESS"
    /\ holds[r] /\ write[r] = "FAILED" => Entry(r).state \in {"IN_PROGRESS", "COMPENSATING"}
    /\ write[r] = "CONFIRMED" => ledger[req[r].id].status # "NONE"
    /\ owes[r] => pc[r] = "commit"
Waiting(r) ==
    /\ rpc[r] # "none" => pc[r] \in {"reserve", "release", "cancelRelease"}
    /\ pc[r] = "reserve" => Entry(r).body = req[r].body
    /\ pc[r] = "reserve" /\ rpc[r] = "OK" => ledger[req[r].id].status # "NONE"
    /\ pc[r] \in {"cancelRelease", "cancelPersist"} => order[req[r].id] # "NONE"
    /\ pc[r] = "cancelRelease" /\ rpc[r] = "OK" => ledger[req[r].id].status = "RELEASED"
    /\ pc[r] = "cancelPersist" => ledger[req[r].id].status = "RELEASED"
Handler(r) == Asked(r) /\ Holding(r) /\ Writing(r) /\ Waiting(r)
Handlers == \A r \in Requests : Handler(r)

\* A call on its way: what it asks for is still justified, and its caller waits for it.
Justified(k, call) ==
    /\ call.op = "reserve" => key[k].state # "ABSENT" /\ call.items = key[k].body.items
    /\ call.op = "release" => MayRelease(k)
Awaited(k, call) ==
    call.from # Nobody =>
        /\ rpc[call.from] = "sent" /\ req[call.from].id = k
        /\ call.op = IF pc[call.from] = "reserve" THEN "reserve" ELSE "release"
OneCaller(calls) ==
    \A i, j \in DOMAIN calls : i # j /\ calls[i].from = calls[j].from => calls[i].from = Nobody
Wires ==
    \A k \in OrderIds :
        /\ OneCaller(wire[k])
        /\ \A i \in DOMAIN wire[k] : Justified(k, wire[k][i]) /\ Awaited(k, wire[k][i])

\* Key, order and reservation of one order id.
Record(k) ==
    /\ key[k].state # "ABSENT" => key[k].body \in Bodies
    /\ ledger[k].status # "NONE" => key[k].state # "ABSENT" /\ ledger[k].items = key[k].body.items
    /\ ledger[k].status = "RELEASED" => MayRelease(k)
    /\ (order[k] # "NONE") <=> (key[k].state = "CONFIRMED")
    /\ order[k] # "NONE" => ledger[k].status # "NONE"
    /\ order[k] = "CANCELLED" => ledger[k].status = "RELEASED"
Records == \A k \in OrderIds : Record(k)

IInv == TypeOK /\ OneHolder /\ Handlers /\ Wires /\ Records

\* What a step does to an order id: nothing is ever taken back.
KeyProgress(k) ==
    \/ key'[k] = key[k]
    \/ key[k].state = "ABSENT" /\ key'[k].state = "IN_PROGRESS" /\ key'[k].body \in Bodies
    \/ /\ key'[k].body = key[k].body
       /\ <<key[k].state, key'[k].state>> \in
              {<<"IN_PROGRESS", "CONFIRMED">>, <<"IN_PROGRESS", "COMPENSATING">>,
               <<"IN_PROGRESS", "FAILED">>, <<"COMPENSATING", "FAILED">>}
Progress(k) ==
    /\ KeyProgress(k)
    /\ order[k] # "NONE" => order'[k] # "NONE"
    /\ ledger[k].status # "NONE" => ledger'[k].status # "NONE" /\ ledger'[k].items = ledger[k].items
    /\ ledger[k].status = "RELEASED" => ledger'[k].status = "RELEASED"
    /\ CancelAsked(k) => CancelAsked(k)'

-----------------------------------------------------------------------------
(* Calls on their way *)

Call == [from : Requests \cup {Nobody}, op : {"reserve", "release"},
         items : Payloads \cup {NoItems}]

\* RemoveAt drops one element and keeps the order of the others.
LEMMA RemoveAtProperties ==
    ASSUME NEW S, NEW s \in Seq(S), NEW i \in DOMAIN s
    PROVE  /\ RemoveAt(s, i) \in Seq(S)
           /\ Len(RemoveAt(s, i)) = Len(s) - 1
           /\ \A j \in DOMAIN RemoveAt(s, i) :
                  RemoveAt(s, i)[j] = IF j < i THEN s[j] ELSE s[j + 1]
<1> DEFINE front == SubSeq(s, 1, i - 1)
           back == SubSeq(s, i + 1, Len(s))
<1>1. Len(s) \in Nat /\ DOMAIN s = 1..Len(s) /\ i \in 1..Len(s)
    BY LenProperties
<1>2. \A j \in 1..Len(s) : s[j] \in S
    BY <1>1, ElementOfSeq
<1>3. /\ front \in Seq(S) /\ Len(front) = i - 1
      /\ \A j \in 1..(i - 1) : front[j] = s[j]
    <2>1. \A j \in 1..(i - 1) : s[j] \in S
        BY <1>1, <1>2
    <2>2. i - 1 \in Int /\ 1 \in Int
        BY <1>1
    <2>3. /\ SubSeq(s, 1, i - 1) \in Seq(S)
          /\ Len(SubSeq(s, 1, i - 1)) = IF 1 <= i - 1 THEN (i - 1) - 1 + 1 ELSE 0
          /\ \A j \in 1..((i - 1) - 1 + 1) : SubSeq(s, 1, i - 1)[j] = s[1 + j - 1]
        BY <2>1, <2>2, SubSeqProperties
    <2> QED BY <2>3, <1>1
<1>4. /\ back \in Seq(S) /\ Len(back) = Len(s) - i
      /\ \A j \in 1..(Len(s) - i) : back[j] = s[j + i]
    <2>1. \A j \in (i + 1)..Len(s) : s[j] \in S
        BY <1>1, <1>2
    <2>2. i + 1 \in Int /\ Len(s) \in Int
        BY <1>1
    <2>3. /\ SubSeq(s, i + 1, Len(s)) \in Seq(S)
          /\ Len(SubSeq(s, i + 1, Len(s))) = IF i + 1 <= Len(s) THEN Len(s) - (i + 1) + 1 ELSE 0
          /\ \A j \in 1..(Len(s) - (i + 1) + 1) : SubSeq(s, i + 1, Len(s))[j] = s[(i + 1) + j - 1]
        BY <2>1, <2>2, SubSeqProperties
    <2>4. /\ Len(s) - (i + 1) + 1 = Len(s) - i
          /\ i + 1 <= Len(s) \/ Len(s) - i = 0
        BY <1>1
    <2>5. \A j \in 1..(Len(s) - i) : s[(i + 1) + j - 1] = s[j + i]
        <3>1. \A j \in 1..(Len(s) - i) : (i + 1) + j - 1 = j + i
            BY <1>1
        <3> QED BY <3>1
    <2>6. Len(back) = Len(s) - i
        BY <2>3, <2>4
    <2> QED BY <2>3, <2>4, <2>5, <2>6
<1>5. RemoveAt(s, i) = front \o back
    BY DEF RemoveAt
<1> HIDE DEF front, back
<1>6. /\ front \o back \in Seq(S) /\ Len(front \o back) = Len(front) + Len(back)
      /\ \A j \in 1..(Len(front) + Len(back)) :
             (front \o back)[j] = IF j <= Len(front) THEN front[j] ELSE back[j - Len(front)]
    BY <1>3, <1>4, ConcatProperties
<1>7. Len(front \o back) = Len(s) - 1 /\ DOMAIN (front \o back) = 1..(Len(s) - 1)
    <2>1. Len(front) + Len(back) = Len(s) - 1
        BY <1>1, <1>3, <1>4
    <2>2. DOMAIN (front \o back) = 1..Len(front \o back)
        BY <1>6, LenProperties
    <2> QED BY <2>1, <2>2, <1>6
<1>8. ASSUME NEW j \in 1..(Len(s) - 1)
      PROVE  (front \o back)[j] = IF j < i THEN s[j] ELSE s[j + 1]
    <2>1. j \in 1..(Len(front) + Len(back))
        BY <1>1, <1>3, <1>4
    <2>2. (front \o back)[j] = IF j <= i - 1 THEN front[j] ELSE back[j - (i - 1)]
        BY <2>1, <1>3, <1>6
    <2>3. CASE j < i
        <3>1. j <= i - 1 /\ j \in 1..(i - 1)
            BY <2>3, <1>1
        <3> QED BY <3>1, <2>2, <2>3, <1>3
    <2>4. CASE ~(j < i)
        <3>1. /\ j - (i - 1) \in 1..(Len(s) - i) /\ (j - (i - 1)) + i = j + 1
              /\ ~(j <= i - 1)
            BY <2>4, <1>1
        <3>2. back[j - (i - 1)] = s[(j - (i - 1)) + i]
            BY <3>1, <1>4
        <3> QED BY <3>1, <3>2, <2>2, <2>4
    <2> QED BY <2>3, <2>4
<1>9. /\ RemoveAt(s, i) \in Seq(S)
      /\ Len(RemoveAt(s, i)) = Len(s) - 1
      /\ DOMAIN RemoveAt(s, i) = 1..(Len(s) - 1)
    BY <1>5, <1>6, <1>7
<1>10. ASSUME NEW j \in DOMAIN RemoveAt(s, i)
       PROVE  RemoveAt(s, i)[j] = IF j < i THEN s[j] ELSE s[j + 1]
    BY <1>5, <1>8, <1>9
<1> QED BY <1>9, <1>10

\* A call taken off the wire leaves the others, and no other from its caller.
LEMMA Dropped ==
    ASSUME NEW calls \in Seq(Call), NEW i \in DOMAIN calls, OneCaller(calls)
    PROVE  /\ RemoveAt(calls, i) \in Seq(Call)
           /\ OneCaller(RemoveAt(calls, i))
           /\ \A j \in DOMAIN RemoveAt(calls, i) :
                  /\ \E n \in DOMAIN calls : RemoveAt(calls, i)[j] = calls[n]
                  /\ RemoveAt(calls, i)[j].from # Nobody =>
                         RemoveAt(calls, i)[j].from # calls[i].from
<1> DEFINE rest == RemoveAt(calls, i)
<1>1. /\ rest \in Seq(Call)
      /\ Len(rest) = Len(calls) - 1
      /\ \A j \in DOMAIN rest : rest[j] = IF j < i THEN calls[j] ELSE calls[j + 1]
    BY RemoveAtProperties
<1>2. /\ Len(calls) \in Nat /\ DOMAIN calls = 1..Len(calls)
      /\ DOMAIN rest = 1..(Len(calls) - 1)
    BY <1>1, LenProperties
<1> HIDE DEF rest
<1> DEFINE old(j) == IF j < i THEN j ELSE j + 1
<1>3. ASSUME NEW j \in DOMAIN rest
      PROVE  old(j) \in DOMAIN calls /\ old(j) # i /\ rest[j] = calls[old(j)]
    BY <1>1, <1>2
<1>4. ASSUME NEW j \in DOMAIN rest, NEW n \in DOMAIN rest, j # n PROVE old(j) # old(n)
    BY <1>2, <1>4
<1> HIDE DEF old
<1>5. OneCaller(rest)
    BY <1>3, <1>4 DEF OneCaller
<1>6. \A j \in DOMAIN rest : /\ \E n \in DOMAIN calls : rest[j] = calls[n]
                             /\ rest[j].from # Nobody => rest[j].from # calls[i].from
    BY <1>3 DEF OneCaller
<1> QED BY <1>1, <1>5, <1>6 DEF rest

LEMMA Appended ==
    ASSUME NEW calls \in Seq(Call), NEW call \in Call, OneCaller(calls),
           \A i \in DOMAIN calls : calls[i].from # call.from
    PROVE  /\ Append(calls, call) \in Seq(Call)
           /\ OneCaller(Append(calls, call))
           /\ \A j \in DOMAIN Append(calls, call) :
                  \/ Append(calls, call)[j] = call
                  \/ \E n \in DOMAIN calls : Append(calls, call)[j] = calls[n]
<1> DEFINE more == Append(calls, call)
<1>1. /\ more \in Seq(Call) /\ Len(more) = Len(calls) + 1
      /\ \A j \in 1..Len(calls) : more[j] = calls[j]
      /\ more[Len(calls) + 1] = call
    BY AppendProperties
<1>2. /\ Len(calls) \in Nat /\ DOMAIN calls = 1..Len(calls)
      /\ DOMAIN more = 1..(Len(calls) + 1)
    BY <1>1, LenProperties
<1> HIDE DEF more
<1>3. \A j \in DOMAIN more :
          \/ j = Len(calls) + 1 /\ more[j] = call
          \/ j \in DOMAIN calls /\ more[j] = calls[j]
    BY <1>1, <1>2
<1>4. OneCaller(more)
    BY <1>3 DEF OneCaller
<1> QED BY <1>1, <1>3, <1>4 DEF more

LEMMA OrphanedProperties ==
    ASSUME NEW calls \in Seq(Call), NEW callers \in SUBSET Requests, OneCaller(calls)
    PROVE  /\ Orphaned(calls, callers) \in Seq(Call)
           /\ OneCaller(Orphaned(calls, callers))
           /\ DOMAIN Orphaned(calls, callers) = DOMAIN calls
           /\ \A j \in DOMAIN calls :
                  LET new == Orphaned(calls, callers)[j] IN
                  /\ new.op = calls[j].op /\ new.items = calls[j].items
                  /\ new.from = IF calls[j].from \in callers THEN Nobody ELSE calls[j].from
<1> DEFINE orphans == Orphaned(calls, callers)
<1>1. Len(calls) \in Nat /\ DOMAIN calls = 1..Len(calls)
    BY LenProperties
<1>2. \A j \in DOMAIN calls : calls[j] \in Call
    BY <1>1, ElementOfSeq
<1>3. DOMAIN orphans = DOMAIN calls
    BY DEF Orphaned
<1>4. ASSUME NEW j \in DOMAIN calls
      PROVE  /\ orphans[j] \in Call
             /\ orphans[j].op = calls[j].op /\ orphans[j].items = calls[j].items
             /\ orphans[j].from = IF calls[j].from \in callers THEN Nobody ELSE calls[j].from
    BY <1>2 DEF Orphaned, Call
<1>5. orphans \in [1..Len(calls) -> Call]
    BY <1>1, <1>4 DEF Orphaned
<1>6. orphans \in Seq(Call)
    BY <1>1, <1>5, SeqDef
<1> HIDE DEF orphans
<1>7. OneCaller(orphans)
    BY <1>3, <1>4 DEF OneCaller
<1> QED BY <1>3, <1>4, <1>6, <1>7 DEF orphans

-----------------------------------------------------------------------------
(* What a step keeps *)

\* What the invariant says of request q, and of the call it waits for.
Same(q) ==
    /\ pc'[q] = pc[q] /\ req'[q] = req[q] /\ holds'[q] = holds[q]
    /\ write'[q] = write[q] /\ owes'[q] = owes[q] /\ rpc'[q] = rpc[q]
Waits(q) == pc'[q] = pc[q] /\ req'[q] = req[q] /\ rpc'[q] = rpc[q]

\* Inventory's answers and failures are among the answers of the service.
LEMMA ApiErrorType ==
    ASSUME NEW op \in {"reserve", "release"}, NEW status \in Replies \cup TransportFailures
    PROVE  toInventoryApiError(op, status) \in Answers
<1>1. status \in {"OK", "ALREADY_EXISTS", "FAILED_PRECONDITION", "NOT_FOUND",
                  "UNAVAILABLE", "DEADLINE_EXCEEDED", "INTERNAL", "UNKNOWN"}
    BY TransportAssumption DEF Replies, TransportStatuses
<1>2. SHARED(status) \in {INVENTORY_UNAVAILABLE, INVENTORY_TIMEOUT, INTERNAL}
    BY DEF SHARED
<1>3. toInventoryApiError(op, status) \in {PART_NOT_FOUND, INSUFFICIENT_STOCK, SHARED(status)}
    BY <1>1 DEF toInventoryApiError
<1> QED BY <1>2, <1>3 DEF Answers

LEMMA CallOnItsWay ==
    ASSUME IInv, NEW k \in OrderIds
    PROVE  /\ wire[k] \in Seq(Call) /\ OneCaller(wire[k])
           /\ \A i \in DOMAIN wire[k] :
                  /\ wire[k][i] \in Call /\ Justified(k, wire[k][i]) /\ Awaited(k, wire[k][i])
                  /\ wire[k][i].from # Nobody => wire[k][i].from \in Requests
<1>1. wire[k] \in Seq(Call)
    BY DEF IInv, TypeOK, Call
<1>2. \A i \in DOMAIN wire[k] : wire[k][i] \in Call
    BY <1>1, ElementOfSeq, LenProperties
<1> QED BY <1>1, <1>2 DEF IInv, Wires, Call

\* A busy handler serves a request for one of the order ids.
LEMMA BusyHandler ==
    ASSUME IInv, NEW r \in Requests, pc[r] \notin {"idle", "done"}
    PROVE  /\ req[r].id \in OrderIds
           /\ pc[r] \in Creating => /\ req[r].op = "create" /\ req[r].body \in Bodies
                                    /\ req[r].body.items \in Payloads
           /\ pc[r] \in Cancelling => req[r].op = "cancel"
<1>1. pc[r] \in Creating \cup Cancelling
    BY DEF IInv, TypeOK, Places, Creating, Cancelling
<1>2. Asked(r)
    BY DEF IInv, Handlers, Handler
<1>3. CASE pc[r] \in Creating
    <2>1. req[r] \in Creates
        BY <1>2, <1>3 DEF Asked
    <2>2. req[r].body.items \in Payloads
        BY <2>1, BodyAssumption DEF Creates
    <2> QED BY <2>1, <2>2, <1>3 DEF Creates, Creating, Cancelling
<1>4. CASE pc[r] \in Cancelling
    <2>1. req[r] \in Cancels
        BY <1>2, <1>4 DEF Asked
    <2> QED BY <2>1, <1>4 DEF Cancels, Creating, Cancelling
<1> QED BY <1>1, <1>3, <1>4

\* The other handlers are not disturbed by a step that changes no row they hold.
LEMMA HandlerKept ==
    ASSUME IInv, NEW q \in Requests, Same(q), \A k \in OrderIds : Progress(k),
           holds[q] => key'[req[q].id] = key[req[q].id]
    PROVE  Handler(q)'
<1>1. Handler(q)
    BY DEF IInv, Handlers
<1>2. CASE pc[q] \in {"idle", "done"}
    <2>1. ~holds[q] /\ ~owes[q] /\ rpc[q] = "none" /\ write[q] = "nothing"
        BY <1>1, <1>2 DEF Handler, Holding, Writing, Waiting
    <2>2. Asked(q)'
        BY <1>1, <1>2 DEF Handler, Asked, Same, Creating, Cancelling
    <2>3. Holding(q)' /\ Writing(q)' /\ Waiting(q)'
        BY <2>1, <1>2 DEF Holding, Writing, Waiting, Same
    <2> QED BY <2>2, <2>3 DEF Handler
<1>3. CASE pc[q] \notin {"idle", "done"}
    <2>1. req[q].id \in OrderIds
        BY <1>3, BusyHandler
    <2>2. Progress(req[q].id)
        BY <2>1
    <2>3. Asked(q)'
        BY <1>1, <1>3, <2>2 DEF Handler, Asked, Same, Progress, KeyProgress, Entry
    <2>4. Holding(q)'
        BY <1>1 DEF Handler, Holding, Same, Entry
    <2>5. Writing(q)'
        BY <1>1, <2>2 DEF Handler, Writing, Same, Entry, Progress
    <2>6. pc[q] = "reserve" => Entry(q).state # "ABSENT"
        BY <1>1 DEF Handler, Asked, Creating
    <2>7. Waiting(q)'
        BY <1>1, <2>2, <2>6 DEF Handler, Waiting, Same, Entry, Progress, KeyProgress
    <2> QED BY <2>3, <2>4, <2>5, <2>7 DEF Handler
<1> QED BY <1>2, <1>3

\* The calls on their way are those that were, from a caller that still waits or from
\* none, and calls that are justified now.
LEMMA WiresKept ==
    ASSUME IInv, \A k \in OrderIds : Progress(k),
           \A k \in OrderIds : OneCaller(wire'[k]),
           \A k \in OrderIds : \A j \in DOMAIN wire'[k] :
              \/ \E n \in DOMAIN wire[k] :
                    /\ wire'[k][j].op = wire[k][n].op /\ wire'[k][j].items = wire[k][n].items
                    /\ \/ wire'[k][j].from = Nobody
                       \/ wire'[k][j].from = wire[k][n].from /\ Waits(wire[k][n].from)
              \/ (Justified(k, wire[k][j]) /\ Awaited(k, wire[k][j]))'
    PROVE  Wires'
<1> SUFFICES ASSUME NEW k \in OrderIds, NEW j \in DOMAIN wire'[k]
             PROVE  (Justified(k, wire[k][j]) /\ Awaited(k, wire[k][j]))'
    BY DEF Wires, OneCaller
<1>1. CASE (Justified(k, wire[k][j]) /\ Awaited(k, wire[k][j]))'
    BY <1>1
<1>2. ASSUME NEW n \in DOMAIN wire[k],
             wire'[k][j].op = wire[k][n].op /\ wire'[k][j].items = wire[k][n].items,
             \/ wire'[k][j].from = Nobody
             \/ wire'[k][j].from = wire[k][n].from /\ Waits(wire[k][n].from)
      PROVE  (Justified(k, wire[k][j]) /\ Awaited(k, wire[k][j]))'
    <2>1. Justified(k, wire[k][n]) /\ Awaited(k, wire[k][n])
        BY DEF IInv, Wires
    <2>2. Progress(k)
        OBVIOUS
    <2>3. Justified(k, wire[k][j])'
        BY <1>2, <2>1, <2>2 DEF Justified, MayRelease, Progress, KeyProgress
    <2>4. Awaited(k, wire[k][j])'
        BY <1>2, <2>1 DEF Awaited, Waits
    <2> QED BY <2>3, <2>4
<1> QED BY <1>1, <1>2

\* A step of handler r: it may change its own locals, and the row it holds.
LEMMA LocalStep ==
    ASSUME IInv, NEW r \in Requests, TypeOK', Records', Wires',
           \A k \in OrderIds : Progress(k),
           \A q \in Requests \ {r} : Same(q),
           \A k \in OrderIds :
              key'[k] # key[k] => key[k].state = "ABSENT" \/ (holds[r] /\ req[r].id = k),
           holds'[r] => req'[r] = req[r] /\ (holds[r] \/ RowFree(r)),
           Handler(r)'
    PROVE  IInv'
<1>1. ASSUME NEW q \in Requests PROVE Handler(q)'
    <2>1. CASE q = r
        BY <2>1
    <2>2. CASE q # r
        <3>1. ASSUME holds[q] PROVE key'[req[q].id] = key[req[q].id]
            <4>1. Handler(q) /\ pc[q] \notin {"idle", "done"}
                BY <3>1 DEF IInv, Handlers, Handler, Holding
            <4>2. req[q].id \in OrderIds
                BY <4>1, BusyHandler
            <4>3. Entry(q).state # "ABSENT"
                BY <3>1, <4>1 DEF Handler, Asked, Holding, Creating
            <4>4. ~(holds[r] /\ req[r].id = req[q].id)
                BY <2>2, <3>1 DEF IInv, OneHolder
            <4> QED BY <4>2, <4>3, <4>4 DEF Entry
        <3>2. Same(q)
            BY <2>2
        <3> QED BY <3>1, <3>2, HandlerKept
    <2> QED BY <2>1, <2>2
<1>2. OneHolder'
    BY DEF IInv, OneHolder, Same, RowFree
<1> QED BY <1>1, <1>2 DEF IInv, Handlers

\* A step that leaves key, order and ledger alone.
LEMMA RecordsKept ==
    ASSUME IInv, UNCHANGED <<key, order, ledger>>,
           \A r \in Requests : req'[r] = req[r] \/ req[r] = NoRequest
    PROVE  Records' /\ \A k \in OrderIds : Progress(k)
<1>1. ASSUME NEW k \in OrderIds, CancelAsked(k) PROVE CancelAsked(k)'
    BY <1>1 DEF CancelAsked, NoRequest
<1>2. ASSUME NEW k \in OrderIds PROVE Record(k)'
    <2>1. Record(k)
        BY DEF IInv, Records
    <2> QED BY <1>1, <2>1 DEF Record, MayRelease
<1> QED BY <1>1, <1>2 DEF Records, Progress, KeyProgress

\* A step that leaves the wire alone, of a handler that waits for no call.
LEMMA SilentStep ==
    ASSUME IInv, \A k \in OrderIds : Progress(k), wire' = wire,
           \A q \in Requests : Waits(q) \/ rpc[q] # "sent"
    PROVE  Wires'
<1>1. \A k \in OrderIds : OneCaller(wire'[k])
    BY DEF IInv, Wires, OneCaller
<1>2. ASSUME NEW k \in OrderIds, NEW j \in DOMAIN wire'[k]
      PROVE  wire'[k][j].from = Nobody \/ Waits(wire[k][j].from)
    <2>1. /\ Awaited(k, wire[k][j])
          /\ wire[k][j].from # Nobody => wire[k][j].from \in Requests
        BY CallOnItsWay
    <2> QED BY <2>1 DEF Awaited
<1> QED BY <1>1, <1>2, WiresKept

\* A handler that waits for no call sends one.
LEMMA Sending ==
    ASSUME IInv, NEW r \in Requests, NEW op \in {"reserve", "release"},
           NEW items \in Payloads \cup {NoItems}, Send(r, op, items),
           req[r].id \in OrderIds, rpc[r] = "none", UNCHANGED <<key, order, req>>,
           \A k \in OrderIds : Progress(k),
           \A q \in Requests \ {r} : pc'[q] = pc[q],
           (pc'[r] = "reserve") <=> (op = "reserve"),
           Justified(req[r].id, [from |-> r, op |-> op, items |-> items])
    PROVE  /\ Wires'
           /\ wire' \in [OrderIds -> Seq(Call)] /\ rpc' = [rpc EXCEPT ![r] = "sent"]
<1> DEFINE id == req[r].id
           call == [from |-> r, op |-> op, items |-> items]
<1>1. wire \in [OrderIds -> Seq(Call)] /\ rpc \in [Requests -> {"none", "sent"} \cup Replies]
    BY DEF IInv, TypeOK, Call
<1>2. /\ wire' = [wire EXCEPT ![id] = Append(@, call)] /\ rpc' = [rpc EXCEPT ![r] = "sent"]
      /\ call \in Call
    BY DEF Send, Call
<1>3. ASSUME NEW k \in OrderIds, NEW i \in DOMAIN wire[k]
      PROVE  /\ wire[k][i] \in Call /\ wire[k][i].from # r
             /\ wire[k][i].from = Nobody \/ Waits(wire[k][i].from)
    <2>1. wire[k][i] \in Call /\ Awaited(k, wire[k][i])
        BY CallOnItsWay
    <2>2. wire[k][i].from # r
        BY <2>1, NobodyAssumption DEF Awaited
    <2> QED BY <1>1, <1>2, <2>1, <2>2 DEF Call, Waits
<1>4. \A k \in OrderIds : OneCaller(wire[k])
    BY CallOnItsWay
<1>5. /\ Append(wire[id], call) \in Seq(Call) /\ OneCaller(Append(wire[id], call))
      /\ \A j \in DOMAIN Append(wire[id], call) :
            \/ Append(wire[id], call)[j] = call
            \/ \E n \in DOMAIN wire[id] : Append(wire[id], call)[j] = wire[id][n]
    BY <1>1, <1>2, <1>3, <1>4, Appended
<1>6. (Justified(id, call) /\ Awaited(id, call))'
    BY <1>1, <1>2 DEF Justified, MayRelease, CancelAsked, Awaited
<1>7. wire' \in [OrderIds -> Seq(Call)]
    BY <1>1, <1>2, <1>5
<1> HIDE DEF call
<1>8. \A k \in OrderIds : OneCaller(wire'[k])
    BY <1>1, <1>2, <1>4, <1>5
<1>9. ASSUME NEW k \in OrderIds, NEW j \in DOMAIN wire'[k]
      PROVE  \/ \E n \in DOMAIN wire[k] : wire'[k][j] = wire[k][n]
             \/ k = id /\ wire'[k][j] = call
    BY <1>1, <1>2, <1>5
<1>10. ASSUME NEW k \in OrderIds, NEW j \in DOMAIN wire'[k]
       PROVE  \/ \E n \in DOMAIN wire[k] :
                    /\ wire'[k][j].op = wire[k][n].op /\ wire'[k][j].items = wire[k][n].items
                    /\ \/ wire'[k][j].from = Nobody
                       \/ wire'[k][j].from = wire[k][n].from /\ Waits(wire[k][n].from)
              \/ (Justified(k, wire[k][j]) /\ Awaited(k, wire[k][j]))'
    <2>1. CASE \E n \in DOMAIN wire[k] : wire'[k][j] = wire[k][n]
        BY <2>1, <1>3
    <2>2. CASE k = id /\ wire'[k][j] = call
        BY <2>2, <1>6
    <2> QED BY <1>9, <2>1, <2>2
<1>11. Wires'
    BY <1>8, <1>10, WiresKept
<1> QED BY <1>2, <1>7, <1>11

\* A handler gives up on its call, which stays on its way for nobody.
LEMMA GivingUp ==
    ASSUME IInv, NEW r \in Requests, GivesUp(r), req[r].id \in OrderIds,
           \A k \in OrderIds : Progress(k), UNCHANGED req,
           \A q \in Requests \ {r} : pc'[q] = pc[q]
    PROVE  /\ Wires'
           /\ wire' \in [OrderIds -> Seq(Call)] /\ rpc' = [rpc EXCEPT ![r] = "none"]
           /\ faults' \in 0..MaxFaults
<1>1. wire \in [OrderIds -> Seq(Call)] /\ rpc \in [Requests -> {"none", "sent"} \cup Replies]
    BY DEF IInv, TypeOK, Call
<1>2. /\ wire' = [wire EXCEPT ![req[r].id] = Orphaned(@, {r})]
      /\ rpc' = [rpc EXCEPT ![r] = "none"] /\ faults' \in 0..MaxFaults
    BY OrdersConstants DEF GivesUp, IInv, TypeOK
<1> DEFINE orphans(k) == Orphaned(wire[k], {r})
<1>3. ASSUME NEW k \in OrderIds
      PROVE  /\ orphans(k) \in Seq(Call) /\ OneCaller(orphans(k))
             /\ DOMAIN orphans(k) = DOMAIN wire[k]
             /\ \A j \in DOMAIN wire[k] :
                   /\ orphans(k)[j].op = wire[k][j].op /\ orphans(k)[j].items = wire[k][j].items
                   /\ orphans(k)[j].from = IF wire[k][j].from = r THEN Nobody
                                                                 ELSE wire[k][j].from
    BY CallOnItsWay, OrphanedProperties
<1>4. ASSUME NEW k \in OrderIds
      PROVE  wire'[k] = IF k = req[r].id THEN orphans(k) ELSE wire[k]
    BY <1>1, <1>2
<1>5. wire' \in [OrderIds -> Seq(Call)]
    BY <1>1, <1>2, <1>3
<1> HIDE DEF orphans
<1>6. \A k \in OrderIds : OneCaller(wire'[k])
    BY <1>3, <1>4, CallOnItsWay
<1>7. ASSUME NEW k \in OrderIds, NEW j \in DOMAIN wire'[k]
      PROVE  /\ j \in DOMAIN wire[k]
             /\ wire'[k][j].op = wire[k][j].op /\ wire'[k][j].items = wire[k][j].items
             /\ \/ wire'[k][j].from = Nobody
                \/ wire'[k][j].from = wire[k][j].from /\ Waits(wire[k][j].from)
    <2>1. j \in DOMAIN wire[k]
        BY <1>3, <1>4
    <2>2. wire[k][j].from # Nobody => wire[k][j].from \in Requests /\ req[wire[k][j].from].id = k
        BY <2>1, CallOnItsWay DEF Awaited
    <2>3. wire[k][j].from \in Requests \ {r} => Waits(wire[k][j].from)
        BY <1>1, <1>2 DEF Waits
    <2>4. CASE k = req[r].id
        BY <1>3, <1>4, <2>1, <2>2, <2>3, <2>4
    <2>5. CASE k # req[r].id
        BY <1>4, <2>1, <2>2, <2>3, <2>5
    <2> QED BY <2>4, <2>5
<1>8. Wires'
    BY <1>6, <1>7, WiresKept
<1> QED BY <1>2, <1>5, <1>8

\* A step of handler r that changes neither key, order or ledger nor what is asked.
LEMMA QuietStep ==
    ASSUME IInv, NEW r \in Requests, TypeOK', Wires', UNCHANGED <<key, order, ledger, req>>,
           \A q \in Requests \ {r} : Same(q),
           holds'[r] => holds[r] \/ RowFree(r),
           Handler(r)'
    PROVE  IInv'
<1>1. Records' /\ \A k \in OrderIds : Progress(k)
    BY RecordsKept
<1> QED BY <1>1, LocalStep

\* And no call on its way either.
LEMMA SilentLocalStep ==
    ASSUME IInv, NEW r \in Requests, TypeOK', UNCHANGED <<key, order, ledger, req, wire>>,
           Waits(r) \/ rpc[r] # "sent",
           \A q \in Requests \ {r} : Same(q),
           holds'[r] => holds[r] \/ RowFree(r),
           Handler(r)'
    PROVE  IInv'
<1>1. \A q \in Requests : Waits(q) \/ rpc[q] # "sent"
    BY DEF Same, Waits
<1>2. Wires'
    BY <1>1, RecordsKept, SilentStep
<1> QED BY <1>2, QuietStep

-----------------------------------------------------------------------------
(* The steps of a handler that neither send nor publish anything *)

LEMMA TransactionFailsKeeps ==
    ASSUME IInv, NEW r \in Requests, TransactionFails(r) \/ FindsExpired(r)
    PROVE  IInv'
<1>1. /\ pc[r] \in {"claim", "lock", "commit", "relock", "prepared", "relock2"}
      /\ Rejected(r) /\ UNCHANGED <<inventoryVars, key, order, wire, req, rpc>>
      /\ faults' \in 0..MaxFaults
    BY OrdersConstants DEF TransactionFails, FindsExpired, IInv, TypeOK
<1>2. Handler(r) /\ TypeOK
    BY DEF IInv, Handlers
<1>3. TypeOK'
    BY <1>1, <1>2 DEF TypeOK, LedgerTypeOK, inventoryVars, ledgerVars, Rejected, Close, Return,
                      GoTo, Finish,
                      Places, Answers
<1>4. \A q \in Requests \ {r} : Same(q)
    BY <1>1, <1>2 DEF TypeOK, Same, Rejected, Close, Return, GoTo, Finish
<1>5. Handler(r)' /\ ~holds'[r] /\ rpc[r] # "sent"
    BY <1>1, <1>2 DEF TypeOK, Handler, Asked, Holding, Writing, Waiting, Entry, Creating,
                      Cancelling, Rejected, Close, Return, GoTo, Finish, inventoryVars, ledgerVars
<1> QED BY <1>1, <1>3, <1>4, <1>5, SilentLocalStep DEF inventoryVars, ledgerVars

\* The callback takes the row and returns without a call.
EntersRow(r, state, result, place) ==
    /\ RowFree(r) /\ holds' = [holds EXCEPT ![r] = TRUE]
    /\ Return(r, state, result) /\ GoTo(r, place)
    /\ UNCHANGED <<inventoryVars, key, order, req, owes, answer, faults, wire, rpc>>
    /\ \/ place = "commit" /\ state = "nothing"
       \/ place = "commit" /\ state = "FAILED" /\ Entry(r).state = "IN_PROGRESS"
       \/ place = "prepared" /\ state = "nothing"
       \/ place = "prepared" /\ state = "COMPENSATING" /\ Entry(r).state = "IN_PROGRESS"

LEMMA EntersRowKeeps ==
    ASSUME IInv, NEW r \in Requests, pc[r] \in {"lock", "relock", "relock2"},
           NEW state, NEW result \in Answers, NEW place, EntersRow(r, state, result, place)
    PROVE  IInv'
<1>1. Handler(r) /\ TypeOK
    BY DEF IInv, Handlers
<1>2. TypeOK'
    BY <1>1 DEF EntersRow, TypeOK, LedgerTypeOK, inventoryVars, ledgerVars, Return, GoTo, Places
<1>3. \A q \in Requests \ {r} : Same(q)
    BY <1>1 DEF EntersRow, TypeOK, Same, Return, GoTo
<1>4. Handler(r)' /\ rpc[r] # "sent"
    BY <1>1 DEF EntersRow, TypeOK, Handler, Asked, Holding, Writing, Waiting, Entry, Creating,
                Cancelling, Return, GoTo, inventoryVars, ledgerVars
<1> QED BY <1>2, <1>3, <1>4, SilentLocalStep DEF EntersRow, inventoryVars, ledgerVars

LEMMA EnterKeeps ==
    ASSUME IInv, NEW r \in Requests,
           \/ EnterConflict(r) \/ EnterSettled(r) \/ EnterUnknownCustomer(r)
           \/ RecoverSettled(r) \/ Prepare(r)
    PROVE  IInv'
<1>1. pc[r] \in {"lock", "relock", "relock2"}
    BY DEF EnterConflict, EnterSettled, EnterUnknownCustomer, RecoverSettled, Prepare, Enter,
           Reenter
<1>2. Entry(r).response \in Answers
    BY <1>1, BusyHandler DEF IInv, TypeOK, Entry
<1>3. /\ StoredAnswer(Entry(r)) \in Answers
      /\ KEY_CONFLICT \in Answers /\ CUSTOMER_NOT_FOUND \in Answers /\ INTERNAL \in Answers
    BY <1>2 DEF StoredAnswer, Answers
<1>4. CASE EnterConflict(r)
    <2>1. EntersRow(r, "nothing", KEY_CONFLICT, "commit")
        BY <1>4 DEF EnterConflict, Enter, EntersRow
    <2> QED BY <2>1, <1>1, <1>3, EntersRowKeeps
<1>5. CASE EnterSettled(r)
    <2>1. EntersRow(r, "nothing", StoredAnswer(Entry(r)), "commit")
        BY <1>5 DEF EnterSettled, Enter, EntersRow
    <2> QED BY <2>1, <1>1, <1>3, EntersRowKeeps
<1>6. CASE EnterUnknownCustomer(r)
    <2>1. EntersRow(r, "FAILED", CUSTOMER_NOT_FOUND, "commit")
        BY <1>6 DEF EnterUnknownCustomer, Enter, EntersRow
    <2> QED BY <2>1, <1>1, <1>3, EntersRowKeeps
<1>7. CASE RecoverSettled(r)
    <2>1. EntersRow(r, "nothing", StoredAnswer(Entry(r)), "commit")
        BY <1>7 DEF RecoverSettled, Reenter, EntersRow
    <2> QED BY <2>1, <1>1, <1>3, EntersRowKeeps
<1>8. CASE Prepare(r)
    <2>1. \/ EntersRow(r, "COMPENSATING", INTERNAL, "prepared")
          \/ EntersRow(r, "nothing", Entry(r).response, "prepared")
        BY <1>8 DEF Prepare, Reenter, EntersRow
    <2> QED BY <2>1, <1>1, <1>2, <1>3, EntersRowKeeps
<1> QED BY <1>4, <1>5, <1>6, <1>7, <1>8

\* The end of a call that was answered, and what else a handler does by itself.
LEMMA ReservedKeeps ==
    ASSUME IInv, NEW r \in Requests, Reserved(r) \/ Released(r) \/ CancelReleased(r)
    PROVE  IInv'
<1>1. Handler(r) /\ TypeOK
    BY DEF IInv, Handlers
<1>2. /\ rpc[r] = "OK" /\ rpc' = [rpc EXCEPT ![r] = "none"]
      /\ UNCHANGED <<inventoryVars, key, order, req, holds, answer, wire, faults>>
    BY DEF Reserved, Released, CancelReleased, Answered
<1>3. TypeOK'
    BY <1>1, <1>2 DEF Reserved, Released, CancelReleased, TypeOK, LedgerTypeOK, inventoryVars,
                      ledgerVars,
                      Return, GoTo, Places, Answers
<1>4. \A q \in Requests \ {r} : Same(q)
    BY <1>1, <1>2 DEF Reserved, Released, CancelReleased, TypeOK, Same, Return, GoTo
<1>5. Handler(r)'
    BY <1>1, <1>2 DEF Reserved, Released, CancelReleased, TypeOK, Handler, Asked, Holding,
                      Writing, Waiting, Entry, Creating, Cancelling, Return, GoTo, inventoryVars,
                      ledgerVars
<1> QED BY <1>2, <1>3, <1>4, <1>5, SilentLocalStep DEF inventoryVars, ledgerVars

LEMMA RetryKeeps ==
    ASSUME IInv, NEW r \in Requests, Retry(r) \/ Expire(r)
    PROVE  IInv'
<1>1. Handler(r) /\ TypeOK
    BY DEF IInv, Handlers
<1>2. /\ UNCHANGED <<inventoryVars, key, order, req, wire, write, outcome, owes, rpc>>
      /\ faults' \in 0..MaxFaults
    BY OrdersConstants DEF Retry, Expire, IInv, TypeOK
<1>3. TypeOK'
    BY <1>1, <1>2 DEF Retry, Expire, TypeOK, LedgerTypeOK, inventoryVars, ledgerVars, GoTo,
                      Places, Answers
<1>4. \A q \in Requests \ {r} : Same(q)
    BY <1>1, <1>2 DEF Retry, Expire, TypeOK, Same, GoTo
<1>5. /\ Handler(r)' /\ (holds'[r] => holds[r])
      /\ Waits(r) \/ rpc[r] # "sent"
    BY <1>1, <1>2 DEF Retry, Expire, TypeOK, Handler, Asked, Holding, Writing, Waiting, Waits,
                      Entry, Creating, Cancelling, Creates, Cancels, GoTo, inventoryVars, ledgerVars
<1> QED BY <1>2, <1>3, <1>4, <1>5, SilentLocalStep DEF inventoryVars, ledgerVars

-----------------------------------------------------------------------------
(* The steps that send a call, and those that end one *)

LEMMA SendKeeps ==
    ASSUME IInv, NEW r \in Requests,
           EnterReserve(r) \/ EnterCompensating(r) \/ Compensate(r)
    PROVE  IInv'
<1>1. Handler(r) /\ TypeOK
    BY DEF IInv, Handlers
<1>2. /\ pc[r] \in {"lock", "relock2"} /\ rpc[r] = "none"
      /\ RowFree(r) /\ holds' = [holds EXCEPT ![r] = TRUE]
      /\ UNCHANGED <<inventoryVars, key, order, req, owes, answer, faults>>
    BY <1>1 DEF EnterReserve, EnterCompensating, Compensate, Enter, Reenter, Handler, Waiting
<1>3. /\ req[r].id \in OrderIds /\ req[r].body.items \in Payloads
      /\ Entry(r).response \in Answers
    BY <1>1, <1>2, BusyHandler DEF TypeOK, Entry, Creating
<1>4. Records' /\ \A k \in OrderIds : Progress(k)
    BY <1>2, RecordsKept DEF inventoryVars, ledgerVars
<1>5. CASE EnterReserve(r)
    <2>1. /\ Send(r, "reserve", req[r].body.items) /\ GoTo(r, "reserve")
          /\ Entry(r).state = "IN_PROGRESS" /\ Entry(r).body = req[r].body
          /\ UNCHANGED <<write, outcome>>
        BY <1>5 DEF EnterReserve, SameBody
    <2>2. Justified(req[r].id, [from |-> r, op |-> "reserve", items |-> req[r].body.items])
        BY <2>1 DEF Justified, Entry
    <2>3. \A q \in Requests \ {r} : pc'[q] = pc[q]
        BY <1>1, <2>1 DEF GoTo, TypeOK
    <2>4. pc'[r] = "reserve"
        BY <1>1, <2>1 DEF GoTo, TypeOK
    <2>5. /\ Wires' /\ wire' \in [OrderIds -> Seq(Call)]
          /\ rpc' = [rpc EXCEPT ![r] = "sent"]
        BY <1>2, <1>3, <1>4, <2>1, <2>2, <2>3, <2>4, Sending
    <2>6. TypeOK'
        BY <1>1, <1>2, <2>1, <2>5 DEF TypeOK, LedgerTypeOK, inventoryVars, ledgerVars, GoTo,
                                      Places, Call
    <2>7. \A q \in Requests \ {r} : Same(q)
        BY <1>1, <1>2, <2>1, <2>5 DEF TypeOK, Same, GoTo
    <2>8. Handler(r)'
        BY <1>1, <1>2, <2>1, <2>5 DEF TypeOK, Handler, Asked, Holding, Writing, Waiting, Entry,
                                      Creating, Cancelling, GoTo, inventoryVars, ledgerVars
    <2> QED BY <1>2, <2>5, <2>6, <2>7, <2>8, QuietStep DEF inventoryVars, ledgerVars
<1>6. CASE EnterCompensating(r) \/ Compensate(r)
    <2>1. /\ Send(r, "release", NoItems) /\ GoTo(r, "release")
          /\ Entry(r).state = "COMPENSATING" /\ Return(r, "nothing", Entry(r).response)
        BY <1>6 DEF EnterCompensating, Compensate
    <2>2. Justified(req[r].id, [from |-> r, op |-> "release", items |-> NoItems])
        BY <2>1 DEF Justified, MayRelease, Entry
    <2>3. \A q \in Requests \ {r} : pc'[q] = pc[q]
        BY <1>1, <2>1 DEF GoTo, TypeOK
    <2>4. pc'[r] # "reserve"
        BY <1>1, <2>1 DEF GoTo, TypeOK
    <2>5. /\ Wires' /\ wire' \in [OrderIds -> Seq(Call)]
          /\ rpc' = [rpc EXCEPT ![r] = "sent"]
        BY <1>2, <1>3, <1>4, <2>1, <2>2, <2>3, <2>4, Sending
    <2>6. TypeOK'
        BY <1>1, <1>2, <1>3, <2>1, <2>5 DEF TypeOK, LedgerTypeOK, inventoryVars, ledgerVars, GoTo,
                                            Return,
                                            Places, Call
    <2>7. \A q \in Requests \ {r} : Same(q)
        BY <1>1, <1>2, <2>1, <2>5 DEF TypeOK, Same, GoTo, Return
    <2>8. Handler(r)'
        BY <1>1, <1>2, <2>1, <2>5 DEF TypeOK, Handler, Asked, Holding, Writing, Waiting, Entry,
                                      Creating, Cancelling, GoTo, Return, inventoryVars, ledgerVars
    <2> QED BY <1>2, <2>5, <2>6, <2>7, <2>8, QuietStep DEF inventoryVars, ledgerVars
<1> QED BY <1>5, <1>6

LEMMA CancelReadKeeps ==
    ASSUME IInv, NEW r \in Requests, CancelRead(r)
    PROVE  IInv'
<1>1. Handler(r) /\ TypeOK
    BY DEF IInv, Handlers
<1>2. /\ pc[r] = "cancelRead" /\ rpc[r] = "none" /\ ~holds[r]
      /\ UNCHANGED <<inventoryVars, key, order, req, holds, write, outcome, owes, faults>>
    BY <1>1 DEF CancelRead, Handler, Holding, Waiting
<1>3. req[r].id \in OrderIds /\ req[r].op = "cancel"
    BY <1>2, BusyHandler DEF Cancelling
<1>4. Records' /\ \A k \in OrderIds : Progress(k)
    BY <1>2, RecordsKept DEF inventoryVars, ledgerVars
<1>5. ASSUME NEW result \in {ORDER_NOT_FOUND, Cancelled}, Finish(r, result),
             UNCHANGED <<wire, rpc>>
      PROVE  IInv'
    <2>1. TypeOK'
        BY <1>1, <1>2, <1>5 DEF TypeOK, LedgerTypeOK, inventoryVars, ledgerVars, Finish, GoTo,
                                Places, Answers
    <2>2. \A q \in Requests \ {r} : Same(q)
        BY <1>1, <1>2, <1>5 DEF TypeOK, Same, Finish, GoTo
    <2>3. Handler(r)'
        BY <1>1, <1>2, <1>5 DEF TypeOK, Handler, Asked, Holding, Writing, Waiting, Entry,
                                Creating, Cancelling, Finish, GoTo, inventoryVars, ledgerVars
    <2> QED BY <1>2, <1>5, <2>1, <2>2, <2>3, SilentLocalStep DEF inventoryVars, ledgerVars
<1>6. CASE /\ order[req[r].id] = "CONFIRMED" /\ Send(r, "release", NoItems)
           /\ GoTo(r, "cancelRelease") /\ UNCHANGED answer
    <2>1. Justified(req[r].id, [from |-> r, op |-> "release", items |-> NoItems])
        BY <1>3, <1>6 DEF Justified, MayRelease, CancelAsked
    <2>2. \A q \in Requests \ {r} : pc'[q] = pc[q]
        BY <1>1, <1>6 DEF GoTo, TypeOK
    <2>3. pc'[r] # "reserve"
        BY <1>1, <1>6 DEF GoTo, TypeOK
    <2>4. /\ Wires' /\ wire' \in [OrderIds -> Seq(Call)]
          /\ rpc' = [rpc EXCEPT ![r] = "sent"]
        BY <1>2, <1>3, <1>4, <1>6, <2>1, <2>2, <2>3, Sending
    <2>5. TypeOK'
        BY <1>1, <1>2, <1>6, <2>4 DEF TypeOK, LedgerTypeOK, inventoryVars, ledgerVars, GoTo,
                                      Places, Call
    <2>6. \A q \in Requests \ {r} : Same(q)
        BY <1>1, <1>2, <1>6, <2>4 DEF TypeOK, Same, GoTo
    <2>7. Handler(r)'
        BY <1>1, <1>2, <1>6, <2>4 DEF TypeOK, Handler, Asked, Holding, Writing, Waiting, Entry,
                                      Creating, Cancelling, GoTo, inventoryVars, ledgerVars
    <2> QED BY <1>2, <2>4, <2>5, <2>6, <2>7, QuietStep DEF inventoryVars, ledgerVars
<1> QED BY <1>5, <1>6 DEF CancelRead

LEMMA CallFailsKeeps ==
    ASSUME IInv, NEW r \in Requests, NEW status \in Replies \cup TransportFailures,
           ReserveFails(r, status) \/ ReleaseFails(r, status) \/ CancelReleaseFails(r, status)
    PROVE  IInv'
<1>1. Handler(r) /\ TypeOK
    BY DEF IInv, Handlers
<1>2. /\ pc[r] \in {"reserve", "release", "cancelRelease"} /\ CallFails(r, status)
      /\ UNCHANGED <<inventoryVars, key, order, req>>
    BY DEF ReserveFails, ReleaseFails, CancelReleaseFails
<1>3. Records' /\ \A k \in OrderIds : Progress(k)
    BY <1>2, RecordsKept DEF inventoryVars, ledgerVars
<1>4. \A q \in Requests \ {r} : pc'[q] = pc[q]
    BY <1>1 DEF ReserveFails, ReleaseFails, CancelReleaseFails, GoTo, Rejected, Finish, TypeOK
<1>5. /\ Wires' /\ wire' \in [OrderIds -> Seq(Call)] /\ rpc' = [rpc EXCEPT ![r] = "none"]
      /\ faults' \in 0..MaxFaults
    <2>1. CASE GivesUp(r)
        BY <2>1, <1>2, <1>3, <1>4, BusyHandler, GivingUp
    <2>2. CASE Answered(r)
        <3>1. \A q \in Requests : Waits(q) \/ rpc[q] # "sent"
            BY <1>1, <1>2, <1>4, <2>2 DEF Answered, Waits, TypeOK, Replies
        <3>2. Wires'
            BY <1>3, <2>2, <3>1, SilentStep DEF Answered
        <3> QED BY <1>1, <2>2, <3>2 DEF Answered, TypeOK, Call
    <2> QED BY <1>2, <2>1, <2>2 DEF CallFails
<1>6. \A op \in {"reserve", "release"} : toInventoryApiError(op, status) \in Answers
    BY ApiErrorType
<1>7. TypeOK'
    <2>1. Unanswered \in Answers /\ INTERNAL \in Answers
        BY DEF Answers
    <2>2. /\ pc' \in [Requests -> Places] /\ holds' \in [Requests -> BOOLEAN]
          /\ write' \in [Requests -> {"nothing", "COMPENSATING", "CONFIRMED", "FAILED"}]
          /\ owes' \in [Requests -> BOOLEAN]
          /\ outcome' \in [Requests -> Answers] /\ answer' \in [Requests -> Answers]
        <3>1. CASE ReserveFails(r, status)
            BY <1>1, <1>6, <3>1 DEF ReserveFails, Return, GoTo, TypeOK, Places
        <3>2. CASE ReleaseFails(r, status)
            BY <1>1, <2>1, <3>2
               DEF ReleaseFails, Rejected, Close, Return, Finish, GoTo, TypeOK, Places
        <3>3. CASE CancelReleaseFails(r, status)
            BY <1>1, <1>6, <3>3 DEF CancelReleaseFails, Finish, GoTo, TypeOK, Places
        <3> QED BY <3>1, <3>2, <3>3
    <2> QED BY <1>1, <1>2, <1>5, <2>2 DEF TypeOK, LedgerTypeOK, inventoryVars, ledgerVars, Call
<1>8. \A q \in Requests \ {r} : Same(q)
    BY <1>1, <1>2, <1>5
       DEF ReserveFails, ReleaseFails, CancelReleaseFails, Rejected, Close, Return, Finish, GoTo,
           TypeOK, Same
<1>9. Handler(r)' /\ (holds'[r] => holds[r])
    BY <1>1, <1>2, <1>5
       DEF ReserveFails, ReleaseFails, CancelReleaseFails, Rejected, Close, Return, Finish, GoTo,
           TypeOK, Handler, Asked, Holding, Writing, Waiting, Entry, Creating, Cancelling,
           inventoryVars, ledgerVars
<1> QED BY <1>2, <1>5, <1>7, <1>8, <1>9, QuietStep DEF inventoryVars, ledgerVars

-----------------------------------------------------------------------------
(* The steps that write a key or an order *)

\* What the holder of a row publishes there moves its key forward.
LEMMA Publishing ==
    ASSUME IInv, NEW r \in Requests, holds[r], pc[r] \in {"commit", "prepared"}, Publish(r),
           UNCHANGED <<ledger, req>>
    PROVE  /\ Records' /\ \A k \in OrderIds : Progress(k)
           /\ key' \in [OrderIds -> [state : KeyStates, body : Bodies \cup {NoBody},
                                     response : Answers]]
           /\ order' \in [OrderIds -> {"NONE", "CONFIRMED", "CANCELLED"}]
           /\ \A k \in OrderIds : key'[k] # key[k] => req[r].id = k
           /\ key'[req[r].id].state # "ABSENT"
<1> DEFINE id == req[r].id
<1>1. Handler(r) /\ TypeOK
    BY DEF IInv, Handlers
<1>2. id \in OrderIds /\ Entry(r).state # "ABSENT"
    BY <1>1, BusyHandler DEF Handler, Asked, Creating
<1>3. /\ key' \in [OrderIds -> [state : KeyStates, body : Bodies \cup {NoBody},
                                response : Answers]]
      /\ order' \in [OrderIds -> {"NONE", "CONFIRMED", "CANCELLED"}]
    <2>1. order' \in [OrderIds -> {"NONE", "CONFIRMED", "CANCELLED"}]
        BY <1>1, <1>2 DEF TypeOK, Publish
    <2>2. CASE write[r] = "nothing"
        BY <1>1, <2>1, <2>2 DEF TypeOK, Publish
    <2>3. CASE write[r] # "nothing"
        <3> DEFINE entry == [key[id] EXCEPT !.state = write[r], !.response = outcome[r]]
        <3>1. key' = [key EXCEPT ![id] = entry]
            BY <1>1, <1>2, <2>3 DEF TypeOK, Publish
        <3>2. entry \in [state : KeyStates, body : Bodies \cup {NoBody}, response : Answers]
            <4>1. /\ key[id] \in [state : KeyStates, body : Bodies \cup {NoBody},
                                  response : Answers]
                  /\ outcome[r] \in Answers
                BY <1>1, <1>2 DEF TypeOK
            <4>2. write[r] \in KeyStates
                BY <1>1, <2>3 DEF TypeOK, KeyStates
            <4> QED BY <4>1, <4>2
        <3> QED BY <1>1, <2>1, <3>1, <3>2 DEF TypeOK
    <2> QED BY <2>2, <2>3
<1>4. \A k \in OrderIds \ {id} : key'[k] = key[k] /\ order'[k] = order[k]
    BY <1>1, <1>2 DEF TypeOK, Publish
<1>5. \/ /\ write[r] = "nothing" /\ key'[id] = key[id] /\ order'[id] = order[id]
      \/ /\ write[r] # "nothing" /\ key'[id].state = write[r] /\ key'[id].body = key[id].body
         /\ order'[id] = IF write[r] = "CONFIRMED" THEN "CONFIRMED" ELSE order[id]
    BY <1>1, <1>2 DEF TypeOK, Publish
<1>6. /\ write[r] \in {"nothing", "COMPENSATING", "CONFIRMED", "FAILED"}
      /\ write[r] \in {"CONFIRMED", "COMPENSATING"} => key[id].state = "IN_PROGRESS"
      /\ write[r] = "FAILED" => key[id].state \in {"IN_PROGRESS", "COMPENSATING"}
      /\ write[r] = "CONFIRMED" => ledger[id].status # "NONE"
    BY <1>1 DEF TypeOK, Handler, Writing, Entry
<1>7. \A k \in OrderIds : CancelAsked(k)' <=> CancelAsked(k)
    BY DEF CancelAsked
<1>8. ASSUME NEW k \in OrderIds PROVE Record(k)' /\ Progress(k)
    <2>1. Record(k)
        BY DEF IInv, Records
    <2>2. CASE k # id
        BY <1>4, <1>7, <2>1, <2>2 DEF Record, MayRelease, Progress, KeyProgress
    <2>3. CASE k = id
        <3>1. KeyProgress(k)
            BY <1>5, <1>6, <2>3 DEF KeyProgress
        <3>2. Progress(k)
            BY <1>5, <1>7, <2>3, <3>1 DEF Progress
        <3>3. Record(k)'
            BY <1>1, <1>2, <1>5, <1>6, <1>7, <2>1, <2>3
               DEF Record, MayRelease, TypeOK, LedgerTypeOK, Entry
        <3> QED BY <3>2, <3>3
    <2> QED BY <2>2, <2>3
<1> QED BY <1>2, <1>3, <1>4, <1>5, <1>6, <1>8 DEF Records, Entry

LEMMA CommitKeeps ==
    ASSUME IInv, NEW r \in Requests, Commit(r) \/ CommitAckLost(r) \/ CommitPrepared(r)
    PROVE  IInv' /\ \A k \in OrderIds : Progress(k)
<1>1. Handler(r) /\ TypeOK
    BY DEF IInv, Handlers
<1>2. /\ pc[r] \in {"commit", "prepared"} /\ holds[r] /\ rpc[r] = "none"
      /\ Publish(r) /\ Close(r) /\ UNCHANGED <<inventoryVars, wire, req, rpc>>
      /\ faults' \in 0..MaxFaults
    BY <1>1, OrdersConstants DEF Commit, CommitAckLost, CommitPrepared, Rejected, Handler, Holding,
                                 Waiting, TypeOK
<1>3. /\ Records' /\ \A k \in OrderIds : Progress(k)
      /\ key' \in [OrderIds -> [state : KeyStates, body : Bodies \cup {NoBody},
                                response : Answers]]
      /\ order' \in [OrderIds -> {"NONE", "CONFIRMED", "CANCELLED"}]
      /\ \A k \in OrderIds : key'[k] # key[k] => req[r].id = k
      /\ key'[req[r].id].state # "ABSENT"
    BY <1>2, Publishing DEF inventoryVars, ledgerVars
<1>4. TypeOK'
    <2>1. Unanswered \in Answers /\ INTERNAL \in Answers
        BY DEF Answers
    <2>2. /\ pc' \in [Requests -> Places] /\ owes' \in [Requests -> BOOLEAN]
          /\ answer' \in [Requests -> Answers]
        <3>1. CASE Commit(r)
            BY <1>1, <3>1 DEF Commit, Finish, GoTo, TypeOK, Places
        <3>2. CASE CommitAckLost(r)
            BY <1>1, <2>1, <3>2 DEF CommitAckLost, Rejected, Finish, GoTo, TypeOK, Places
        <3>3. CASE CommitPrepared(r)
            BY <1>1, <3>3 DEF CommitPrepared, GoTo, TypeOK, Places
        <3> QED BY <3>1, <3>2, <3>3
    <2>3. /\ holds' \in [Requests -> BOOLEAN] /\ outcome' \in [Requests -> Answers]
          /\ write' \in [Requests -> {"nothing", "COMPENSATING", "CONFIRMED", "FAILED"}]
        BY <1>1, <1>2, <2>1 DEF Close, Return, TypeOK
    <2> QED BY <1>1, <1>2, <1>3, <2>2, <2>3 DEF TypeOK, LedgerTypeOK, inventoryVars, ledgerVars
<1>5. \A q \in Requests \ {r} : Same(q)
    BY <1>1, <1>2 DEF Commit, CommitAckLost, CommitPrepared, Rejected, Close, Return, Finish, GoTo,
                      TypeOK, Same
<1>6. Wires'
    <2>1. \A q \in Requests : Waits(q) \/ rpc[q] # "sent"
        BY <1>2, <1>5 DEF Same, Waits
    <2> QED BY <1>2, <1>3, <2>1, SilentStep
<1>7. Handler(r)' /\ ~holds'[r]
    BY <1>1, <1>2, <1>3
       DEF Commit, CommitAckLost, CommitPrepared, Rejected, Close, Return, Finish, GoTo,
           TypeOK, Handler, Asked, Holding, Writing, Waiting, Entry, Creating, Cancelling
<1> QED BY <1>2, <1>3, <1>4, <1>5, <1>6, <1>7, LocalStep

LEMMA ClaimKeeps ==
    ASSUME IInv, NEW r \in Requests, Claim(r)
    PROVE  IInv' /\ \A k \in OrderIds : Progress(k)
<1>1. Handler(r) /\ TypeOK
    BY DEF IInv, Handlers
<1>2. /\ pc[r] = "claim" /\ rpc[r] = "none" /\ ~holds[r] /\ pc' = [pc EXCEPT ![r] = "lock"]
      /\ UNCHANGED <<inventoryVars, order, wire, req, holds, write, outcome, owes, rpc, answer,
                     faults>>
    BY <1>1 DEF Claim, GoTo, Handler, Holding, Waiting
<1>3. req[r].id \in OrderIds /\ req[r].body \in Bodies
    BY <1>2, BusyHandler DEF Creating
<1>4. /\ key' \in [OrderIds -> [state : KeyStates, body : Bodies \cup {NoBody},
                                response : Answers]]
      /\ key'[req[r].id].state # "ABSENT"
      /\ \A k \in OrderIds :
            \/ key'[k] = key[k]
            \/ /\ key[k].state = "ABSENT" /\ key'[k].state = "IN_PROGRESS"
               /\ key'[k].body = req[r].body
    BY <1>1, <1>3 DEF Claim, Entry, TypeOK, KeyStates, Answers
<1>5. \A k \in OrderIds : CancelAsked(k)' <=> CancelAsked(k)
    BY <1>2 DEF CancelAsked
<1>6. ASSUME NEW k \in OrderIds PROVE Record(k)' /\ Progress(k)
    <2>1. Record(k)
        BY DEF IInv, Records
    <2> QED BY <1>2, <1>3, <1>4, <1>5, <2>1
            DEF Record, MayRelease, Progress, KeyProgress, inventoryVars, ledgerVars
<1>7. TypeOK'
    BY <1>1, <1>2, <1>4 DEF TypeOK, LedgerTypeOK, inventoryVars, ledgerVars, Places
<1>8. \A q \in Requests \ {r} : Same(q)
    BY <1>1, <1>2 DEF TypeOK, Same
<1>9. Wires'
    <2>1. \A q \in Requests : Waits(q) \/ rpc[q] # "sent"
        BY <1>2, <1>8 DEF Same, Waits
    <2> QED BY <1>2, <1>6, <2>1, SilentStep
<1>10. Handler(r)'
    BY <1>1, <1>2, <1>4 DEF TypeOK, Handler, Asked, Holding, Writing, Waiting, Entry, Creating,
                            Cancelling
<1>11. Records' /\ \A k \in OrderIds : Progress(k)
    BY <1>6 DEF Records
<1>12. \A k \in OrderIds :
          key'[k] # key[k] => key[k].state = "ABSENT" \/ (holds[r] /\ req[r].id = k)
    BY <1>4
<1>13. holds'[r] => req'[r] = req[r] /\ (holds[r] \/ RowFree(r))
    BY <1>2
<1> QED BY <1>7, <1>8, <1>9, <1>10, <1>11, <1>12, <1>13, LocalStep

LEMMA CancelPersistKeeps ==
    ASSUME IInv, NEW r \in Requests, CancelPersist(r) \/ CancelPersistFails(r)
    PROVE  IInv'
<1>1. Handler(r) /\ TypeOK
    BY DEF IInv, Handlers
<1>2. PICK result \in {Cancelled, INTERNAL} :
        /\ pc[r] = "cancelPersist" /\ rpc[r] = "none" /\ ~holds[r]
        /\ Finish(r, result) /\ faults' \in 0..MaxFaults
        /\ \/ order' = order
           \/ order' = [order EXCEPT ![req[r].id] = "CANCELLED"]
        /\ UNCHANGED <<inventoryVars, key, wire, req, holds, write, outcome, owes, rpc>>
    BY <1>1, OrdersConstants DEF CancelPersist, CancelPersistFails, Handler, Holding, Waiting,
                                 TypeOK
<1>3. /\ req[r].id \in OrderIds /\ order[req[r].id] # "NONE"
      /\ ledger[req[r].id].status = "RELEASED"
    BY <1>1, <1>2, BusyHandler DEF Handler, Waiting
<1>4. /\ order' \in [OrderIds -> {"NONE", "CONFIRMED", "CANCELLED"}]
      /\ \A k \in OrderIds :
            \/ order'[k] = order[k]
            \/ /\ order[k] # "NONE" /\ order'[k] = "CANCELLED"
               /\ ledger[k].status = "RELEASED"
    BY <1>1, <1>2, <1>3 DEF TypeOK
<1>5. \A k \in OrderIds : CancelAsked(k)' <=> CancelAsked(k)
    BY <1>2 DEF CancelAsked
<1>6. ASSUME NEW k \in OrderIds PROVE Record(k)' /\ Progress(k)
    <2>1. Record(k)
        BY DEF IInv, Records
    <2> QED BY <1>2, <1>4, <1>5, <2>1 DEF Record, MayRelease, Progress, KeyProgress,
                                          inventoryVars, ledgerVars
<1>7. TypeOK'
    BY <1>1, <1>2, <1>4 DEF TypeOK, LedgerTypeOK, inventoryVars, ledgerVars, Finish, GoTo, Places,
                            Answers
<1>8. \A q \in Requests \ {r} : Same(q)
    BY <1>1, <1>2 DEF TypeOK, Same, Finish, GoTo
<1>9. Wires'
    <2>1. \A q \in Requests : Waits(q) \/ rpc[q] # "sent"
        BY <1>2, <1>8 DEF Same, Waits
    <2> QED BY <1>2, <1>6, <2>1, SilentStep
<1>10. Handler(r)'
    BY <1>1, <1>2 DEF TypeOK, Handler, Asked, Holding, Writing, Waiting, Entry, Creating,
                      Cancelling, Finish, GoTo
<1>11. Records' /\ \A k \in OrderIds : Progress(k)
    BY <1>6 DEF Records
<1> QED BY <1>2, <1>7, <1>8, <1>9, <1>10, <1>11, LocalStep

LEMMA ArriveKeeps ==
    ASSUME IInv, NEW r \in Requests, NEW request \in Creates \cup Cancels, Arrive(r, request)
    PROVE  IInv'
<1>1. Handler(r) /\ TypeOK
    BY DEF IInv, Handlers
<1>2. /\ pc[r] = "idle" /\ req[r] = NoRequest /\ rpc[r] = "none" /\ ~holds[r]
      /\ req' = [req EXCEPT ![r] = request]
      /\ GoTo(r, IF request.op = "create" THEN "claim" ELSE "cancelRead")
      /\ UNCHANGED <<inventoryVars, key, order, wire, holds, write, outcome, owes, rpc, answer,
                     faults>>
    BY <1>1 DEF Arrive, Handler, Asked, Holding, Waiting
<1>3. \A q \in Requests \ {r} : Same(q)
    BY <1>1, <1>2 DEF TypeOK, Same, GoTo
<1>4. Records' /\ \A k \in OrderIds : Progress(k)
    <2>1. \A q \in Requests : req'[q] = req[q] \/ req[q] = NoRequest
        BY <1>2, <1>3 DEF Same
    <2> QED BY <1>2, <2>1, RecordsKept DEF inventoryVars, ledgerVars
<1>5. Wires'
    <2>1. \A q \in Requests : Waits(q) \/ rpc[q] # "sent"
        BY <1>2, <1>3 DEF Same, Waits
    <2> QED BY <1>2, <1>4, <2>1, SilentStep
<1>6. TypeOK'
    <2>1. request \in [op : {"create", "cancel"}, id : OrderIds, body : Bodies \cup {NoBody}]
        BY DEF Creates, Cancels
    <2> QED BY <1>1, <1>2, <2>1 DEF TypeOK, LedgerTypeOK, inventoryVars, ledgerVars, GoTo, Places
<1>7. Handler(r)'
    BY <1>1, <1>2 DEF TypeOK, Handler, Asked, Holding, Writing, Waiting, Entry, Creating,
                      Cancelling, Creates, Cancels, GoTo
<1> QED BY <1>2, <1>3, <1>4, <1>5, <1>6, <1>7, LocalStep

LEMMA CrashKeeps ==
    ASSUME IInv, Crash
    PROVE  IInv'
<1>1. TypeOK /\ \A r \in Requests : Handler(r)
    BY DEF IInv, Handlers
<1>2. /\ UNCHANGED <<inventoryVars, key, order, req, answer>>
      /\ \A r \in Requests : /\ pc'[r] = IF pc[r] = "idle" THEN "idle" ELSE "done"
                             /\ ~holds'[r] /\ write'[r] = "nothing" /\ ~owes'[r]
                             /\ rpc'[r] = "none"
      /\ \A k \in OrderIds : wire'[k] = Orphaned(wire[k], Requests)
    BY DEF Crash
<1>3. Records' /\ \A k \in OrderIds : Progress(k)
    BY <1>2, RecordsKept DEF inventoryVars, ledgerVars
<1>4. ASSUME NEW k \in OrderIds
      PROVE  /\ wire'[k] \in Seq(Call) /\ OneCaller(wire'[k])
             /\ \A j \in DOMAIN wire'[k] :
                   /\ j \in DOMAIN wire[k] /\ wire'[k][j].from = Nobody
                   /\ wire'[k][j].op = wire[k][j].op /\ wire'[k][j].items = wire[k][j].items
    <2>1. wire[k] \in Seq(Call) /\ OneCaller(wire[k])
        BY CallOnItsWay
    <2>2. \A j \in DOMAIN wire[k] : wire[k][j].from # Nobody => wire[k][j].from \in Requests
        BY CallOnItsWay
    <2> QED BY <1>2, <2>1, <2>2, OrphanedProperties
<1>5. Wires'
    BY <1>3, <1>4, WiresKept
<1>6. TypeOK'
    <2>1. wire' \in [OrderIds -> Seq(Call)]
        BY <1>4 DEF Crash
    <2>2. faults' \in 0..MaxFaults /\ Unanswered \in Answers
        BY <1>1, OrdersConstants DEF Crash, TypeOK, Answers
    <2>3. pc' \in [Requests -> Places]
        BY <1>1 DEF Crash, TypeOK, Places
    <2>4. /\ holds' \in [Requests -> BOOLEAN] /\ owes' \in [Requests -> BOOLEAN]
          /\ write' \in [Requests -> {"nothing", "COMPENSATING", "CONFIRMED", "FAILED"}]
          /\ outcome' \in [Requests -> Answers]
          /\ rpc' \in [Requests -> {"none", "sent"} \cup Replies]
        BY <2>2 DEF Crash
    <2> QED BY <1>1, <1>2, <2>1, <2>2, <2>3, <2>4 DEF TypeOK, LedgerTypeOK, inventoryVars,
                                                      ledgerVars, Call
<1>7. ASSUME NEW r \in Requests PROVE Handler(r)'
    BY <1>1, <1>2 DEF Handler, Asked, Holding, Writing, Waiting, Creating, Cancelling
<1> QED BY <1>2, <1>3, <1>5, <1>6, <1>7 DEF IInv, Handlers, OneHolder

-----------------------------------------------------------------------------
(* Inventory executes a call, or the network loses one nobody waits for *)

\* What the execution of a call does to the ledger of its order id.
LEMMA Executing ==
    ASSUME IInv, NEW k \in OrderIds, NEW call \in Call, NEW status \in Replies,
           Justified(k, call),
           \/ call.op = "reserve" /\ ReserveCall(k, call.items, status)
           \/ call.op = "release" /\ ReleaseCall(k, status)
    PROVE  /\ LedgerTypeOK'
           /\ \A o \in OrderIds \ {k} : ledger'[o] = ledger[o]
           /\ \/ ledger'[k] = ledger[k]
              \/ /\ call.op = "reserve" /\ ledger[k].status = "NONE"
                 /\ ledger'[k].status = "RESERVED" /\ ledger'[k].items = call.items
              \/ /\ call.op = "release" /\ ledger[k].status = "RESERVED"
                 /\ ledger'[k].status = "RELEASED" /\ ledger'[k].items = ledger[k].items
           /\ status = "OK" => /\ ledger'[k].status # "NONE"
                               /\ call.op = "release" => ledger'[k].status = "RELEASED"
<1>1. LedgerTypeOK
    BY DEF IInv, TypeOK
<1>2. call.op = "reserve" => call.items \in Payloads
    <2>1. call.op = "reserve" => key[k].body \in Bodies
        BY DEF Justified, IInv, Records, Record
    <2> QED BY <2>1, BodyAssumption DEF Justified
<1>3. CASE call.op = "reserve" /\ Reserve(k, call.items)
    <2>1. ledger' = [ledger EXCEPT ![k] = [status |-> "RESERVED", items |-> call.items]]
        BY <1>3 DEF Reserve
    <2>2. ledger[k].status = "NONE" /\ \A p \in DOMAIN call.items : p \in Parts
        BY <1>3 DEF Reserve, Missing
    <2>3. stock' \in [Parts -> Nat]
        <3>1. stock' = [p \in Parts |-> IF p \in DOMAIN call.items THEN stock[p] - call.items[p]
                                                                   ELSE stock[p]]
            BY <1>3 DEF Reserve
        <3>2. ASSUME NEW p \in Parts, p \in DOMAIN call.items
              PROVE  stock[p] - call.items[p] \in Nat
            <4>1. call.items[p] \in Nat /\ stock[p] \in Nat
                BY <1>1, <1>2, <1>3, <3>2, PayloadAssumption DEF LedgerTypeOK
            <4>2. ~(stock[p] < call.items[p])
                BY <1>3, <3>2 DEF Reserve, Short
            <4> QED BY <4>1, <4>2
        <3>3. \A p \in Parts : stock[p] \in Nat
            BY <1>1 DEF LedgerTypeOK
        <3> QED BY <3>1, <3>2, <3>3
    <2> QED BY <1>1, <1>2, <1>3, <2>1, <2>2, <2>3 DEF LedgerTypeOK
<1>4. CASE call.op = "release" /\ Release(k)
    <2>1. ledger' = [ledger EXCEPT ![k].status = "RELEASED"] /\ ledger[k].status = "RESERVED"
        BY <1>4 DEF Release
    <2>2. stock' \in [Parts -> Nat]
        <3>1. stock' = [p \in Parts |-> IF p \in DOMAIN ledger[k].items
                                           THEN stock[p] + ledger[k].items[p] ELSE stock[p]]
            BY <1>4 DEF Release
        <3>2. ASSUME NEW p \in Parts, p \in DOMAIN ledger[k].items
              PROVE  ledger[k].items[p] \in Nat
            <4>1. ledger[k].items \in Payloads
                BY <1>1, <3>2 DEF LedgerTypeOK, NoItems
            <4> QED BY <4>1, <3>2, PayloadAssumption
        <3>3. \A p \in Parts : stock[p] \in Nat
            BY <1>1 DEF LedgerTypeOK
        <3> QED BY <3>1, <3>2, <3>3
    <2> QED BY <1>1, <1>4, <2>1, <2>2 DEF LedgerTypeOK
<1>5. CASE /\ call.op = "reserve" /\ status = ReserveStatus(k, call.items)
           /\ ~(status = "OK" /\ ledger[k].status = "NONE") /\ UNCHANGED ledgerVars
    BY <1>1, <1>5 DEF LedgerTypeOK, inventoryVars, ledgerVars
<1>6. CASE /\ call.op = "release" /\ status = ReleaseStatus(k)
           /\ ledger[k].status # "RESERVED" /\ UNCHANGED ledgerVars
    <2>1. status = "OK" => ledger[k].status = "RELEASED"
        BY <1>1, <1>6 DEF ReleaseStatus, LedgerTypeOK
    <2> QED BY <1>1, <1>6, <2>1 DEF LedgerTypeOK, inventoryVars, ledgerVars
<1> QED BY <1>3, <1>4, <1>5, <1>6 DEF ReserveCall, ReleaseCall

LEMMA ExecuteKeeps ==
    ASSUME IInv, NEW k \in OrderIds, NEW i \in DOMAIN wire[k], Execute(k, i) \/ Lose(k, i)
    PROVE  IInv'
<1> DEFINE call == wire[k][i]
<1>1. TypeOK /\ \A r \in Requests : Handler(r)
    BY DEF IInv, Handlers
<1>2. /\ call \in Call /\ Justified(k, call) /\ Awaited(k, call)
      /\ call.from # Nobody => call.from \in Requests
    BY CallOnItsWay
<1>3. PICK status \in Replies :
        /\ wire' = [wire EXCEPT ![k] = RemoveAt(@, i)]
        /\ UNCHANGED <<salesVars, faults>>
        /\ rpc' = IF call.from = Nobody THEN rpc ELSE [rpc EXCEPT ![call.from] = status]
        /\ overtaken' \in {overtaken, overtaken \cup {k}}
        /\ \/ UNCHANGED ledgerVars /\ call.from = Nobody
           \/ call.op = "reserve" /\ ReserveCall(k, call.items, status)
           \/ call.op = "release" /\ ReleaseCall(k, status)
    <2>1. CASE Execute(k, i)
        BY <2>1 DEF Execute
    <2>2. CASE Lose(k, i)
        BY <2>2 DEF Lose, Replies, inventoryVars
    <2> QED BY <2>1, <2>2
<1>4. UNCHANGED <<key, order, pc, req, holds, write, outcome, owes, answer>>
    BY <1>3 DEF salesVars
<1>5. /\ LedgerTypeOK'
      /\ \A o \in OrderIds \ {k} : ledger'[o] = ledger[o]
      /\ \/ ledger'[k] = ledger[k]
         \/ /\ call.op = "reserve" /\ ledger[k].status = "NONE"
            /\ ledger'[k].status = "RESERVED" /\ ledger'[k].items = call.items
         \/ /\ call.op = "release" /\ ledger[k].status = "RESERVED"
            /\ ledger'[k].status = "RELEASED" /\ ledger'[k].items = ledger[k].items
      /\ status = "OK" /\ call.from # Nobody =>
            /\ ledger'[k].status # "NONE"
            /\ call.op = "release" => ledger'[k].status = "RELEASED"
    <2>1. CASE UNCHANGED ledgerVars /\ call.from = Nobody
        BY <1>1, <2>1 DEF TypeOK, LedgerTypeOK, ledgerVars
    <2>2. CASE \/ call.op = "reserve" /\ ReserveCall(k, call.items, status)
               \/ call.op = "release" /\ ReleaseCall(k, status)
        BY <1>2, <2>2, Executing
    <2> QED BY <1>3, <2>1, <2>2
<1> HIDE DEF call
<1>6. \A o \in OrderIds : CancelAsked(o)' <=> CancelAsked(o)
    BY <1>4 DEF CancelAsked
<1>7. ASSUME NEW o \in OrderIds PROVE Record(o)' /\ Progress(o)
    <2>1. Record(o)
        BY DEF IInv, Records
    <2>2. CASE o # k
        BY <1>4, <1>5, <1>6, <2>1, <2>2 DEF Record, MayRelease, Progress, KeyProgress
    <2>3. CASE o = k
        BY <1>2, <1>4, <1>5, <1>6, <2>1, <2>3
           DEF Record, MayRelease, Progress, KeyProgress, Justified
    <2> QED BY <2>2, <2>3
<1>8. ASSUME NEW q \in Requests, q # call.from PROVE Same(q)
    BY <1>1, <1>2, <1>3, <1>4, <1>8 DEF Same, TypeOK
<1>9. ASSUME NEW q \in Requests PROVE Handler(q)'
    <2>1. CASE q # call.from
        BY <1>4, <1>7, <1>8, <2>1, HandlerKept
    <2>2. CASE q = call.from
        <3>1. /\ rpc[q] = "sent" /\ req[q].id = k
              /\ call.op = IF pc[q] = "reserve" THEN "reserve" ELSE "release"
              /\ call.from # Nobody
            BY <1>2, <2>2, NobodyAssumption DEF Awaited
        <3>2. rpc'[q] = status
            BY <1>1, <1>3, <2>2, <3>1 DEF TypeOK
        <3>3. Asked(q)' /\ Holding(q)'
            BY <1>1, <1>4 DEF Handler, Asked, Holding, Entry
        <3>4. Writing(q)'
            BY <1>1, <1>4, <1>5, <3>1 DEF Handler, Writing, Entry
        <3>5. Waiting(q)'
            BY <1>1, <1>4, <1>5, <3>1, <3>2 DEF Handler, Waiting, Entry
        <3> QED BY <3>3, <3>4, <3>5 DEF Handler
    <2> QED BY <2>1, <2>2
<1>10. /\ wire[k] \in Seq(Call)
       /\ RemoveAt(wire[k], i) \in Seq(Call) /\ OneCaller(RemoveAt(wire[k], i))
       /\ \A j \in DOMAIN RemoveAt(wire[k], i) :
             /\ \E n \in DOMAIN wire[k] : RemoveAt(wire[k], i)[j] = wire[k][n]
             /\ RemoveAt(wire[k], i)[j].from # Nobody =>
                    RemoveAt(wire[k], i)[j].from # call.from
    BY CallOnItsWay, Dropped DEF call
<1>11. ASSUME NEW o \in OrderIds
       PROVE  wire'[o] = IF o = k THEN RemoveAt(wire[k], i) ELSE wire[o]
    BY <1>1, <1>3 DEF TypeOK
<1>12. wire' \in [OrderIds -> Seq(Call)]
    BY <1>1, <1>3, <1>10 DEF TypeOK, Call
<1>13. \A o \in OrderIds : OneCaller(wire'[o])
    BY <1>10, <1>11, CallOnItsWay
<1>14. ASSUME NEW o \in OrderIds, NEW j \in DOMAIN wire'[o]
       PROVE  \E n \in DOMAIN wire[o] :
                  /\ wire'[o][j] = wire[o][n]
                  /\ wire'[o][j].from = Nobody \/ Waits(wire[o][n].from)
    <2>1. PICK n \in DOMAIN wire[o] : /\ wire'[o][j] = wire[o][n]
                                      /\ o = k /\ wire[o][n].from # Nobody
                                             => wire[o][n].from # call.from
        BY <1>10, <1>11
    <2>2. /\ Awaited(o, wire[o][n])
          /\ wire[o][n].from # Nobody => wire[o][n].from \in Requests
        BY CallOnItsWay
    <2>3. wire[o][n].from # Nobody => wire[o][n].from # call.from
        BY <1>2, <2>1, <2>2 DEF Awaited
    <2>4. wire[o][n].from # Nobody => Same(wire[o][n].from)
        BY <1>8, <2>2, <2>3
    <2> QED BY <2>1, <2>4 DEF Same, Waits
<1>15. Wires'
    BY <1>7, <1>13, <1>14, WiresKept
<1>16. TypeOK'
    <2>1. rpc' \in [Requests -> {"none", "sent"} \cup Replies]
        BY <1>1, <1>3 DEF TypeOK
    <2> QED BY <1>1, <1>3, <1>4, <1>5, <1>12, <2>1 DEF TypeOK, Call
<1> QED BY <1>4, <1>7, <1>9, <1>15, <1>16 DEF IInv, OneHolder, Handlers, Records

-----------------------------------------------------------------------------
(* The invariant, and what follows from it *)

LEMMA InitEstablishes == Init => IInv
<1> SUFFICES ASSUME Init PROVE IInv
    OBVIOUS
<1>1. /\ LedgerTypeOK
      /\ \A k \in OrderIds : ledger[k].status = "NONE" /\ order[k] = "NONE"
                             /\ key[k].state = "ABSENT" /\ wire[k] = <<>>
    BY StockAssumption DEF Init, LedgerInit, LedgerTypeOK, NoOperation, Absent
<1>2. \A r \in Requests : /\ pc[r] = "idle" /\ req[r] = NoRequest /\ ~holds[r] /\ ~owes[r]
                          /\ write[r] = "nothing" /\ rpc[r] = "none"
    BY DEF Init
<1>3. TypeOK
    <2>1. Unanswered \in Answers /\ Absent \in [state : KeyStates, body : Bodies \cup {NoBody},
                                                response : Answers]
        BY DEF Answers, Absent, KeyStates
    <2>2. wire \in [OrderIds -> Seq(Call)]
        BY EmptySeq DEF Init
    <2>3. faults \in 0..MaxFaults
        BY OrdersConstants DEF Init
    <2> QED BY <1>1, <2>1, <2>2, <2>3 DEF Init, TypeOK, Places, Call
<1>4. Handlers
    BY <1>2 DEF Handlers, Handler, Asked, Holding, Writing, Waiting, Creating, Cancelling
<1>5. Wires
    BY <1>1, EmptySeq DEF Wires, OneCaller
<1>6. Records
    BY <1>1 DEF Records, Record
<1> QED BY <1>2, <1>3, <1>4, <1>5, <1>6 DEF IInv, OneHolder

LEMMA StutterKeeps == IInv /\ UNCHANGED vars => IInv'
<1> SUFFICES ASSUME IInv, UNCHANGED vars PROVE IInv'
    OBVIOUS
<1>1. TypeOK' /\ OneHolder'
    BY DEF IInv, vars, TypeOK, LedgerTypeOK, OneHolder
<1>2. Records' /\ \A k \in OrderIds : Progress(k)
    BY RecordsKept DEF vars
<1>3. \A q \in Requests : Same(q) /\ Waits(q)
    BY DEF vars, Same, Waits
<1>4. Handlers'
    BY <1>2, <1>3, HandlerKept DEF Handlers, vars
<1>5. Wires'
    BY <1>2, <1>3, SilentStep DEF vars
<1> QED BY <1>1, <1>2, <1>4, <1>5 DEF IInv

LEMMA NextKeeps == IInv /\ [Next]_vars => IInv'
<1> SUFFICES ASSUME IInv, Next PROVE IInv'
    BY StutterKeeps
<1>1. ASSUME NEW r \in Requests, Handle(r) PROVE IInv'
    BY <1>1, ClaimKeeps, CommitKeeps, TransactionFailsKeeps, EnterKeeps, SendKeeps, ReservedKeeps,
       CancelReadKeeps, CancelPersistKeeps, CallFailsKeeps DEF Handle
<1>2. ASSUME NEW r \in Requests,
             \/ Retry(r) \/ Expire(r) \/ TransactionFails(r) \/ CommitAckLost(r)
             \/ CancelPersistFails(r)
      PROVE  IInv'
    BY <1>2, RetryKeeps, TransactionFailsKeeps, CommitKeeps, CancelPersistKeeps
<1>3. ASSUME NEW r \in Requests, NEW request \in Creates \cup Cancels, Arrive(r, request)
      PROVE  IInv'
    BY <1>3, ArriveKeeps
<1>4. ASSUME NEW k \in OrderIds, NEW i \in DOMAIN wire[k], Execute(k, i) \/ Lose(k, i)
      PROVE  IInv'
    BY <1>4, ExecuteKeeps
<1> QED BY <1>1, <1>2, <1>3, <1>4, CrashKeeps DEF Next

\* The inductive invariant holds: what the theorems below are read from.
THEOREM Invariance == Spec => []IInv
BY InitEstablishes, NextKeeps, PTL DEF Spec

\* Every state of the Sales orders service is well typed.
THEOREM TypeCorrect == Spec => []TypeOK
<1>1. IInv => TypeOK
    BY DEF IInv
<1> QED BY <1>1, Invariance, PTL

\* An order row exists exactly while its key is CONFIRMED.
THEOREM OrdersFollowKeys == Spec => []OrderFollowsKey
<1>1. IInv => OrderFollowsKey
    BY DEF IInv, Records, Record, OrderFollowsKey
<1> QED BY <1>1, Invariance, PTL

\* No order is marked cancelled before Inventory released its stock.
THEOREM CancelledOrdersAreReleased == Spec => []CancelledIsReleased
<1>1. IInv => CancelledIsReleased
    BY DEF IInv, Records, Record, CancelledIsReleased
<1> QED BY <1>1, Invariance, PTL

\* A confirmed order has its reservation, which only a cancel of it can have released.
THEOREM ConfirmedOrdersAreReserved == Spec => []ConfirmedIsReserved
<1>1. IInv => ConfirmedIsReserved
    <2> SUFFICES ASSUME IInv, NEW k \in OrderIds, order[k] # "NONE"
                 PROVE  /\ ledger[k].items = key[k].body.items
                        /\ \/ ledger[k].status = "RESERVED"
                           \/ ledger[k].status = "RELEASED" /\ CancelAsked(k)
        BY DEF ConfirmedIsReserved
    <2>1. Record(k) /\ ledger[k].status \in {"NONE", "RESERVED", "RELEASED"}
        BY DEF IInv, Records, TypeOK, LedgerTypeOK
    <2> QED BY <2>1 DEF Record, MayRelease
<1> QED BY <1>1, Invariance, PTL

\* What any step does to a key, and to an order that is cancelled.
LEMMA KeyStep ==
    ASSUME IInv, [Next]_vars, NEW k \in OrderIds
    PROVE  KeyProgress(k) /\ (order[k] = "CANCELLED" => order'[k] = "CANCELLED")
<1>1. CASE UNCHANGED <<key, order>>
    BY <1>1 DEF KeyProgress
<1>2. ASSUME NEW r \in Requests, Claim(r)
      PROVE  KeyProgress(k) /\ order' = order
    BY <1>2, ClaimKeeps DEF Progress, Claim
<1>3. ASSUME NEW r \in Requests, Commit(r) \/ CommitAckLost(r) \/ CommitPrepared(r)
      PROVE  KeyProgress(k) /\ (order[k] = "CANCELLED" => order'[k] = "CANCELLED")
    <2>1. KeyProgress(k)
        BY <1>3, CommitKeeps DEF Progress
    <2>2. Publish(r) /\ holds[r] /\ pc[r] \in {"commit", "prepared"} /\ Handler(r) /\ Record(k)
        BY <1>3 DEF Commit, CommitAckLost, CommitPrepared, IInv, Handlers, Handler, Holding, Records
    <2>3. order[k] = "CANCELLED" /\ write[r] = "CONFIRMED" => req[r].id # k
        BY <2>2 DEF Handler, Writing, Entry, Record
    <2>4. req[r].id \in OrderIds /\ order \in [OrderIds -> {"NONE", "CONFIRMED", "CANCELLED"}]
        BY <2>2, BusyHandler DEF IInv, TypeOK
    <2> QED BY <2>1, <2>2, <2>3, <2>4 DEF Publish
<1>4. ASSUME NEW r \in Requests, CancelPersist(r) \/ CancelPersistFails(r)
      PROVE  key' = key /\ (order[k] = "CANCELLED" => order'[k] = "CANCELLED")
    <2>1. order \in [OrderIds -> {"NONE", "CONFIRMED", "CANCELLED"}]
        BY DEF IInv, TypeOK
    <2> QED BY <1>4, <2>1 DEF CancelPersist, CancelPersistFails
<1>5. \/ UNCHANGED <<key, order>>
      \/ \E r \in Requests :
            \/ Claim(r) \/ Commit(r) \/ CommitAckLost(r) \/ CommitPrepared(r)
            \/ CancelPersist(r) \/ CancelPersistFails(r)
    BY DEF Next, Handle, vars, salesVars, FindsExpired, EnterConflict, EnterSettled,
           EnterCompensating, EnterUnknownCustomer, EnterReserve, Enter, Reserved, Released,
           RecoverSettled, Prepare, Compensate, Reenter, CancelRead, CancelReleased, ReserveFails,
           ReleaseFails, CancelReleaseFails, Arrive, Retry, TransactionFails, Expire, Execute,
           Lose, Crash
<1> QED BY <1>1, <1>2, <1>3, <1>4, <1>5 DEF KeyProgress

\* A key's states go one way, and its stored body never changes.
THEOREM KeysMoveForward == Spec => KeyMovesForward
<1>1. IInv /\ [Next]_vars =>
        [\A k \in OrderIds :
            /\ key[k].state # "ABSENT" => key'[k].body = key[k].body
            /\ key'[k] # key[k] =>
                 <<key[k].state, key'[k].state>> \in
                    {<<"ABSENT", "IN_PROGRESS">>, <<"IN_PROGRESS", "CONFIRMED">>,
                     <<"IN_PROGRESS", "COMPENSATING">>, <<"IN_PROGRESS", "FAILED">>,
                     <<"COMPENSATING", "FAILED">>}]_vars
    BY KeyStep DEF KeyProgress
<1> QED BY <1>1, Invariance, PTL DEF Spec, KeyMovesForward

-----------------------------------------------------------------------------
(* Where answers come from *)

\* A definite answer to a create is the one its key has stored, or the conflict of its body.
Told(r, a) ==
    /\ Entry(r).state # "ABSENT"
    /\ IF SameBody(r) THEN Settled(Entry(r)) /\ a = StoredAnswer(Entry(r)) ELSE a = KEY_CONFLICT

Returning(r) ==
    /\ outcome[r] # Cancelled
    /\ pc[r] \in {"release", "prepared"} => outcome[r] # Created
    /\ pc[r] = "commit" /\ write[r] = "nothing" /\ Definite(outcome[r]) => Told(r, outcome[r])
    /\ write[r] # "nothing" => SameBody(r) /\ (outcome[r] = Created <=> write[r] = "CONFIRMED")
    /\ owes[r] \/ pc[r] \in {"reserve", "release", "relock", "prepared", "relock2"} => SameBody(r)
Telling(r) ==
    /\ pc[r] # "done" => answer[r] = Unanswered
    /\ req[r].op = "create" /\ Definite(answer[r]) => Told(r, answer[r])
    /\ req[r].op = "create" => answer[r] # Cancelled
    /\ req[r].op # "create" => answer[r] # Created
    /\ answer[r] = Cancelled => order[req[r].id] = "CANCELLED"
Speaking(r) == Returning(r) /\ Telling(r)

\* What is stored for a key that is not CONFIRMED is a failure.
Stored(k) ==
    /\ key[k].response # Cancelled
    /\ key[k].state # "CONFIRMED" => key[k].response # Created

AInv == (\A r \in Requests : Speaking(r)) /\ \A k \in OrderIds : Stored(k)

-----------------------------------------------------------------------------
(* What a step keeps *)

\* A request that has arrived is for one of the order ids.
LEMMA ArrivedRequest ==
    ASSUME IInv, NEW r \in Requests
    PROVE  IF pc[r] = "idle" THEN req[r] = NoRequest
           ELSE req[r].id \in OrderIds /\ req[r].op \in {"create", "cancel"}
<1>1. Asked(r)
    BY DEF IInv, Handlers, Handler
<1> QED BY <1>1 DEF Asked, Creates, Cancels

\* The entry of an answered request: claimed once, its body stays; settled, all of it.
LEMMA EntryStep ==
    ASSUME IInv, [Next]_vars, NEW r \in Requests, req[r].id \in OrderIds, req'[r] = req[r]
    PROVE  /\ Entry(r).state # "ABSENT" =>
                  Entry(r)'.state # "ABSENT" /\ Entry(r)'.body = Entry(r).body
           /\ Settled(Entry(r)) => Entry(r)' = Entry(r)
BY KeyStep DEF KeyProgress, Entry, Settled

Quiet(q) ==
    /\ pc'[q] = pc[q] /\ req'[q] = req[q] /\ write'[q] = write[q] /\ owes'[q] = owes[q]
    /\ outcome'[q] = outcome[q] /\ answer'[q] = answer[q]

LEMMA ToldKept ==
    ASSUME IInv, [Next]_vars, NEW r \in Requests, req[r].id \in OrderIds, req'[r] = req[r]
    PROVE  \A a \in Answers : Told(r, a) => Told(r, a)'
BY EntryStep DEF Told, SameBody, Settled, StoredAnswer

\* The answer of a handler that takes no part in the step.
LEMMA SpeakingKept ==
    ASSUME IInv, [Next]_vars, NEW q \in Requests, Quiet(q), Speaking(q)
    PROVE  Speaking(q)'
<1>1. Handler(q) /\ outcome[q] \in Answers /\ answer[q] \in Answers
    BY DEF IInv, Handlers, TypeOK
<1>2. CASE pc[q] = "idle"
    <2>1. /\ req[q].op = "none" /\ answer[q] = Unanswered
          /\ write[q] = "nothing" /\ ~owes[q]
        BY <1>1, <1>2, ArrivedRequest DEF NoRequest, Speaking, Telling, Handler, Writing
    <2> QED BY <1>2, <2>1 DEF Speaking, Returning, Telling, Quiet, Unanswered, Cancelled, Created,
                              Answer
<1>3. CASE pc[q] # "idle"
    <2>1. req[q].id \in OrderIds /\ req'[q] = req[q]
        BY <1>3, ArrivedRequest DEF Quiet
    <2>2. \A a \in Answers : Told(q, a) => Told(q, a)'
        BY <2>1, ToldKept
    <2>3. Entry(q).state # "ABSENT" /\ SameBody(q) => SameBody(q)'
        BY <2>1, EntryStep DEF SameBody
    <2>4. owes[q] \/ write[q] # "nothing" \/
          pc[q] \in {"reserve", "release", "relock", "prepared", "relock2"}
             => Entry(q).state # "ABSENT"
        BY <1>1 DEF Handler, Asked, Writing, Creating
    <2>5. Returning(q)'
        BY <1>1, <2>2, <2>3, <2>4 DEF Speaking, Returning, Quiet
    <2>6. order[req[q].id] = "CANCELLED" => order'[req[q].id] = "CANCELLED"
        BY <2>1, KeyStep
    <2>7. Telling(q)'
        BY <1>1, <2>1, <2>2, <2>6 DEF Speaking, Telling, Quiet
    <2> QED BY <2>5, <2>7 DEF Speaking
<1> QED BY <1>2, <1>3

\* A step of handler r that writes no key.
LEMMA KeylessStep ==
    ASSUME IInv, AInv, [Next]_vars, NEW r \in Requests, key' = key,
           \A q \in Requests \ {r} : Quiet(q), Speaking(r)'
    PROVE  AInv'
<1>1. \A k \in OrderIds : Stored(k)'
    BY DEF AInv, Stored
<1>2. ASSUME NEW q \in Requests PROVE Speaking(q)'
    BY SpeakingKept DEF AInv
<1> QED BY <1>1, <1>2 DEF AInv

-----------------------------------------------------------------------------
(* The steps of a create *)

LEMMA RejectedSpeaks ==
    ASSUME IInv, AInv, [Next]_vars, NEW r \in Requests, Rejected(r), req' = req, key' = key,
           pc[r] \notin {"idle", "done"}
    PROVE  AInv'
<1>1. Speaking(r) /\ TypeOK
    BY DEF AInv, IInv
<1>2. \A q \in Requests \ {r} : Quiet(q)
    BY <1>1 DEF TypeOK, Quiet, Rejected, Close, Return, GoTo, Finish
<1>3. ~Definite(INTERNAL) /\ ~Definite(Unanswered) /\ INTERNAL # Cancelled /\ INTERNAL # Created
      /\ Unanswered # Cancelled /\ Unanswered # Created
    BY DEF Definite, INTERNAL, Unanswered, Cancelled, Created, Answer
<1>4. Returning(r)'
    BY <1>1, <1>3 DEF TypeOK, Speaking, Returning, SameBody, Entry, Rejected, Close, Return, GoTo,
                      Finish
<1>5. Telling(r)'
    BY <1>1, <1>3 DEF TypeOK, Speaking, Telling, Rejected, Close, Return, GoTo, Finish
<1> QED BY <1>2, <1>4, <1>5, KeylessStep DEF Speaking

\* The row is entered and the callback returns, or sends a call.
LEMMA EnterSpeaks ==
    ASSUME IInv, AInv, [Next]_vars, NEW r \in Requests,
           \/ EnterConflict(r) \/ EnterSettled(r) \/ EnterUnknownCustomer(r)
           \/ EnterReserve(r) \/ EnterCompensating(r)
           \/ RecoverSettled(r) \/ Prepare(r) \/ Compensate(r)
    PROVE  AInv'
<1>1. Speaking(r) /\ TypeOK /\ Handler(r)
    BY DEF AInv, IInv, Handlers
<1>2. pc[r] \in {"lock", "relock", "relock2"} /\ UNCHANGED <<key, order, req, owes, answer>>
    BY DEF EnterConflict, EnterSettled, EnterUnknownCustomer, EnterReserve, EnterCompensating,
           RecoverSettled, Prepare, Compensate, Enter, Reenter
<1>3. \A q \in Requests \ {r} : Quiet(q)
    BY <1>1, <1>2 DEF TypeOK, Quiet, EnterConflict, EnterSettled, EnterUnknownCustomer,
                      EnterReserve, EnterCompensating, RecoverSettled, Prepare, Compensate, Enter,
                      Reenter, Return, GoTo
<1>4. req[r].id \in OrderIds /\ req[r].op = "create" /\ Entry(r).state # "ABSENT"
    BY <1>1, <1>2, BusyHandler DEF Handler, Asked, Creating
<1>5. /\ ~Definite(INTERNAL) /\ INTERNAL # Created /\ INTERNAL # Cancelled
      /\ KEY_CONFLICT # Created /\ KEY_CONFLICT # Cancelled
      /\ CUSTOMER_NOT_FOUND # Created /\ CUSTOMER_NOT_FOUND # Cancelled /\ Created # Cancelled
      /\ ~Definite(Unanswered) /\ Unanswered # Created /\ Unanswered # Cancelled
    BY DEF Definite, INTERNAL, KEY_CONFLICT, CUSTOMER_NOT_FOUND, Created, Cancelled, Unanswered,
           Answer
<1>6. /\ Entry(r).response # Cancelled
      /\ Entry(r).state # "CONFIRMED" => Entry(r).response # Created
      /\ StoredAnswer(Entry(r)) # Cancelled
    BY <1>4, <1>5 DEF AInv, Stored, Entry, StoredAnswer
<1>7. /\ write[r] = "nothing" /\ ~owes[r]
      /\ answer[r] = Unanswered
      /\ pc[r] # "lock" => SameBody(r)
    BY <1>1, <1>2 DEF Handler, Writing, Speaking, Returning, Telling
<1>8. /\ Entry(r)' = Entry(r) /\ SameBody(r)' = SameBody(r)
    BY <1>2 DEF Entry, SameBody
<1>9. Telling(r)'
    BY <1>1, <1>2, <1>5, <1>7
       DEF TypeOK, Telling, EnterConflict, EnterSettled, EnterUnknownCustomer, EnterReserve,
           EnterCompensating, RecoverSettled, Prepare, Compensate, GoTo
<1>10. Returning(r)'
    <2>1. CASE EnterConflict(r)
        BY <1>1, <1>2, <1>4, <1>5, <1>7, <1>8, <2>1
           DEF TypeOK, EnterConflict, Return, GoTo, Returning, Told
    <2>2. CASE EnterSettled(r)
        BY <1>1, <1>2, <1>4, <1>6, <1>7, <1>8, <2>2
           DEF TypeOK, EnterSettled, Return, GoTo, Returning, Told
    <2>3. CASE EnterUnknownCustomer(r)
        BY <1>1, <1>2, <1>5, <1>7, <1>8, <2>3
           DEF TypeOK, EnterUnknownCustomer, Return, GoTo, Returning
    <2>4. CASE EnterReserve(r)
        BY <1>1, <1>2, <1>7, <1>8, <2>4 DEF TypeOK, EnterReserve, GoTo, Speaking, Returning
    <2>5. CASE EnterCompensating(r)
        BY <1>1, <1>2, <1>6, <1>7, <1>8, <2>5
           DEF TypeOK, EnterCompensating, Return, GoTo, Returning
    <2>6. CASE RecoverSettled(r)
        BY <1>1, <1>2, <1>4, <1>6, <1>7, <1>8, <2>6
           DEF TypeOK, RecoverSettled, Reenter, Return, GoTo, Returning, Told
    <2>7. CASE Prepare(r)
        BY <1>1, <1>2, <1>5, <1>6, <1>7, <1>8, <2>7
           DEF TypeOK, Prepare, Reenter, Return, GoTo, Returning
    <2>8. CASE Compensate(r)
        BY <1>1, <1>2, <1>6, <1>7, <1>8, <2>8
           DEF TypeOK, Compensate, Reenter, Return, GoTo, Returning
    <2> QED BY <2>1, <2>2, <2>3, <2>4, <2>5, <2>6, <2>7, <2>8
<1> QED BY <1>2, <1>3, <1>9, <1>10, KeylessStep DEF Speaking

\* An Inventory call has ended.
LEMMA CallEndSpeaks ==
    ASSUME IInv, AInv, [Next]_vars, NEW r \in Requests,
           \/ Reserved(r) \/ Released(r)
           \/ \E status \in Replies \cup TransportFailures :
                 ReserveFails(r, status) \/ CancelReleaseFails(r, status)
    PROVE  AInv'
<1>1. Speaking(r) /\ TypeOK /\ Handler(r)
    BY DEF AInv, IInv, Handlers
<1>2. pc[r] \in {"reserve", "release", "cancelRelease"} /\ UNCHANGED <<key, order, req>>
    BY DEF Reserved, Released, ReserveFails, CancelReleaseFails
<1>3. \A q \in Requests \ {r} : Quiet(q)
    BY <1>1, <1>2 DEF TypeOK, Quiet, Reserved, Released, ReserveFails, CancelReleaseFails, Return,
                      GoTo, Finish
<1>4. ASSUME NEW op \in {"reserve", "release"}, NEW status \in Replies \cup TransportFailures
      PROVE  /\ toInventoryApiError(op, status) \notin {Created, Cancelled}
             /\ ambiguousFailure(toInventoryApiError(op, status))
                    => ~Definite(toInventoryApiError(op, status))
    <2>1. toInventoryApiError(op, status) \in
              {VALIDATION, PART_NOT_FOUND, INSUFFICIENT_STOCK, INVENTORY_UNAVAILABLE,
               INVENTORY_TIMEOUT, INTERNAL}
        BY DEF toInventoryApiError, SHARED
    <2> QED BY <2>1 DEF VALIDATION, PART_NOT_FOUND, INSUFFICIENT_STOCK, INVENTORY_UNAVAILABLE,
                        INVENTORY_TIMEOUT, INTERNAL, Created, Cancelled, Answer, Definite,
                        ambiguousFailure
<1>5. Created # Cancelled /\ SameBody(r)' = SameBody(r) /\ answer[r] = Unanswered
    BY <1>1, <1>2 DEF Created, Cancelled, Answer, SameBody, Entry, Speaking, Telling
<1>6. ~Definite(Unanswered) /\ Unanswered # Created /\ Unanswered # Cancelled
    BY DEF Definite, Unanswered, Created, Cancelled, Answer
<1>7. CASE Reserved(r)
    <2>1. Returning(r)'
        BY <1>1, <1>2, <1>5, <1>7 DEF TypeOK, Reserved, Return, GoTo, Speaking, Returning
    <2>2. Telling(r)'
        BY <1>1, <1>2, <1>5, <1>6, <1>7 DEF TypeOK, Reserved, GoTo, Telling
    <2> QED BY <1>2, <1>3, <2>1, <2>2, KeylessStep DEF Speaking
<1>8. CASE Released(r)
    <2>1. Returning(r)'
        BY <1>1, <1>2, <1>5, <1>8 DEF TypeOK, Released, Return, GoTo, Speaking, Returning
    <2>2. Telling(r)'
        BY <1>1, <1>2, <1>5, <1>6, <1>8 DEF TypeOK, Released, GoTo, Telling
    <2> QED BY <1>2, <1>3, <2>1, <2>2, KeylessStep DEF Speaking
<1>9. ASSUME NEW status \in Replies \cup TransportFailures, ReserveFails(r, status)
      PROVE  AInv'
    <2> DEFINE apiError == toInventoryApiError("reserve", status)
    <2>1. /\ apiError \notin {Created, Cancelled}
          /\ ambiguousFailure(apiError) => ~Definite(apiError)
        BY <1>4
    <2>2. /\ Return(r, IF ambiguousFailure(apiError) THEN "nothing" ELSE "FAILED", apiError)
          /\ pc[r] = "reserve" /\ GoTo(r, "commit") /\ UNCHANGED <<owes, answer>>
        BY <1>9 DEF ReserveFails
    <2> HIDE DEF apiError
    <2>3. Returning(r)'
        BY <1>1, <1>2, <1>5, <2>1, <2>2 DEF TypeOK, Return, GoTo, Speaking, Returning
    <2>4. Telling(r)'
        BY <1>1, <1>2, <1>5, <1>6, <2>2 DEF TypeOK, GoTo, Telling
    <2> QED BY <1>2, <1>3, <2>3, <2>4, KeylessStep DEF Speaking
<1>10. ASSUME NEW status \in Replies \cup TransportFailures, CancelReleaseFails(r, status)
       PROVE  AInv'
    <2>1. /\ toInventoryApiError("release", status) \notin {Created, Cancelled}
          /\ Finish(r, toInventoryApiError("release", status))
          /\ UNCHANGED <<write, outcome, owes>> /\ pc[r] = "cancelRelease"
        BY <1>4, <1>10 DEF CancelReleaseFails
    <2>2. req[r].op = "cancel" /\ write[r] = "nothing" /\ ~owes[r]
        BY <1>1, <2>1, BusyHandler DEF Handler, Writing, Cancelling
    <2>3. Returning(r)'
        BY <1>1, <1>2, <2>1, <2>2 DEF TypeOK, Finish, GoTo, Speaking, Returning
    <2>4. Telling(r)'
        BY <1>1, <1>2, <2>1, <2>2 DEF TypeOK, Finish, GoTo, Telling
    <2> QED BY <1>2, <1>3, <2>3, <2>4, KeylessStep DEF Speaking
<1> QED BY <1>7, <1>8, <1>9, <1>10

LEMMA ClaimSpeaks ==
    ASSUME IInv, AInv, [Next]_vars, NEW r \in Requests, Claim(r)
    PROVE  AInv'
<1>1. Speaking(r) /\ TypeOK /\ Handler(r)
    BY DEF AInv, IInv, Handlers
<1>2. /\ pc[r] = "claim" /\ pc' = [pc EXCEPT ![r] = "lock"]
      /\ UNCHANGED <<order, req, write, owes, outcome, answer>>
    BY DEF Claim, GoTo
<1>3. write[r] = "nothing" /\ ~owes[r] /\ answer[r] = Unanswered
    BY <1>1, <1>2 DEF Handler, Writing, Speaking, Telling
<1>4. Speaking(r)'
    BY <1>1, <1>2, <1>3
       DEF TypeOK, Speaking, Returning, Telling, Unanswered, Definite, Cancelled, Created, Answer
<1>5. \A q \in Requests \ {r} : Quiet(q)
    BY <1>1, <1>2 DEF TypeOK, Quiet
<1>6. ASSUME NEW q \in Requests PROVE Speaking(q)'
    BY <1>4, <1>5, SpeakingKept DEF AInv
<1>7. ASSUME NEW k \in OrderIds PROVE Stored(k)'
    <2>1. key'[k] = key[k] \/ key'[k].response = Unanswered
        BY <1>1, <1>2, BusyHandler DEF Claim, TypeOK, Creating
    <2> QED BY <2>1 DEF AInv, Stored, Unanswered, Cancelled, Created, Answer
<1> QED BY <1>6, <1>7 DEF AInv

\* What is published is what the client is told.
LEMMA CommitSpeaks ==
    ASSUME IInv, AInv, [Next]_vars, NEW r \in Requests,
           Commit(r) \/ CommitAckLost(r) \/ CommitPrepared(r)
    PROVE  AInv'
<1>1. Speaking(r) /\ TypeOK /\ Handler(r)
    BY DEF AInv, IInv, Handlers
<1>2. /\ pc[r] \in {"commit", "prepared"} /\ Publish(r) /\ Close(r) /\ UNCHANGED req
      /\ Commit(r) => pc[r] = "commit"
    BY DEF Commit, CommitAckLost, CommitPrepared, Rejected
<1>3. req[r].id \in OrderIds /\ req[r].op = "create" /\ Entry(r).state # "ABSENT"
    BY <1>1, <1>2, BusyHandler DEF Handler, Asked, Creating
<1>4. \A q \in Requests \ {r} : Quiet(q)
    BY <1>1, <1>2 DEF TypeOK, Quiet, Commit, CommitAckLost, CommitPrepared, Rejected, Close,
                      Return, GoTo, Finish
<1>5. /\ write[r] = "nothing" => Entry(r)' = Entry(r)
      /\ write[r] # "nothing" => Entry(r)'.state = write[r] /\ Entry(r)'.response = outcome[r]
      /\ Entry(r)'.body = Entry(r).body
    BY <1>1, <1>2, <1>3 DEF TypeOK, Publish, Entry
<1>6. ASSUME NEW k \in OrderIds PROVE Stored(k)'
    <2>1. CASE k = req[r].id
        <3>1. Stored(k) /\ outcome[r] # Cancelled
            BY <1>1 DEF AInv, Speaking, Returning
        <3>2. write[r] # "nothing" /\ write[r] # "CONFIRMED" => outcome[r] # Created
            BY <1>1 DEF Speaking, Returning
        <3>3. Entry(r) = key[k] /\ Entry(r)' = key'[k]
            BY <1>2, <2>1 DEF Entry
        <3> QED BY <1>5, <3>1, <3>2, <3>3 DEF Stored
    <2>2. CASE k # req[r].id
        <3>1. key'[k] = key[k]
            BY <1>1, <1>2, <1>3, <2>2 DEF TypeOK, Publish
        <3> QED BY <3>1 DEF AInv, Stored
    <2> QED BY <2>1, <2>2
<1>7. /\ ~Definite(INTERNAL) /\ INTERNAL # Created /\ INTERNAL # Cancelled
      /\ ~Definite(Unanswered) /\ Unanswered # Created /\ Unanswered # Cancelled
    BY DEF Definite, INTERNAL, Created, Cancelled, Unanswered, Answer
<1>8. SameBody(r)' = SameBody(r)
    BY <1>2, <1>5 DEF SameBody
<1>9. pc[r] = "commit" /\ Definite(outcome[r]) => Told(r, outcome[r]) \/ write[r] # "nothing"
    BY <1>1 DEF Speaking, Returning
<1>10. Definite(outcome[r]) /\ pc[r] = "commit" =>
          /\ Entry(r)'.state # "ABSENT"
          /\ IF SameBody(r)' THEN Settled(Entry(r))' /\ outcome[r] = StoredAnswer(Entry(r))'
                             ELSE outcome[r] = KEY_CONFLICT
    <2>1. CASE write[r] = "nothing"
        BY <1>5, <1>8, <1>9, <2>1 DEF Told, Settled, StoredAnswer
    <2>2. CASE write[r] # "nothing"
        <3>1. /\ SameBody(r) /\ (outcome[r] = Created <=> write[r] = "CONFIRMED")
              /\ pc[r] = "commit" => write[r] \in {"CONFIRMED", "FAILED"}
            BY <1>1, <2>2 DEF TypeOK, Speaking, Returning, Handler, Writing
        <3> QED BY <1>5, <1>8, <2>2, <3>1 DEF Settled, StoredAnswer
    <2> QED BY <2>1, <2>2
<1>11. Returning(r)'
    BY <1>1, <1>2, <1>7, <1>8
       DEF TypeOK, Commit, CommitAckLost, CommitPrepared, Rejected, Close, Return, GoTo, Finish,
           Speaking, Returning
<1>12. Telling(r)'
    <2>1. CASE Commit(r)
        <3>1. /\ answer'[r] = outcome[r] /\ pc'[r] = "done" /\ pc[r] = "commit"
              /\ outcome[r] # Cancelled
            BY <1>1, <2>1 DEF TypeOK, Commit, Finish, GoTo, Speaking, Returning
        <3> QED BY <1>2, <1>3, <1>10, <3>1 DEF Telling, Told
    <2>2. CASE CommitAckLost(r)
        BY <1>1, <1>2, <1>3, <1>7, <2>2
           DEF TypeOK, CommitAckLost, Rejected, Finish, GoTo, Speaking, Telling
    <2>3. CASE CommitPrepared(r)
        BY <1>1, <1>2, <1>3, <1>7, <2>3 DEF TypeOK, CommitPrepared, GoTo, Speaking, Telling
    <2> QED BY <2>1, <2>2, <2>3
<1>13. ASSUME NEW q \in Requests PROVE Speaking(q)'
    BY <1>4, <1>11, <1>12, SpeakingKept DEF AInv, Speaking
<1> QED BY <1>6, <1>13 DEF AInv

-----------------------------------------------------------------------------
(* The other steps *)

LEMMA CancelSpeaks ==
    ASSUME IInv, AInv, [Next]_vars, NEW r \in Requests,
           CancelRead(r) \/ CancelReleased(r) \/ CancelPersist(r) \/ CancelPersistFails(r)
    PROVE  AInv'
<1>1. Speaking(r) /\ TypeOK /\ Handler(r)
    BY DEF AInv, IInv, Handlers
<1>2. /\ pc[r] \in Cancelling
      /\ UNCHANGED <<key, req, write, owes, outcome>>
    BY DEF CancelRead, CancelReleased, CancelPersist, CancelPersistFails, Cancelling
<1>3. /\ req[r].id \in OrderIds /\ req[r].op = "cancel" /\ write[r] = "nothing" /\ ~owes[r]
      /\ answer[r] = Unanswered /\ outcome[r] # Cancelled
    BY <1>1, <1>2, BusyHandler
       DEF Cancelling, Handler, Writing, Speaking, Telling, Returning
<1>4. \A q \in Requests \ {r} : Quiet(q)
    BY <1>1, <1>2 DEF TypeOK, Quiet, CancelRead, CancelReleased, CancelPersist, CancelPersistFails,
                      GoTo, Finish
<1>5. pc'[r] \in {"cancelRelease", "cancelPersist", "done"}
    BY <1>1 DEF TypeOK, CancelRead, CancelReleased, CancelPersist, CancelPersistFails, GoTo, Finish
<1>6. Returning(r)'
    BY <1>2, <1>3, <1>5 DEF Returning
<1>7. /\ INTERNAL \notin {Created, Cancelled} /\ ORDER_NOT_FOUND \notin {Created, Cancelled}
      /\ Unanswered \notin {Created, Cancelled} /\ Cancelled # Created
    BY DEF INTERNAL, ORDER_NOT_FOUND, Created, Cancelled, Unanswered, Answer
<1>8. Telling(r)'
    BY <1>1, <1>2, <1>3, <1>7
       DEF TypeOK, CancelRead, CancelReleased, CancelPersist, CancelPersistFails, GoTo, Finish,
           Telling
<1> QED BY <1>2, <1>4, <1>6, <1>8, KeylessStep DEF Speaking

LEMMA ClientSpeaks ==
    ASSUME IInv, AInv, [Next]_vars, NEW r \in Requests,
           Retry(r) \/ Expire(r) \/ \E request \in Creates \cup Cancels : Arrive(r, request)
    PROVE  AInv'
<1>1. Speaking(r) /\ TypeOK /\ Handler(r)
    BY DEF AInv, IInv, Handlers
<1>2. UNCHANGED <<key, order, write, owes, outcome>>
    BY DEF Retry, Expire, Arrive
<1>3. \A q \in Requests \ {r} : Quiet(q)
    BY <1>1, <1>2 DEF TypeOK, Quiet, Retry, Expire, Arrive, GoTo
<1>4. /\ ~Definite(Unanswered) /\ Unanswered # Created /\ Unanswered # Cancelled
    BY DEF Definite, Created, Cancelled, Unanswered, Answer
<1>5. CASE Retry(r) \/ \E request \in Creates \cup Cancels : Arrive(r, request)
    <2>1. /\ pc[r] \in {"idle", "done"} /\ pc'[r] \in {"claim", "cancelRead"}
          /\ answer'[r] = Unanswered
        BY <1>1, <1>5 DEF TypeOK, Retry, Arrive, GoTo, Speaking, Telling
    <2>2. write[r] = "nothing" /\ ~owes[r]
        BY <1>1, <2>1 DEF Handler, Writing
    <2>3. Returning(r)'
        BY <1>1, <1>2, <2>1, <2>2 DEF Speaking, Returning
    <2>4. Telling(r)'
        BY <1>4, <2>1 DEF Telling
    <2> QED BY <1>2, <1>3, <2>3, <2>4, KeylessStep DEF Speaking
<1>6. CASE Expire(r)
    <2>1. Quiet(r)
        BY <1>6 DEF Expire, Quiet
    <2> QED BY <1>1, <1>2, <1>3, <2>1, SpeakingKept, KeylessStep
<1> QED BY <1>5, <1>6

LEMMA CrashSpeaks ==
    ASSUME IInv, AInv, [Next]_vars, Crash
    PROVE  AInv'
<1>1. ASSUME NEW r \in Requests PROVE Speaking(r)'
    <2>1. Speaking(r) /\ TypeOK
        BY DEF AInv, IInv
    <2>2. /\ UNCHANGED <<key, order, req, answer>>
          /\ pc'[r] = IF pc[r] = "idle" THEN "idle" ELSE "done"
          /\ write'[r] = "nothing" /\ outcome'[r] = Unanswered /\ ~owes'[r]
        BY DEF Crash
    <2>3. Unanswered # Cancelled
        BY DEF Unanswered, Cancelled, Answer
    <2>4. Returning(r)'
        BY <2>2, <2>3 DEF Returning
    <2>5. Telling(r)'
        BY <2>1, <2>2 DEF Speaking, Telling, Told, SameBody, Entry
    <2> QED BY <2>4, <2>5 DEF Speaking
<1>2. \A k \in OrderIds : Stored(k)'
    BY DEF AInv, Stored, Crash
<1> QED BY <1>1, <1>2 DEF AInv

\* A step that no handler takes.
LEMMA NobodySpeaks ==
    ASSUME IInv, AInv, [Next]_vars, UNCHANGED salesVars
    PROVE  AInv'
<1>1. \A r \in Requests : Quiet(r)
    BY DEF salesVars, Quiet
<1>2. ASSUME NEW r \in Requests PROVE Speaking(r)'
    BY <1>1, SpeakingKept DEF AInv
<1>3. \A k \in OrderIds : Stored(k)'
    BY DEF AInv, Stored, salesVars
<1> QED BY <1>2, <1>3 DEF AInv

-----------------------------------------------------------------------------
(* The theorem *)

LEMMA InitSpeaks == Init => AInv
BY DEF Init, AInv, Speaking, Returning, Telling, Stored, Absent, NoRequest, Unanswered, Cancelled,
       Created, Answer, Definite

LEMMA NextSpeaks == IInv /\ AInv /\ [Next]_vars => AInv'
<1> SUFFICES ASSUME IInv, AInv, [Next]_vars PROVE AInv'
    OBVIOUS
<1>1. ASSUME NEW r \in Requests,
             \/ TransactionFails(r) \/ FindsExpired(r)
             \/ \E status \in Replies \cup TransportFailures : ReleaseFails(r, status)
      PROVE  AInv'
    BY <1>1, RejectedSpeaks DEF TransactionFails, FindsExpired, ReleaseFails
<1>2. ASSUME NEW r \in Requests, Handle(r) PROVE AInv'
    BY <1>1, <1>2, ClaimSpeaks, CommitSpeaks, EnterSpeaks, CallEndSpeaks, CancelSpeaks DEF Handle
<1>3. ASSUME NEW r \in Requests,
             \/ Retry(r) \/ Expire(r) \/ \E request \in Creates \cup Cancels : Arrive(r, request)
             \/ TransactionFails(r) \/ CommitAckLost(r) \/ CancelPersistFails(r)
      PROVE  AInv'
    BY <1>1, <1>3, ClientSpeaks, CommitSpeaks, CancelSpeaks
<1>4. ASSUME NEW k \in OrderIds, NEW i \in DOMAIN wire[k], Execute(k, i) \/ Lose(k, i)
      PROVE  AInv'
    BY <1>4, NobodySpeaks DEF Execute, Lose
<1>5. CASE UNCHANGED vars
    BY <1>5, NobodySpeaks DEF vars, salesVars
<1> QED BY <1>2, <1>3, <1>4, <1>5, CrashSpeaks DEF Next

\* A 201 has its order, of the body it answers; a 200 has its cancellation; and all
\* definite answers to one body of a key are the same answer.
THEOREM AnswersLast == Spec => []AnswersAreKept
<1>1. IInv /\ AInv => AnswersAreKept
    <2> SUFFICES ASSUME IInv, AInv PROVE AnswersAreKept
        OBVIOUS
    <2>1. ASSUME NEW r \in Requests, answer[r] = Created
          PROVE  Entry(r).state = "CONFIRMED" /\ Entry(r).body = req[r].body
        <3>1. Created # Unanswered /\ Created # KEY_CONFLICT /\ Definite(Created)
            BY DEF Created, Unanswered, KEY_CONFLICT, Answer, Definite
        <3>2. req[r].op = "create" /\ Told(r, Created) /\ pc[r] = "done"
            BY <2>1, <3>1 DEF AInv, Speaking, Telling
        <3>3. Stored(req[r].id)
            BY <3>2, ArrivedRequest DEF AInv
        <3> QED BY <3>1, <3>2, <3>3 DEF Told, SameBody, Settled, StoredAnswer, Stored, Entry
    <2>2. \A r \in Requests : answer[r] = Cancelled => order[req[r].id] = "CANCELLED"
        BY DEF AInv, Speaking, Telling
    <2>3. \A r, q \in Requests :
             Definite(answer[r]) /\ Definite(answer[q]) /\ req[r].op = "create" /\ req[q] = req[r]
             => answer[r] = answer[q]
        BY DEF AInv, Speaking, Telling, Told, SameBody, Entry
    <2> QED BY <2>1, <2>2, <2>3 DEF AnswersAreKept
<1>2. Spec => []AInv
    BY InitSpeaks, NextSpeaks, Invariance, PTL DEF Spec
<1> QED BY <1>1, <1>2, Invariance, PTL

-----------------------------------------------------------------------------
(* Stock that no order accounts for *)

ReserveComing(k) == \E i \in DOMAIN wire[k] : wire[k][i].op = "reserve"

\* Nothing is held for order id k and nothing on its way will take stock for it, unless
\* a reserve was refused ahead of an earlier one.
Drained(k) ==
    \/ k \in overtaken
    \/ ledger[k].status = "RELEASED"
    \/ ledger[k].status = "NONE" /\ ~ReserveComing(k)

\* The transaction of r will close the key as FAILED, or may.
Refused(r) ==
    /\ holds[r]
    /\ write[r] = "FAILED" \/ (pc[r] = "reserve" /\ rpc[r] \in Replies \ {"OK"})

\* While r holds the key's row and waits, no call follows its own.
LastIsOwn(r) == /\ wire[req[r].id] # <<>>
                /\ wire[req[r].id][Len(wire[req[r].id])].from = r

Settles(r) ==
    /\ Refused(r) => Drained(req[r].id)
    /\ pc[r] = "release" /\ rpc[r] = "OK" => ledger[req[r].id].status = "RELEASED"
    /\ holds[r] /\ pc[r] = "reserve" /\ rpc[r] = "sent" => LastIsOwn(r)

Accounted(k) ==
    /\ key[k].state = "FAILED" => Drained(k)
    /\ ledger[k].status # "NONE" \/ ReserveComing(k) => key[k].body.customer \in KnownCustomers

OInv == (\A r \in Requests : Settles(r)) /\ \A k \in OrderIds : Accounted(k)

-----------------------------------------------------------------------------
(* What a step does to the calls of one order id *)

LEMMA AfterSend ==
    ASSUME IInv, NEW r \in Requests, NEW op \in {"reserve", "release"},
           NEW items \in Payloads \cup {NoItems}, Send(r, op, items), req[r].id \in OrderIds,
           req' = req
    PROVE  /\ \A k \in OrderIds \ {req[r].id} : wire'[k] = wire[k]
           /\ \A k \in OrderIds : ReserveComing(k)' =>
                  ReserveComing(k) \/ (k = req[r].id /\ op = "reserve")
           /\ LastIsOwn(r)'
<1> DEFINE id == req[r].id
           call == [from |-> r, op |-> op, items |-> items]
<1>1. DOMAIN wire = OrderIds /\ wire[id] \in Seq(Call) /\ call \in Call
    BY CallOnItsWay DEF IInv, TypeOK, Call
<1>2. wire'[id] = Append(wire[id], call) /\ \A k \in OrderIds \ {id} : wire'[k] = wire[k]
    BY <1>1 DEF Send
<1> HIDE DEF call
<1>3. /\ Len(wire'[id]) = Len(wire[id]) + 1 /\ Len(wire[id]) \in Nat
      /\ DOMAIN wire'[id] = 1..Len(wire'[id]) /\ DOMAIN wire[id] = 1..Len(wire[id])
      /\ \A i \in 1..Len(wire[id]) : wire'[id][i] = wire[id][i]
      /\ wire'[id][Len(wire[id]) + 1] = call
    BY <1>1, <1>2, AppendProperties, LenProperties
<1>4. wire'[id] # <<>>
    BY <1>3
<1>5. LastIsOwn(r)'
    BY <1>3, <1>4 DEF LastIsOwn, call
<1>6. ASSUME NEW i \in DOMAIN wire'[id], wire'[id][i].op = "reserve"
      PROVE  ReserveComing(id) \/ op = "reserve"
    <2>1. i \in 1..Len(wire[id]) \/ i = Len(wire[id]) + 1
        BY <1>3
    <2>2. CASE i \in 1..Len(wire[id])
        <3>1. wire[id][i].op = "reserve" /\ i \in DOMAIN wire[id]
            BY <1>3, <1>6, <2>2
        <3> QED BY <3>1 DEF ReserveComing
    <2>3. CASE i = Len(wire[id]) + 1
        <3>1. call.op = "reserve"
            BY <1>3, <1>6, <2>3
        <3> QED BY <3>1 DEF call
    <2> QED BY <2>1, <2>2, <2>3
<1>7. ASSUME NEW k \in OrderIds, ReserveComing(k)'
      PROVE  ReserveComing(k) \/ (k = id /\ op = "reserve")
    BY <1>2, <1>6, <1>7 DEF ReserveComing
<1> QED BY <1>2, <1>5, <1>7

LEMMA AfterOrphaning ==
    ASSUME IInv, NEW k \in OrderIds, NEW callers \in SUBSET Requests,
           wire'[k] = Orphaned(wire[k], callers)
    PROVE  /\ ReserveComing(k)' => ReserveComing(k)
           /\ \A q \in Requests \ callers :
                  wire[k] # <<>> /\ wire[k][Len(wire[k])].from = q =>
                      wire'[k] # <<>> /\ wire'[k][Len(wire'[k])].from = q
<1>1. wire[k] \in Seq(Call) /\ OneCaller(wire[k])
    BY CallOnItsWay
<1>2. /\ wire'[k] \in Seq(Call) /\ DOMAIN wire'[k] = DOMAIN wire[k]
      /\ \A j \in DOMAIN wire[k] :
             /\ wire'[k][j].op = wire[k][j].op
             /\ wire'[k][j].from = IF wire[k][j].from \in callers THEN Nobody ELSE wire[k][j].from
    BY <1>1, OrphanedProperties
<1>3. Len(wire'[k]) = Len(wire[k]) /\ Len(wire[k]) \in Nat /\ DOMAIN wire[k] = 1..Len(wire[k])
    BY <1>1, <1>2, LenProperties
<1>4. wire[k] # <<>> => Len(wire[k]) \in DOMAIN wire[k] /\ wire'[k] # <<>>
    BY <1>1, <1>2, <1>3, EmptySeq
<1> QED BY <1>2, <1>3, <1>4 DEF ReserveComing

LEMMA AfterRemoval ==
    ASSUME IInv, NEW k \in OrderIds, NEW i \in DOMAIN wire[k], wire'[k] = RemoveAt(wire[k], i)
    PROVE  /\ ReserveComing(k)' => ReserveComing(k)
           /\ i = Len(wire[k]) /\ ~Overtakes(k, i) => ~ReserveComing(k)'
           /\ \A q : wire[k] # <<>> /\ wire[k][Len(wire[k])].from = q /\ wire[k][i].from # q =>
                      wire'[k] # <<>> /\ wire'[k][Len(wire'[k])].from = q
<1>1. wire[k] \in Seq(Call)
    BY CallOnItsWay
<1>2. /\ wire'[k] \in Seq(Call) /\ Len(wire'[k]) = Len(wire[k]) - 1
      /\ \A j \in DOMAIN wire'[k] : wire'[k][j] = IF j < i THEN wire[k][j] ELSE wire[k][j + 1]
    BY <1>1, RemoveAtProperties
<1>3. /\ Len(wire[k]) \in Nat /\ DOMAIN wire[k] = 1..Len(wire[k])
      /\ DOMAIN wire'[k] = 1..(Len(wire[k]) - 1)
    BY <1>1, <1>2, LenProperties
<1>4. ASSUME NEW j \in DOMAIN wire'[k] PROVE \E n \in DOMAIN wire[k] : wire'[k][j] = wire[k][n]
    <2>1. j \in DOMAIN wire[k] /\ j + 1 \in DOMAIN wire[k]
        BY <1>3
    <2> QED BY <1>2, <2>1
<1>5. ASSUME NEW q, wire[k][Len(wire[k])].from = q, wire[k][i].from # q
      PROVE  wire'[k] # <<>> /\ wire'[k][Len(wire'[k])].from = q
    <2>1. i # Len(wire[k]) /\ i < Len(wire[k]) /\ Len(wire'[k]) \in DOMAIN wire'[k]
        BY <1>2, <1>3, <1>5
    <2>2. wire'[k][Len(wire'[k])] = wire[k][Len(wire[k])]
        BY <1>2, <1>3, <2>1
    <2>3. wire'[k] # <<>>
        BY <2>1
    <2> QED BY <1>5, <2>2, <2>3
<1>6. ASSUME i = Len(wire[k]), ~Overtakes(k, i), NEW j \in DOMAIN wire'[k]
      PROVE  wire'[k][j].op # "reserve"
    <2>1. j \in 1..(i - 1) /\ j < i
        BY <1>3, <1>6
    <2>2. wire'[k][j] = wire[k][j]
        BY <1>2, <2>1
    <2> QED BY <1>6, <2>1, <2>2 DEF Overtakes
<1> QED BY <1>4, <1>5, <1>6 DEF ReserveComing

\* A step of handler r while Inventory does nothing.
LEMMA HandlerSettles ==
    ASSUME IInv, OInv, [Next]_vars, NEW r \in Requests,
           UNCHANGED <<ledger, overtaken>>,
           \A q \in Requests \ {r} : Same(q),
           \A k \in OrderIds : Drained(k) =>
              Drained(k)' \/ (k = req[r].id /\ RowFree(r) /\ key'[k].state # "FAILED"),
           \A q \in Requests \ {r} :
              holds[q] /\ pc[q] = "reserve" /\ LastIsOwn(q) => LastIsOwn(q)',
           \A k \in OrderIds : ReserveComing(k)' =>
              \/ ReserveComing(k)
              \/ key[k].state # "ABSENT" /\ key[k].body.customer \in KnownCustomers,
           \A k \in OrderIds : key'[k].state = "FAILED" => key[k].state = "FAILED" \/ Drained(k),
           Settles(r)'
    PROVE  OInv'
<1>1. ASSUME NEW q \in Requests, q # r PROVE Settles(q)'
    <2>1. Same(q) /\ Settles(q)
        BY <1>1 DEF OInv
    <2>2. ASSUME Refused(q)' PROVE Drained(req[q].id)'
        <3>1. Refused(q) /\ holds[q]
            BY <2>1, <2>2 DEF Refused, Same
        <3>2. pc[q] \notin {"idle", "done"}
            BY <3>1 DEF IInv, Handlers, Handler, Holding
        <3>3. req[q].id \in OrderIds /\ Drained(req[q].id)
            BY <2>1, <3>1, <3>2, BusyHandler DEF Settles
        <3>4. ~(req[q].id = req[r].id /\ RowFree(r))
            BY <1>1, <3>1 DEF RowFree
        <3> QED BY <2>1, <3>3, <3>4 DEF Same, Drained, ReserveComing
    <2> QED BY <1>1, <2>1, <2>2 DEF Settles, Same
<1>2. ASSUME NEW k \in OrderIds PROVE Accounted(k)'
    <2>1. Accounted(k) /\ Record(k) /\ KeyProgress(k)
        BY KeyStep DEF OInv, IInv, Records
    <2>2. ReserveComing(k) => key[k].state # "ABSENT"
        BY CallOnItsWay DEF ReserveComing, Justified
    <2>3. key'[k].state = "FAILED" => Drained(k)'
        BY <2>1 DEF Accounted
    <2>4. ledger'[k].status # "NONE" \/ ReserveComing(k)' =>
              key[k].state # "ABSENT" /\ key[k].body.customer \in KnownCustomers
        BY <2>1, <2>2 DEF Accounted, Record
    <2> QED BY <2>1, <2>3, <2>4 DEF Accounted, KeyProgress
<1> QED BY <1>1, <1>2 DEF OInv

\* And that neither sends nor gives up a call.
LEMMA WirelessSettles ==
    ASSUME IInv, OInv, [Next]_vars, NEW r \in Requests, UNCHANGED <<ledger, overtaken, wire>>,
           \A q \in Requests \ {r} : Same(q),
           \A k \in OrderIds : key'[k].state = "FAILED" => key[k].state = "FAILED" \/ Drained(k),
           Settles(r)'
    PROVE  OInv'
<1>1. \A k \in OrderIds : /\ Drained(k)' <=> Drained(k)
                          /\ ReserveComing(k)' <=> ReserveComing(k)
    BY DEF Drained, ReserveComing
<1>2. \A q \in Requests \ {r} : LastIsOwn(q) => LastIsOwn(q)'
    BY DEF LastIsOwn, Same
<1> QED BY <1>1, <1>2, HandlerSettles

-----------------------------------------------------------------------------
(* The steps of the handlers *)

\* The steps after which r holds no row and waits for no answer of Inventory.
LEMMA FreeSettles ==
    ASSUME IInv, OInv, [Next]_vars, NEW r \in Requests,
           \/ TransactionFails(r) \/ FindsExpired(r) \/ Claim(r) \/ Commit(r) \/ CommitAckLost(r)
           \/ CommitPrepared(r) \/ CancelReleased(r) \/ CancelPersist(r) \/ CancelPersistFails(r)
           \/ Retry(r) \/ \E request \in Creates \cup Cancels : Arrive(r, request)
           \/ CancelRead(r) /\ wire' = wire
    PROVE  OInv'
<1>1. TypeOK /\ Handler(r) /\ Settles(r)
    BY DEF IInv, Handlers, OInv
<1>2. UNCHANGED <<ledger, overtaken, wire>>
    BY DEF TransactionFails, FindsExpired, Claim, Commit, CommitAckLost, CommitPrepared,
           CancelRead, CancelReleased, Answered, CancelPersist, CancelPersistFails, Retry, Arrive,
           inventoryVars, ledgerVars
<1>3. ~holds'[r] /\ rpc'[r] # "OK"
    <2>1. CASE CancelRead(r) /\ wire' = wire
        BY <1>1, <2>1 DEF CancelRead, Send, TypeOK, Handler, Holding, Waiting
    <2>2. CASE \/ TransactionFails(r) \/ FindsExpired(r) \/ Commit(r) \/ CommitAckLost(r)
               \/ CommitPrepared(r)
        BY <1>1, <2>2 DEF TransactionFails, FindsExpired, Commit, CommitAckLost, CommitPrepared,
                          Rejected, Close, TypeOK, Handler, Waiting
    <2>3. CASE \/ Claim(r) \/ CancelReleased(r) \/ CancelPersist(r) \/ CancelPersistFails(r)
               \/ Retry(r) \/ \E request \in Creates \cup Cancels : Arrive(r, request)
        BY <1>1, <2>3 DEF Claim, CancelReleased, Answered, CancelPersist, CancelPersistFails,
                          Retry, Arrive, TypeOK, Handler, Holding, Waiting
    <2> QED BY <2>1, <2>2, <2>3
<1>4. Settles(r)'
    BY <1>3 DEF Settles, Refused
<1>5. \A q \in Requests \ {r} : Same(q)
    BY <1>1 DEF TransactionFails, FindsExpired, Claim, Commit, CommitAckLost, CommitPrepared,
                CancelRead, CancelReleased, CancelPersist, CancelPersistFails, Retry, Arrive,
                Send, Answered, Rejected, Close, Return, Finish, GoTo, TypeOK, Same
<1>6. ASSUME NEW k \in OrderIds, key'[k].state = "FAILED", key[k].state # "FAILED"
      PROVE  Drained(k)
    <2>1. CASE Commit(r) \/ CommitAckLost(r) \/ CommitPrepared(r)
        <3>1. Publish(r) /\ holds[r] /\ req[r].id \in OrderIds
            BY <1>1, <2>1, BusyHandler DEF Commit, CommitAckLost, CommitPrepared, Handler, Holding
        <3>2. k = req[r].id /\ write[r] = "FAILED"
            BY <1>1, <1>6, <3>1 DEF Publish, TypeOK
        <3> QED BY <1>1, <3>1, <3>2 DEF Settles, Refused
    <2>2. CASE Claim(r)
        <3>1. req[r].id \in OrderIds
            BY <2>2, BusyHandler DEF Claim
        <3> QED BY <1>1, <1>6, <2>2, <3>1 DEF Claim, TypeOK
    <2>3. CASE key' = key
        BY <1>6, <2>3
    <2> QED BY <2>1, <2>2, <2>3
            DEF TransactionFails, FindsExpired, CancelRead, CancelReleased, CancelPersist,
                CancelPersistFails, Retry, Arrive
<1> QED BY <1>2, <1>4, <1>5, <1>6, WirelessSettles

\* A transaction that times out during a call.
LEMMA ExpireSettles ==
    ASSUME IInv, OInv, [Next]_vars, NEW r \in Requests, Expire(r)
    PROVE  OInv'
<1>1. TypeOK /\ Settles(r)
    BY DEF IInv, OInv
<1>2. /\ UNCHANGED <<ledger, overtaken, key, wire, pc, req, write, owes, rpc>>
      /\ holds' = [holds EXCEPT ![r] = FALSE]
    BY DEF Expire, inventoryVars, ledgerVars
<1>3. Settles(r)'
    BY <1>1, <1>2 DEF Settles, Refused, TypeOK
<1>4. \A q \in Requests \ {r} : Same(q)
    BY <1>1, <1>2 DEF Same, TypeOK
<1> QED BY <1>2, <1>3, <1>4, WirelessSettles

\* The row is taken and the callback returns.
LEMMA EnterSettles ==
    ASSUME IInv, OInv, [Next]_vars, NEW r \in Requests,
           \/ EnterConflict(r) \/ EnterSettled(r) \/ EnterUnknownCustomer(r)
           \/ RecoverSettled(r) \/ Prepare(r)
    PROVE  OInv'
<1>1. TypeOK /\ Handler(r)
    BY DEF IInv, Handlers
<1>2. /\ UNCHANGED <<ledger, overtaken, key, wire, req, rpc>>
      /\ pc[r] \in {"lock", "relock", "relock2"}
      /\ pc'[r] \in {"commit", "prepared"}
    BY <1>1 DEF EnterConflict, EnterSettled, EnterUnknownCustomer, RecoverSettled, Prepare, Enter,
                Reenter, GoTo, TypeOK, inventoryVars, ledgerVars
<1>3. req[r].id \in OrderIds
    BY <1>2, BusyHandler
<1>4. write'[r] = "FAILED" => Drained(req[r].id)
    <2>1. CASE EnterUnknownCustomer(r)
        <3>1. Accounted(req[r].id) /\ Entry(r).body.customer \notin KnownCustomers
            BY <1>3, <2>1 DEF EnterUnknownCustomer, SameBody, OInv
        <3> QED BY <3>1 DEF Accounted, Drained, Entry
    <2>2. CASE EnterConflict(r) \/ EnterSettled(r) \/ RecoverSettled(r) \/ Prepare(r)
        BY <1>1, <2>2 DEF EnterConflict, EnterSettled, RecoverSettled, Prepare, Return, TypeOK
    <2> QED BY <2>1, <2>2
<1>5. Settles(r)'
    BY <1>2, <1>4 DEF Settles, Refused, Drained, ReserveComing
<1>6. \A q \in Requests \ {r} : Same(q)
    BY <1>1 DEF EnterConflict, EnterSettled, EnterUnknownCustomer, RecoverSettled, Prepare, Enter,
                Reenter, Return, GoTo, TypeOK, Same
<1> QED BY <1>2, <1>5, <1>6, WirelessSettles

\* The row is taken, or an order read, and a call is sent.
LEMMA SendSettles ==
    ASSUME IInv, OInv, [Next]_vars, NEW r \in Requests,
           \/ EnterReserve(r) \/ EnterCompensating(r) \/ Compensate(r)
           \/ CancelRead(r) /\ wire' # wire
    PROVE  OInv'
<1>1. TypeOK /\ Handler(r)
    BY DEF IInv, Handlers
<1>2. /\ pc[r] \in {"lock", "relock2", "cancelRead"} /\ UNCHANGED <<ledger, overtaken, key, req>>
      /\ rpc' = [rpc EXCEPT ![r] = "sent"]
    BY DEF EnterReserve, EnterCompensating, Compensate, CancelRead, Enter, Reenter, Send,
           inventoryVars, ledgerVars
<1>3. /\ req[r].id \in OrderIds /\ write[r] = "nothing"
      /\ pc[r] = "lock" => req[r].body.items \in Payloads
    BY <1>1, <1>2, BusyHandler DEF Handler, Writing, Creating
<1>4. PICK op \in {"reserve", "release"}, items \in Payloads \cup {NoItems} :
        /\ Send(r, op, items)
        /\ op = "reserve" => EnterReserve(r)
        /\ pc'[r] = "reserve" => op = "reserve"
    <2>1. CASE EnterReserve(r)
        BY <1>2, <1>3, <2>1 DEF EnterReserve, Enter
    <2>2. CASE EnterCompensating(r) \/ Compensate(r) \/ (CancelRead(r) /\ wire' # wire)
        BY <1>1, <2>2 DEF EnterCompensating, Compensate, CancelRead, GoTo, TypeOK
    <2> QED BY <2>1, <2>2
<1>5. /\ \A k \in OrderIds \ {req[r].id} : wire'[k] = wire[k]
      /\ \A k \in OrderIds : ReserveComing(k)' =>
             ReserveComing(k) \/ (k = req[r].id /\ op = "reserve")
      /\ LastIsOwn(r)'
    BY <1>2, <1>3, <1>4, AfterSend
<1>6. /\ op = "reserve" => RowFree(r) /\ Entry(r).state = "IN_PROGRESS"
                           /\ Entry(r).body.customer \in KnownCustomers
      /\ \A q \in Requests \ {r} : ~(holds[q] /\ pc[q] = "reserve" /\ req[q].id = req[r].id)
    <2>1. CASE EnterReserve(r) \/ EnterCompensating(r) \/ Compensate(r)
        BY <1>4, <2>1
           DEF EnterReserve, EnterCompensating, Compensate, Enter, Reenter, RowFree, SameBody
    <2>2. CASE CancelRead(r) /\ wire' # wire
        <3>1. order[req[r].id] = "CONFIRMED" /\ Record(req[r].id)
            BY <1>3, <2>2 DEF CancelRead, IInv, Records
        <3>2. Entry(r).state = "CONFIRMED" /\ op # "reserve"
            BY <1>4, <2>2, <3>1 DEF Record, Entry, EnterReserve, Enter, CancelRead
        <3>3. \A q \in Requests : holds[q] /\ pc[q] = "reserve" => Entry(q).state = "IN_PROGRESS"
            BY DEF IInv, Handlers, Handler, Holding
        <3> QED BY <3>2, <3>3 DEF Entry
    <2> QED BY <2>1, <2>2
<1>7. ASSUME NEW k \in OrderIds, Drained(k)
      PROVE  Drained(k)' \/ (k = req[r].id /\ RowFree(r) /\ key'[k].state # "FAILED")
    BY <1>2, <1>5, <1>6, <1>7 DEF Drained, Entry
<1>8. \A q \in Requests \ {r} : Same(q)
    BY <1>1, <1>2 DEF EnterReserve, EnterCompensating, Compensate, CancelRead, Enter, Reenter,
                      Return, Finish, GoTo, TypeOK, Same
<1>9. ASSUME NEW q \in Requests \ {r}, holds[q], pc[q] = "reserve", LastIsOwn(q)
      PROVE  LastIsOwn(q)'
    <2>1. req[q].id \in OrderIds \ {req[r].id}
        BY <1>6, <1>9, BusyHandler
    <2> QED BY <1>2, <1>5, <1>9, <2>1 DEF LastIsOwn
<1>10. Settles(r)'
    <2>1. rpc'[r] = "sent" /\ write'[r] = "nothing"
        BY <1>1, <1>2, <1>3 DEF EnterReserve, EnterCompensating, Compensate, CancelRead, Return,
                                TypeOK
    <2> QED BY <1>5, <2>1 DEF Settles, Refused, Replies
<1>11. \A k \in OrderIds : ReserveComing(k)' =>
           \/ ReserveComing(k)
           \/ key[k].state # "ABSENT" /\ key[k].body.customer \in KnownCustomers
    BY <1>5, <1>6 DEF Entry
<1> QED BY <1>2, <1>7, <1>8, <1>9, <1>10, <1>11, HandlerSettles

\* Inventory's answer is taken.
LEMMA AnswerSettles ==
    ASSUME IInv, OInv, [Next]_vars, NEW r \in Requests,
           \/ Reserved(r) \/ Released(r)
           \/ /\ Answered(r) /\ rpc[r] # "OK"
              /\ \E status \in Replies \cup TransportFailures :
                    \/ ReserveFails(r, status) \/ ReleaseFails(r, status)
                    \/ CancelReleaseFails(r, status)
    PROVE  OInv'
<1>1. TypeOK /\ Handler(r) /\ Settles(r)
    BY DEF IInv, Handlers, OInv
<1>2. /\ UNCHANGED <<ledger, overtaken, key, wire, req>> /\ rpc' = [rpc EXCEPT ![r] = "none"]
      /\ rpc[r] \in Replies /\ pc[r] \in {"reserve", "release", "cancelRelease"}
    BY DEF Reserved, Released, ReserveFails, ReleaseFails, CancelReleaseFails, Answered,
           inventoryVars, ledgerVars
<1>3. \A q \in Requests \ {r} : Same(q)
    BY <1>1, <1>2 DEF Reserved, Released, ReserveFails, ReleaseFails, CancelReleaseFails, Rejected,
                      Close, Return, Finish, GoTo, TypeOK, Same
<1>4. holds'[r] /\ write'[r] = "FAILED" => Drained(req[r].id)
    <2>1. CASE Reserved(r)
        BY <1>1, <2>1 DEF Reserved, Return, TypeOK
    <2>2. CASE Released(r)
        BY <1>1, <2>2 DEF Released, Settles, Drained
    <2>3. ASSUME NEW status \in Replies \cup TransportFailures, ReserveFails(r, status),
                 rpc[r] # "OK", holds'[r]
          PROVE  Drained(req[r].id)
        BY <1>1, <1>2, <2>3 DEF ReserveFails, Settles, Refused
    <2>4. ASSUME NEW status \in Replies \cup TransportFailures,
                 ReleaseFails(r, status) \/ CancelReleaseFails(r, status)
          PROVE  ~holds'[r]
        BY <1>1, <2>4 DEF ReleaseFails, CancelReleaseFails, Rejected, Close, TypeOK, Handler,
                          Holding
    <2> QED BY <2>1, <2>2, <2>3, <2>4
<1>5. Settles(r)'
    <2>1. rpc'[r] = "none"
        BY <1>1, <1>2 DEF TypeOK
    <2> QED BY <1>2, <1>4, <2>1 DEF Settles, Refused, Drained, ReserveComing, Replies
<1> QED BY <1>2, <1>3, <1>5, WirelessSettles

\* The call is given up, which never settles a key: its outcome is unknown.
LEMMA GivingUpSettles ==
    ASSUME IInv, OInv, [Next]_vars, NEW r \in Requests, NEW status \in TransportFailures,
           GivesUp(r),
           ReserveFails(r, status) \/ ReleaseFails(r, status) \/ CancelReleaseFails(r, status)
    PROVE  OInv'
<1>1. TypeOK /\ Handler(r) /\ Settles(r)
    BY DEF IInv, Handlers, OInv
<1>2. /\ UNCHANGED <<ledger, overtaken, key, req>> /\ rpc' = [rpc EXCEPT ![r] = "none"]
      /\ wire' = [wire EXCEPT ![req[r].id] = Orphaned(@, {r})]
      /\ pc[r] \in {"reserve", "release", "cancelRelease"}
    BY DEF ReserveFails, ReleaseFails, CancelReleaseFails, GivesUp, inventoryVars, ledgerVars
<1>3. \A q \in Requests \ {r} : Same(q)
    BY <1>1, <1>2 DEF ReserveFails, ReleaseFails, CancelReleaseFails, Rejected, Close, Return,
                      Finish, GoTo, TypeOK, Same
<1>4. ASSUME NEW k \in OrderIds
      PROVE  /\ ReserveComing(k)' => ReserveComing(k)
             /\ \A q \in Requests \ {r} :
                    wire[k] # <<>> /\ wire[k][Len(wire[k])].from = q =>
                        wire'[k] # <<>> /\ wire'[k][Len(wire'[k])].from = q
    <2>1. CASE k = req[r].id
        <3>1. wire'[k] = Orphaned(wire[k], {r})
            BY <1>1, <1>2, <2>1 DEF TypeOK
        <3> QED BY <3>1, AfterOrphaning
    <2>2. CASE k # req[r].id
        <3>1. wire'[k] = wire[k]
            BY <1>1, <1>2, <2>2 DEF TypeOK
        <3> QED BY <3>1 DEF ReserveComing
    <2> QED BY <2>1, <2>2
<1>5. \A k \in OrderIds : Drained(k) => Drained(k)'
    BY <1>2, <1>4 DEF Drained
<1>6. ASSUME NEW q \in Requests \ {r}, holds[q], pc[q] = "reserve", LastIsOwn(q)
      PROVE  LastIsOwn(q)'
    <2>1. req[q].id \in OrderIds /\ req'[q] = req[q]
        BY <1>2, <1>6, BusyHandler
    <2> QED BY <1>4, <1>6, <2>1 DEF LastIsOwn
<1>7. holds'[r] => write'[r] = "nothing"
    <2>1. CASE ReserveFails(r, status)
        <3>1. ambiguousFailure(toInventoryApiError("reserve", status))
            <4>1. status \in TransportStatuses
                BY TransportAssumption
            <4> QED BY <4>1 DEF TransportStatuses, ambiguousFailure, toInventoryApiError, SHARED,
                                INVENTORY_UNAVAILABLE, INVENTORY_TIMEOUT, INTERNAL, Answer
        <3> QED BY <1>1, <2>1, <3>1 DEF ReserveFails, Return, TypeOK
    <2>2. CASE ReleaseFails(r, status) \/ CancelReleaseFails(r, status)
        BY <1>1, <2>2 DEF ReleaseFails, CancelReleaseFails, Rejected, Close, TypeOK, Handler,
                          Holding
    <2> QED BY <2>1, <2>2
<1>8. Settles(r)'
    <2>1. rpc'[r] = "none"
        BY <1>1, <1>2 DEF TypeOK
    <2> QED BY <1>7, <2>1 DEF Settles, Refused, Replies
<1> QED BY <1>2, <1>3, <1>4, <1>5, <1>6, <1>8, HandlerSettles

-----------------------------------------------------------------------------
(* Inventory and the process *)

\* A refused reservation found no stock taken for its order id: the ledger and the key
\* agree on the items, so a repeated one is answered OK.
LEMMA Refusing ==
    ASSUME IInv, NEW k \in OrderIds, NEW items, NEW status \in Replies \ {"OK"},
           key[k].state # "ABSENT", items = key[k].body.items, ReserveCall(k, items, status)
    PROVE  ledger' = ledger /\ ledger[k].status \in {"NONE", "RELEASED"}
<1>1. Record(k) /\ ledger[k].status \in {"NONE", "RESERVED", "RELEASED"}
    BY DEF IInv, Records, TypeOK, LedgerTypeOK
<1>2. ledger[k].status = "RESERVED" => ReserveStatus(k, items) = "OK"
    BY <1>1 DEF Record, ReserveStatus
<1> QED BY <1>1, <1>2 DEF ReserveCall, inventoryVars, ledgerVars

LEMMA ExecuteSettles ==
    ASSUME IInv, OInv, NEW k \in OrderIds, NEW i \in DOMAIN wire[k],
           Execute(k, i) \/ Lose(k, i)
    PROVE  OInv'
<1> DEFINE call == wire[k][i]
<1>1. TypeOK /\ \A q \in Requests : Handler(q) /\ Settles(q)
    BY DEF IInv, Handlers, OInv
<1>2. /\ call \in Call /\ Justified(k, call) /\ Awaited(k, call)
      /\ call.from # Nobody => call.from \in Requests
      /\ wire[k] \in Seq(Call) /\ OneCaller(wire[k])
    BY CallOnItsWay
<1>3. PICK status \in Replies :
        /\ wire' = [wire EXCEPT ![k] = RemoveAt(@, i)]
        /\ UNCHANGED salesVars
        /\ rpc' = IF call.from = Nobody THEN rpc ELSE [rpc EXCEPT ![call.from] = status]
        /\ overtaken \subseteq overtaken'
        /\ call.op = "reserve" /\ status # "OK" /\ Overtakes(k, i) /\ call.from # Nobody =>
               k \in overtaken'
        /\ \/ UNCHANGED ledgerVars /\ call.from = Nobody
           \/ call.op = "reserve" /\ ReserveCall(k, call.items, status)
           \/ call.op = "release" /\ ReleaseCall(k, status)
    <2>1. CASE Execute(k, i)
        BY <2>1 DEF Execute
    <2>2. CASE Lose(k, i)
        BY <2>2 DEF Lose, Replies, inventoryVars
    <2> QED BY <2>1, <2>2
<1>4. UNCHANGED <<key, pc, req, holds, write, owes>>
    BY <1>3 DEF salesVars
<1>5. /\ \A o \in OrderIds \ {k} : ledger'[o] = ledger[o] /\ wire'[o] = wire[o]
      /\ wire'[k] = RemoveAt(wire[k], i)
      /\ \/ ledger'[k] = ledger[k]
         \/ call.op = "reserve" /\ ledger[k].status = "NONE" /\ ledger'[k].status = "RESERVED"
         \/ call.op = "release" /\ ledger[k].status = "RESERVED" /\ ledger'[k].status = "RELEASED"
      /\ status = "OK" /\ call.op = "release" /\ call.from # Nobody =>
             ledger'[k].status = "RELEASED"
    <2>1. CASE UNCHANGED ledgerVars /\ call.from = Nobody
        BY <1>1, <1>3, <2>1 DEF TypeOK, inventoryVars, ledgerVars
    <2>2. CASE \/ call.op = "reserve" /\ ReserveCall(k, call.items, status)
               \/ call.op = "release" /\ ReleaseCall(k, status)
        <3>1. /\ \A o \in OrderIds \ {k} : ledger'[o] = ledger[o]
              /\ \/ ledger'[k] = ledger[k]
                 \/ /\ call.op = "reserve" /\ ledger[k].status = "NONE"
                    /\ ledger'[k].status = "RESERVED" /\ ledger'[k].items = call.items
                 \/ /\ call.op = "release" /\ ledger[k].status = "RESERVED"
                    /\ ledger'[k].status = "RELEASED" /\ ledger'[k].items = ledger[k].items
              /\ status = "OK" => /\ ledger'[k].status # "NONE"
                                  /\ call.op = "release" => ledger'[k].status = "RELEASED"
            BY <1>2, <2>2, Executing
        <3> QED BY <1>1, <1>3, <3>1 DEF TypeOK
    <2> QED BY <1>3, <2>1, <2>2
<1> HIDE DEF call
<1>6. /\ ReserveComing(k)' => ReserveComing(k)
      /\ i = Len(wire[k]) /\ ~Overtakes(k, i) => ~ReserveComing(k)'
      /\ \A q : wire[k] # <<>> /\ wire[k][Len(wire[k])].from = q /\ wire[k][i].from # q =>
                    wire'[k] # <<>> /\ wire'[k][Len(wire'[k])].from = q
    BY <1>5, AfterRemoval
<1>7. call.op = "reserve" => ReserveComing(k)
    BY DEF call, ReserveComing
<1>8. ASSUME NEW o \in OrderIds
      PROVE  /\ ReserveComing(o)' => ReserveComing(o)
             /\ ledger[o].status = "RELEASED" => ledger'[o].status = "RELEASED"
             /\ Drained(o) => Drained(o)'
             /\ ledger'[o].status # "NONE" => ledger[o].status # "NONE" \/ ReserveComing(o)
    <2>1. CASE o = k
        BY <1>3, <1>5, <1>6, <1>7, <2>1 DEF Drained
    <2>2. CASE o # k
        BY <1>3, <1>5, <2>2 DEF Drained, ReserveComing
    <2> QED BY <2>1, <2>2
<1>9. ASSUME NEW o \in OrderIds PROVE Accounted(o)'
    <2>1. Accounted(o)
        BY DEF OInv
    <2> QED BY <1>4, <1>8, <2>1 DEF Accounted
<1>10. ASSUME NEW q \in Requests, q # call.from PROVE Settles(q)'
    <2>1. rpc'[q] = rpc[q] /\ Settles(q)
        BY <1>1, <1>2, <1>3, <1>10 DEF TypeOK
    <2>2. CASE pc[q] \in {"idle", "done"}
        BY <1>1, <1>4, <2>2 DEF Settles, Refused, Handler, Holding
    <2>3. CASE pc[q] \notin {"idle", "done"}
        <3>1. req[q].id \in OrderIds
            BY <2>3, BusyHandler
        <3>2. LastIsOwn(q) => LastIsOwn(q)'
            BY <1>4, <1>5, <1>6, <1>10, <3>1 DEF LastIsOwn, call
        <3>3. Drained(req[q].id) => Drained(req[q].id)'
            BY <1>4, <1>8, <3>1 DEF Drained, ReserveComing
        <3> QED BY <1>4, <1>8, <2>1, <3>1, <3>2, <3>3 DEF Settles, Refused
    <2> QED BY <2>2, <2>3
<1>11. ASSUME NEW q \in Requests, q = call.from PROVE Settles(q)'
    <2>1. /\ rpc[q] = "sent" /\ req[q].id = k /\ call.from # Nobody
          /\ call.op = IF pc[q] = "reserve" THEN "reserve" ELSE "release"
        BY <1>2, <1>11, NobodyAssumption DEF Awaited
    <2>2. rpc'[q] = status /\ status # "sent"
        BY <1>1, <1>3, <1>11, <2>1 DEF TypeOK, Replies
    <2>3. write[q] = "nothing"
        BY <1>1, <2>1 DEF Handler, Writing, Waiting
    <2>4. ASSUME holds[q], pc[q] = "reserve", status # "OK" PROVE Drained(k)'
        <3>1. ledger' = ledger /\ ledger[k].status \in {"NONE", "RELEASED"}
            BY <1>2, <1>3, <2>1, <2>4, Refusing DEF Justified
        <3>2. Len(wire[k]) \in DOMAIN wire[k] /\ wire[k][Len(wire[k])].from = q
            <4>1. LastIsOwn(q)
                BY <1>1, <2>1, <2>4 DEF Settles
            <4> QED BY <1>2, <2>1, <4>1, EmptySeq, LenProperties DEF LastIsOwn
        <3>3. i = Len(wire[k])
            BY <1>2, <1>3, <1>11, <2>1, <3>2 DEF OneCaller, call
        <3>4. Overtakes(k, i) => k \in overtaken'
            BY <1>3, <2>1, <2>4
        <3> QED BY <1>6, <3>1, <3>3, <3>4 DEF Drained
    <2>5. Refused(q)' => Drained(req[q].id)'
        BY <1>4, <2>1, <2>2, <2>3, <2>4 DEF Refused, Drained, ReserveComing
    <2> QED BY <1>4, <1>5, <2>1, <2>2, <2>5 DEF Settles
<1> QED BY <1>9, <1>10, <1>11 DEF OInv

LEMMA CrashSettles ==
    ASSUME IInv, OInv, Crash
    PROVE  OInv'
<1>1. /\ UNCHANGED <<ledger, overtaken, key>>
      /\ \A r \in Requests : ~holds'[r] /\ rpc'[r] = "none"
      /\ \A k \in OrderIds : wire'[k] = Orphaned(wire[k], Requests)
    BY DEF Crash, inventoryVars, ledgerVars
<1>2. \A r \in Requests : Settles(r)'
    BY <1>1 DEF Settles, Refused
<1>3. ASSUME NEW k \in OrderIds PROVE Accounted(k)'
    <2>1. Accounted(k) /\ (ReserveComing(k)' => ReserveComing(k))
        BY <1>1, AfterOrphaning DEF OInv
    <2> QED BY <1>1, <2>1 DEF Accounted, Drained
<1> QED BY <1>2, <1>3 DEF OInv

LEMMA InitSettles == Init => OInv
<1> SUFFICES ASSUME Init PROVE OInv
    OBVIOUS
<1>1. \A r \in Requests : Settles(r)
    BY DEF Init, Settles, Refused
<1>2. \A k \in OrderIds : Accounted(k)
    BY DEF Init, LedgerInit, NoOperation, Absent, Accounted, ReserveComing
<1> QED BY <1>1, <1>2 DEF OInv

LEMMA NextSettles == IInv /\ OInv /\ [Next]_vars => OInv'
<1> SUFFICES ASSUME IInv, OInv, [Next]_vars PROVE OInv'
    OBVIOUS
<1>1. ASSUME NEW r \in Requests, NEW status \in Replies \cup TransportFailures,
             ReserveFails(r, status) \/ ReleaseFails(r, status) \/ CancelReleaseFails(r, status)
      PROVE  OInv'
    <2>1. CallFails(r, status)
        BY <1>1 DEF ReserveFails, ReleaseFails, CancelReleaseFails
    <2>2. CASE Answered(r) /\ rpc[r] # "OK"
        BY <1>1, <2>2, AnswerSettles
    <2>3. CASE GivesUp(r) /\ status \in TransportFailures
        BY <1>1, <2>3, GivingUpSettles
    <2> QED BY <2>1, <2>2, <2>3 DEF CallFails
<1>2. ASSUME NEW r \in Requests, Handle(r) PROVE OInv'
    BY <1>1, <1>2, FreeSettles, EnterSettles, SendSettles, AnswerSettles DEF Handle
<1>3. ASSUME NEW r \in Requests,
             \/ Retry(r) \/ Expire(r) \/ \E request \in Creates \cup Cancels : Arrive(r, request)
             \/ TransactionFails(r) \/ CommitAckLost(r) \/ CancelPersistFails(r)
      PROVE  OInv'
    BY <1>3, FreeSettles, ExpireSettles
<1>4. ASSUME NEW k \in OrderIds, NEW i \in DOMAIN wire[k], Execute(k, i) \/ Lose(k, i)
      PROVE  OInv'
    BY <1>4, ExecuteSettles
<1>5. CASE UNCHANGED vars
    BY <1>5 DEF vars, OInv, Settles, Refused, LastIsOwn, Accounted, Drained, ReserveComing
<1> QED BY <1>2, <1>3, <1>4, <1>5, CrashSettles DEF Next

\* No stock is held for a key that failed, in whatever order the calls for one order id
\* take effect: an order accounts for it, or a retry of the key can still settle it.  The
\* only exception is an order id whose reserve was refused ahead of an earlier one.
THEOREM NothingOrphaned == Spec => []NoOrphanReservation
<1>1. IInv /\ OInv => NoOrphanReservation
    <2> SUFFICES ASSUME IInv, OInv, NEW k \in OrderIds, ledger[k].status = "RESERVED",
                        k \notin overtaken
                 PROVE  key[k].state \in {"IN_PROGRESS", "COMPENSATING", "CONFIRMED"}
        BY DEF NoOrphanReservation
    <2>1. Record(k) /\ Accounted(k) /\ key[k].state \in KeyStates
        BY DEF IInv, Records, TypeOK, OInv
    <2> QED BY <2>1 DEF Record, Accounted, Drained, KeyStates
<1>2. IInv /\ OInv /\ [Next]_vars => OInv'
    BY NextSettles
<1>3. Spec => []OInv
    BY <1>2, InitSettles, Invariance, PTL DEF Spec
<1> QED BY <1>1, <1>3, Invariance, PTL
=============================================================================
