---------------------------- MODULE ConnectionPool ---------------------------
(***************************************************************************)
(* Time and connections in create and its recovery (orders.service.ts).    *)
(* Every transaction takes a connection of Sales' pool, waits with it for  *)
(* the row of its Idempotency-Key and calls Inventory while it holds both. *)
(* What the transactions decide is OrdersService.                          *)
(*                                                                         *)
(* Time is discrete; the database's own work takes none.  The pool and the *)
(* row locks are first come, first served.                                 *)
(***************************************************************************)
EXTENDS Integers, Sequences, FiniteSets

CONSTANTS
    Requests, Keys,
    Key,                        \* the Idempotency-Key of each request
    Connections,                \* of the pool: 10, the default of pg
    inventoryRpcDeadline,       \* 800 ms by default
    Margin,                     \* what `timeout' adds to it: 10 s
    connectionTimeout           \* connectionTimeoutMillis: 2 s

ASSUME PoolAssumption ==
    /\ IsFiniteSet(Requests)
    /\ Key \in [Requests -> Keys]
    /\ Connections \in Nat \ {0}
    /\ inventoryRpcDeadline \in Nat
    /\ Margin \in Nat
    /\ connectionTimeout \in Nat

\* With the defaults, 9 * 800 ms < 10 s; a deadline may be set for which it is not so.
ASSUME MarginAssumption == (Connections - 1) * inventoryRpcDeadline < Margin

VARIABLES
    phase,      \* per request: "new", "claim", "create", "prepare", "compensate", "done"
    at,         \* per request: "out", "queue", "row" or "call"
    clock,      \* per request: ticks in the queue, or of its transaction
    call,       \* per request: ticks of its Inventory call
    queue,      \* requests waiting for a connection
    rows,       \* per key: the holder of its row lock, and those who wait for it
    idle,       \* connections in nobody's hands
    stalled     \* ticks without a connection given or freed, while requests wait

vars == <<phase, at, clock, call, queue, rows, idle, stalled>>

FixedTimeout == Margin      \* mutant: the transaction's timeout ignores the deadline
timeout == inventoryRpcDeadline + Margin

Init ==
    /\ phase = [r \in Requests |-> "new"]
    /\ at = [r \in Requests |-> "out"]
    /\ clock = [r \in Requests |-> 0]
    /\ call = [r \in Requests |-> 0]
    /\ queue = <<>>
    /\ rows = [k \in Keys |-> <<>>]
    /\ idle = Connections
    /\ stalled = 0

-----------------------------------------------------------------------------
(* The pool *)

\* r asks for a connection for its next statement or transaction.
Ask(r, p, others) ==
    /\ phase' = [phase EXCEPT ![r] = p]
    /\ at' = [at EXCEPT ![r] = "queue"]
    /\ clock' = [clock EXCEPT ![r] = 0]
    /\ queue' = Append(others, r)

Done(r, others) ==
    /\ phase' = [phase EXCEPT ![r] = "done"]
    /\ at' = [at EXCEPT ![r] = "out"]
    /\ clock' = [clock EXCEPT ![r] = 0]
    /\ queue' = others

Arrive(r) ==
    /\ phase[r] = "new"
    /\ Ask(r, "claim", queue)
    /\ UNCHANGED <<call, rows, idle, stalled>>

CanConnect == queue # <<>> /\ idle > 0

\* The INSERT of the claim has its connection for no time.
Claim(r) ==
    /\ CanConnect
    /\ r = Head(queue)
    /\ phase[r] = "claim"
    /\ Ask(r, "create", Tail(queue))
    /\ stalled' = 0
    /\ UNCHANGED <<call, rows, idle>>

\* A transaction begins, and asks for the row FOR UPDATE.
Begin(r) ==
    /\ CanConnect
    /\ r = Head(queue)
    /\ phase[r] # "claim"
    /\ at' = [at EXCEPT ![r] = "row"]
    /\ clock' = [clock EXCEPT ![r] = 0]
    /\ queue' = Tail(queue)
    /\ rows' = [rows EXCEPT ![Key[r]] = Append(@, r)]
    /\ idle' = idle - 1
    /\ stalled' = 0
    /\ UNCHANGED <<phase, call>>

\* No connection in time: the request fails, and a recovery with it.
ConnectTimeout(r) ==
    /\ queue # <<>>
    /\ r = Head(queue)
    /\ clock[r] = connectionTimeout
    /\ Done(r, Tail(queue))
    /\ stalled' = IF Tail(queue) = <<>> THEN 0 ELSE stalled
    /\ UNCHANGED <<call, rows, idle>>

-----------------------------------------------------------------------------
(* The transactions *)

HasRow(r) == rows[Key[r]] # <<>> /\ r = Head(rows[Key[r]])
CanWork(r) == at[r] = "row" /\ HasRow(r)

Calls(r) ==
    /\ CanWork(r)
    /\ phase[r] \in {"create", "compensate"}
    /\ at' = [at EXCEPT ![r] = "call"]
    /\ call' = [call EXCEPT ![r] = 0]
    /\ UNCHANGED <<phase, clock, queue, rows, idle, stalled>>

\* Commit or rollback: the row and the connection are given back.
End(r) ==
    /\ rows' = [rows EXCEPT ![Key[r]] = Tail(@)]
    /\ call' = [call EXCEPT ![r] = 0]
    /\ idle' = idle + 1
    /\ stalled' = 0

EndsWithoutCall(r) == CanWork(r) /\ Done(r, queue) /\ End(r)

\* The call has an answer, at the latest that its deadline is over.
EndsAfterCall(r) == at[r] = "call" /\ Done(r, queue) /\ End(r)

RecoverInside(r) ==     \* mutant: the recovery starts before the transaction ends
    /\ at[r] = "call"
    /\ phase[r] = "create"
    /\ Ask(r, "prepare", queue)
    /\ UNCHANGED <<call, rows, idle, stalled>>

\* Reserved, and then the transaction fails: recoverFailedCreate.
Recover(r) ==
    /\ at[r] = "call"
    /\ phase[r] = "create"
    /\ Ask(r, "prepare", queue)
    /\ End(r)

Prepare(r) ==
    /\ CanWork(r)
    /\ phase[r] = "prepare"
    /\ Ask(r, "compensate", queue)
    /\ End(r)

-----------------------------------------------------------------------------
(* Time *)

DeadlineDue == \E r \in Requests : at[r] = "call" /\ call[r] = inventoryRpcDeadline

\* What is due, or takes no time, happens before time goes on.
Tick ==
    /\ ~CanConnect
    /\ \A r \in Requests : ~CanWork(r)
    /\ ~DeadlineDue
    /\ queue # <<>> => clock[Head(queue)] < connectionTimeout
    /\ clock' = [r \in Requests |->
           IF at[r] = "out" \/ clock[r] > timeout + connectionTimeout THEN clock[r] ELSE clock[r] + 1]
    /\ call' = [r \in Requests |->
           IF at[r] = "call" /\ call[r] <= inventoryRpcDeadline THEN call[r] + 1 ELSE call[r]]
    /\ stalled' = IF queue = <<>> \/ stalled > inventoryRpcDeadline THEN stalled ELSE stalled + 1
    /\ UNCHANGED <<phase, at, queue, rows, idle>>

Next ==
    \/ \E r \in Requests :
           \/ Arrive(r) \/ Claim(r) \/ Begin(r) \/ ConnectTimeout(r)
           \/ Calls(r) \/ EndsWithoutCall(r) \/ EndsAfterCall(r) \/ Recover(r) \/ Prepare(r)
    \/ Tick

Spec == Init /\ [][Next]_vars

-----------------------------------------------------------------------------
(* Properties *)

Holders == {r \in Requests : at[r] \in {"row", "call"}}

TypeOK ==
    /\ phase \in [Requests -> {"new", "claim", "create", "prepare", "compensate", "done"}]
    /\ at \in [Requests -> {"out", "queue", "row", "call"}]
    /\ clock \in [Requests -> Nat]
    /\ call \in [Requests -> Nat]
    /\ queue \in Seq(Requests)
    /\ rows \in [Keys -> Seq(Requests)]
    /\ idle \in 0..Connections
    /\ stalled \in Nat

\* However many requests repeat a key, the pool moves: while requests wait for a
\* connection, one is given or freed within the deadline of one call, because nobody
\* asks for a second connection while it holds one (orders.service.ts:218-316).
PoolMoves == stalled <= inventoryRpcDeadline

\* And no transaction runs into its timeout by waiting for the others on its key:
\* no more of them wait than there are connections (orders.service.ts:306-310).
NeverExpires == \A r \in Holders : clock[r] < timeout
=============================================================================
