---------------------------- MODULE OrdersService ----------------------------
(***************************************************************************)
(* apps/sales-api/src/orders/orders.service.ts: POST /v1/orders under an   *)
(* Idempotency-Key and POST /v1/orders/{id}/cancel, against an Inventory   *)
(* that acts as InventoryLedger does.                                      *)
(*                                                                         *)
(* A create claims its key, then works in one interactive transaction that *)
(* holds the key's row FOR UPDATE while Inventory is called.  If that      *)
(* transaction fails after a reservation succeeded, recoverFailedCreate    *)
(* runs two more: one makes COMPENSATING durable, one releases the stock.  *)
(* A cancel releases first and marks the order in a transaction after it.  *)
(*                                                                         *)
(* Requests to Inventory are messages: one that is given up on (deadline)  *)
(* or orphaned (process death) stays on its way and may still be executed. *)
(*                                                                         *)
(* Faults, each counted against MaxFaults: a transaction that fails, one   *)
(* that expires while Inventory is called (its row lock is then free), a   *)
(* commit or a cancel whose acknowledgement is lost, a call that ends in a *)
(* transport failure, and the death of the process.                        *)
(***************************************************************************)
EXTENDS InventoryLedger, ErrorMapping, Sequences, SequencesExt

CONSTANTS
    Requests,           \* REST requests that may be in progress together
    Bodies,             \* create bodies: [customer, items]
    KnownCustomers,     \* ids in the customers table
    TransportFailures,  \* statuses a failed call may end with
    MaxFaults           \* bound: faults in a behaviour

ASSUME BodyAssumption == \A body \in Bodies : body.items \in Payloads
ASSUME TransportAssumption == TransportFailures \subseteq TransportStatuses
ASSUME OrdersConstants == MaxFaults \in Nat

\* The order id is drawn when the key is claimed and never changes, so a key
\* and its order id are one value of OrderIds.
VARIABLES
    key,        \* idempotency_requests, per key: state, body (request_hash), response
    order,      \* orders.status, per order id; "NONE" while there is no row
    wire,       \* calls on their way to Inventory, per order id, in the order sent
    pc,         \* per request: where its handler is
    req,        \* per request: what the client asked
    holds,      \* per request: its open transaction holds the key's row
    write,      \* per request: the state its transaction will commit for the key
    outcome,    \* per request: the answer its transaction returned
    owes,       \* per request: reservationSucceeded, and no recovery started yet
    rpc,        \* per request: "none", "sent", or the status its call ended with
    answer,     \* per request: the HTTP answer
    faults,
    overtaken   \* history: order ids for which Inventory refused a reserve while an earlier
                \* reserve was still on its way (only the properties read it)

salesVars == <<key, order, pc, req, holds, write, outcome, owes, answer>>
inventoryVars == <<ledgerVars, overtaken>>
vars == <<stock, ledger, key, order, wire, pc, req, holds, write, outcome, owes, rpc,
          answer, faults, overtaken>>

-----------------------------------------------------------------------------
(* Values *)

NoBody == [customer |-> "none", items |-> NoItems]
NoRequest == [op |-> "none", id |-> "none", body |-> NoBody]
Unanswered == Answer(0, "none")
Created == Answer(201, "CONFIRMED")
Cancelled == Answer(200, "CANCELLED")
CUSTOMER_NOT_FOUND == Answer(404, "CUSTOMER_NOT_FOUND")
ORDER_NOT_FOUND == Answer(404, "ORDER_NOT_FOUND")
KEY_CONFLICT == Answer(409, "IDEMPOTENCY_KEY_CONFLICT")

Absent == [state |-> "ABSENT", body |-> NoBody, response |-> Unanswered]
Nobody == "nobody"
ASSUME NobodyAssumption == Nobody \notin Requests

Answers == {Unanswered, Created, Cancelled, CUSTOMER_NOT_FOUND, ORDER_NOT_FOUND, KEY_CONFLICT,
            INTERNAL, PART_NOT_FOUND, INSUFFICIENT_STOCK, INVENTORY_UNAVAILABLE,
            INVENTORY_TIMEOUT}

KeyStates == {"ABSENT", "IN_PROGRESS", "COMPENSATING", "CONFIRMED", "FAILED"}

\* Where a handler is: in create (claim, then its transaction: lock, reserve or
\* release, commit), in recoverFailedCreate (relock, prepared, relock2, then
\* release and commit), in cancel (cancelRead, cancelRelease, cancelPersist).
Places == {"idle", "claim", "lock", "reserve", "release", "commit",
           "relock", "prepared", "relock2",
           "cancelRead", "cancelRelease", "cancelPersist", "done"}

Replies == {"OK", "ALREADY_EXISTS", "FAILED_PRECONDITION", "NOT_FOUND"}

TypeOK ==
    /\ LedgerTypeOK
    /\ key \in [OrderIds -> [state : KeyStates, body : Bodies \cup {NoBody},
                             response : Answers]]
    /\ order \in [OrderIds -> {"NONE", "CONFIRMED", "CANCELLED"}]
    /\ wire \in [OrderIds -> Seq([from : Requests \cup {Nobody}, op : {"reserve", "release"},
                                  items : Payloads \cup {NoItems}])]
    /\ pc \in [Requests -> Places]
    /\ req \in [Requests -> [op : {"create", "cancel"}, id : OrderIds,
                             body : Bodies \cup {NoBody}] \cup {NoRequest}]
    /\ holds \in [Requests -> BOOLEAN]
    /\ write \in [Requests -> {"nothing", "COMPENSATING", "CONFIRMED", "FAILED"}]
    /\ outcome \in [Requests -> Answers]
    /\ owes \in [Requests -> BOOLEAN]
    /\ rpc \in [Requests -> {"none", "sent"} \cup Replies]
    /\ answer \in [Requests -> Answers]
    /\ faults \in 0..MaxFaults
    /\ overtaken \in SUBSET OrderIds

Init ==
    /\ LedgerInit
    /\ key = [k \in OrderIds |-> Absent]
    /\ order = [k \in OrderIds |-> "NONE"]
    /\ wire = [k \in OrderIds |-> <<>>]
    /\ pc = [r \in Requests |-> "idle"]
    /\ req = [r \in Requests |-> NoRequest]
    /\ holds = [r \in Requests |-> FALSE]
    /\ write = [r \in Requests |-> "nothing"]
    /\ outcome = [r \in Requests |-> Unanswered]
    /\ owes = [r \in Requests |-> FALSE]
    /\ rpc = [r \in Requests |-> "none"]
    /\ answer = [r \in Requests |-> Unanswered]
    /\ faults = 0
    /\ overtaken = {}

-----------------------------------------------------------------------------
(* Calls to Inventory *)

Send(r, op, items) ==
    /\ wire' = [wire EXCEPT ![req[r].id] = Append(@, [from |-> r, op |-> op, items |-> items])]
    /\ rpc' = [rpc EXCEPT ![r] = "sent"]

\* An earlier reserve of this order id is still on its way.
Overtakes(k, i) == \E j \in 1..(i - 1) : wire[k][j].op = "reserve"

\* Inventory executes a call; a caller that still waits is answered.  Nothing keeps
\* the calls for one order id in order: one that was given up on may arrive, or get
\* the advisory lock, after the call that repeats it.
Execute(k, i) ==
    /\ i \in DOMAIN wire[k]
    /\ LET call == wire[k][i]
       IN  \E status \in Replies :
              /\ \/ call.op = "reserve" /\ ReserveCall(k, call.items, status)
                 \/ call.op = "release" /\ ReleaseCall(k, status)
              /\ rpc' = IF call.from = Nobody THEN rpc ELSE [rpc EXCEPT ![call.from] = status]
              /\ overtaken' = IF call.op = "reserve" /\ status # "OK" /\ Overtakes(k, i)
                              THEN overtaken \cup {k} ELSE overtaken
    /\ wire' = [wire EXCEPT ![k] = RemoveAt(@, i)]
    /\ UNCHANGED <<salesVars, faults>>

\* A call nobody waits for never arrives.
Lose(k, i) ==
    /\ i \in DOMAIN wire[k]
    /\ wire[k][i].from = Nobody
    /\ wire' = [wire EXCEPT ![k] = RemoveAt(@, i)]
    /\ UNCHANGED <<inventoryVars, salesVars, rpc, faults>>

Orphaned(calls, callers) ==
    [i \in DOMAIN calls |-> IF calls[i].from \in callers THEN [calls[i] EXCEPT !.from = Nobody]
                                                          ELSE calls[i]]

Answered(r) == rpc[r] \in Replies /\ rpc' = [rpc EXCEPT ![r] = "none"] /\ UNCHANGED <<wire, faults>>

\* Deadline passed, connection lost or Inventory failed: whatever became of the
\* call, and even when it was executed, the caller sees a transport failure.
GivesUp(r) ==
    /\ rpc[r] # "none"
    /\ faults < MaxFaults
    /\ faults' = faults + 1
    /\ rpc' = [rpc EXCEPT ![r] = "none"]
    /\ wire' = [wire EXCEPT ![req[r].id] = Orphaned(@, {r})]

\* The call of r ends with this failure status.
CallFails(r, status) ==
    \/ status = rpc[r] /\ status # "OK" /\ Answered(r)
    \/ status \in TransportFailures /\ GivesUp(r)

-----------------------------------------------------------------------------
(* Transactions on the key's row *)

Entry(r) == key[req[r].id]
RowFree(r) == \A q \in Requests \ {r} : ~(holds[q] /\ req[q].id = req[r].id)

GoTo(r, place) == pc' = [pc EXCEPT ![r] = place]
Finish(r, result) == GoTo(r, "done") /\ answer' = [answer EXCEPT ![r] = result]

\* The callback returns this result; state is what the commit will write.
Return(r, state, result) ==
    /\ write' = [write EXCEPT ![r] = state]
    /\ outcome' = [outcome EXCEPT ![r] = result]

Settled(entry) == entry.state \in {"CONFIRMED", "FAILED"}
StoredAnswer(entry) == IF entry.state = "CONFIRMED" THEN Created ELSE entry.response

PublishOrderOnly(r) ==      \* mutant: the key is not updated with the order
    /\ key' = IF write[r] \in {"nothing", "CONFIRMED"} THEN key
              ELSE [key EXCEPT ![req[r].id].state = write[r], ![req[r].id].response = outcome[r]]
    /\ order' = IF write[r] = "CONFIRMED" THEN [order EXCEPT ![req[r].id] = "CONFIRMED"]
                                          ELSE order

Publish(r) ==
    /\ key' = IF write[r] = "nothing" THEN key
              ELSE [key EXCEPT ![req[r].id].state = write[r], ![req[r].id].response = outcome[r]]
    /\ order' = IF write[r] = "CONFIRMED" THEN [order EXCEPT ![req[r].id] = "CONFIRMED"]
                                          ELSE order

Close(r) ==
    /\ holds' = [holds EXCEPT ![r] = FALSE]
    /\ Return(r, "nothing", Unanswered)

\* $transaction rejects: create's catch starts the recovery if it owes one;
\* an error of the recovery itself, or of anything earlier, is a 500.
Rejected(r) ==
    /\ Close(r)
    /\ owes' = [owes EXCEPT ![r] = FALSE]
    /\ IF owes[r] THEN GoTo(r, "relock") /\ UNCHANGED answer
                  ELSE Finish(r, INTERNAL)

\* No connection, a lock waited for too long, or a rollback.  (A claim whose
\* acknowledgement is lost is one that fails in "lock".)
TransactionFails(r) ==
    /\ pc[r] \in {"claim", "lock", "commit", "relock", "prepared", "relock2"}
    /\ faults < MaxFaults
    /\ faults' = faults + 1
    /\ Rejected(r)
    /\ UNCHANGED <<inventoryVars, key, order, wire, req, rpc>>

\* The transaction times out during a call: its lock is free and its writes are
\* gone, but the handler goes on waiting for Inventory.
Expire(r) ==
    /\ pc[r] \in {"reserve", "release"}
    /\ holds[r]
    /\ faults < MaxFaults
    /\ faults' = faults + 1
    /\ holds' = [holds EXCEPT ![r] = FALSE]
    /\ UNCHANGED <<inventoryVars, key, order, wire, pc, req, write, outcome, owes, rpc, answer>>

\* The statement after a call finds its transaction expired.
FindsExpired(r) ==
    /\ pc[r] = "commit"
    /\ ~holds[r]
    /\ Rejected(r)
    /\ UNCHANGED <<inventoryVars, key, order, wire, req, rpc, faults>>

Commit(r) ==
    /\ pc[r] = "commit"
    /\ holds[r]
    /\ Publish(r)
    /\ Close(r)
    /\ owes' = [owes EXCEPT ![r] = FALSE]
    /\ Finish(r, outcome[r])
    /\ UNCHANGED <<inventoryVars, wire, req, rpc, faults>>

CommitAckLost(r) ==
    /\ pc[r] \in {"commit", "prepared"}
    /\ holds[r]
    /\ faults < MaxFaults
    /\ faults' = faults + 1
    /\ Publish(r)
    /\ Rejected(r)
    /\ UNCHANGED <<inventoryVars, wire, req, rpc>>

-----------------------------------------------------------------------------
(* create *)

Overwrite(r) ==         \* mutant: an upsert
    /\ pc[r] = "claim"
    /\ key' = [key EXCEPT ![req[r].id] = [state |-> "IN_PROGRESS", body |-> req[r].body,
                                          response |-> Unanswered]]
    /\ GoTo(r, "lock")
    /\ UNCHANGED <<inventoryVars, order, wire, req, holds, write, outcome, owes, rpc, answer, faults>>

\* The claim is a statement of its own; an existing key is left alone.
Claim(r) ==
    /\ pc[r] = "claim"
    /\ key' = IF Entry(r).state # "ABSENT" THEN key
              ELSE [key EXCEPT ![req[r].id] = [state |-> "IN_PROGRESS", body |-> req[r].body,
                                               response |-> Unanswered]]
    /\ GoTo(r, "lock")
    /\ UNCHANGED <<inventoryVars, order, wire, req, holds, write, outcome, owes, rpc, answer, faults>>

\* SELECT ... FOR UPDATE on the key's row, then the entry is read.
Enter(r) ==
    /\ pc[r] = "lock"
    /\ RowFree(r)
    /\ holds' = [holds EXCEPT ![r] = TRUE]
    /\ UNCHANGED <<inventoryVars, key, order, req, owes, answer, faults>>

AnyBody(r) == TRUE      \* mutant: the hash is not compared
SameBody(r) == Entry(r).body = req[r].body

EnterConflict(r) ==
    /\ Enter(r)
    /\ ~SameBody(r)
    /\ Return(r, "nothing", KEY_CONFLICT)
    /\ GoTo(r, "commit")
    /\ UNCHANGED <<wire, rpc>>

EnterSettled(r) ==
    /\ Enter(r)
    /\ SameBody(r) /\ Settled(Entry(r))
    /\ Return(r, "nothing", StoredAnswer(Entry(r)))
    /\ GoTo(r, "commit")
    /\ UNCHANGED <<wire, rpc>>

ReplayCompensating(r) ==    \* mutant: a key in compensation answered as a failed one
    /\ Enter(r)
    /\ SameBody(r) /\ Entry(r).state = "COMPENSATING"
    /\ Return(r, "nothing", Entry(r).response)
    /\ GoTo(r, "commit")
    /\ UNCHANGED <<wire, rpc>>

EnterCompensating(r) ==
    /\ Enter(r)
    /\ SameBody(r) /\ Entry(r).state = "COMPENSATING"
    /\ Return(r, "nothing", Entry(r).response)
    /\ Send(r, "release", NoItems)
    /\ GoTo(r, "release")

EnterUnknownCustomer(r) ==
    /\ Enter(r)
    /\ SameBody(r) /\ Entry(r).state = "IN_PROGRESS"
    /\ req[r].body.customer \notin KnownCustomers
    /\ Return(r, "FAILED", CUSTOMER_NOT_FOUND)
    /\ GoTo(r, "commit")
    /\ UNCHANGED <<wire, rpc>>

EnterReserve(r) ==
    /\ Enter(r)
    /\ SameBody(r) /\ Entry(r).state = "IN_PROGRESS"
    /\ req[r].body.customer \in KnownCustomers
    /\ Send(r, "reserve", req[r].body.items)
    /\ GoTo(r, "reserve")
    /\ UNCHANGED <<write, outcome>>

Reserved(r) ==
    /\ pc[r] = "reserve"
    /\ rpc[r] = "OK" /\ Answered(r)
    /\ owes' = [owes EXCEPT ![r] = TRUE]
    /\ Return(r, "CONFIRMED", Created)
    /\ GoTo(r, "commit")
    /\ UNCHANGED <<inventoryVars, key, order, req, holds, answer>>

\* An ambiguous failure leaves the key IN_PROGRESS, any other settles it.
ReserveFails(r, status) ==
    /\ pc[r] = "reserve"
    /\ CallFails(r, status)
    /\ LET apiError == toInventoryApiError("reserve", status)
       IN  Return(r, IF ambiguousFailure(apiError) THEN "nothing" ELSE "FAILED", apiError)
    /\ GoTo(r, "commit")
    /\ UNCHANGED <<inventoryVars, key, order, req, holds, owes, answer>>

Released(r) ==
    /\ pc[r] = "release"
    /\ rpc[r] = "OK" /\ Answered(r)
    /\ Return(r, "FAILED", outcome[r])
    /\ GoTo(r, "commit")
    /\ UNCHANGED <<inventoryVars, key, order, req, holds, owes, answer>>

ReleaseFails(r, status) ==
    /\ pc[r] = "release"
    /\ CallFails(r, status)
    /\ Rejected(r)
    /\ UNCHANGED <<inventoryVars, key, order, req>>

-----------------------------------------------------------------------------
(* recoverFailedCreate *)

Reenter(r, place) ==
    /\ pc[r] = place
    /\ RowFree(r)
    /\ holds' = [holds EXCEPT ![r] = TRUE]
    /\ UNCHANGED <<inventoryVars, key, order, req, owes, answer, faults>>

RecoverSettled(r) ==
    /\ Reenter(r, "relock") \/ Reenter(r, "relock2")
    /\ Settled(Entry(r))
    /\ Return(r, "nothing", StoredAnswer(Entry(r)))
    /\ GoTo(r, "commit")
    /\ UNCHANGED <<wire, rpc>>

ReleaseBlindly(r) ==        \* mutant: the key is not read again before the release
    /\ Reenter(r, "relock")
    /\ Return(r, "nothing", INTERNAL)
    /\ Send(r, "release", NoItems)
    /\ GoTo(r, "release")

Prepare(r) ==
    /\ Reenter(r, "relock")
    /\ \/ /\ Entry(r).state = "IN_PROGRESS"
          /\ Return(r, "COMPENSATING", INTERNAL)
       \/ /\ Entry(r).state = "COMPENSATING"
          /\ Return(r, "nothing", Entry(r).response)
    /\ GoTo(r, "prepared")
    /\ UNCHANGED <<wire, rpc>>

CommitPrepared(r) ==
    /\ pc[r] = "prepared"
    /\ Publish(r)
    /\ Close(r)
    /\ GoTo(r, "relock2")
    /\ UNCHANGED <<inventoryVars, wire, req, owes, rpc, answer, faults>>

Compensate(r) ==
    /\ Reenter(r, "relock2")
    /\ Entry(r).state = "COMPENSATING"
    /\ Return(r, "nothing", Entry(r).response)
    /\ Send(r, "release", NoItems)
    /\ GoTo(r, "release")

-----------------------------------------------------------------------------
(* cancel *)

CancelWithoutWaiting(r) ==  \* mutant: the order is cancelled before the release is confirmed
    /\ pc[r] = "cancelRead"
    /\ order[req[r].id] = "CONFIRMED"
    /\ wire' = [wire EXCEPT ![req[r].id] =
                    Append(@, [from |-> Nobody, op |-> "release", items |-> NoItems])]
    /\ GoTo(r, "cancelPersist")
    /\ UNCHANGED <<inventoryVars, key, order, req, holds, write, outcome, owes, rpc, answer, faults>>

CancelRead(r) ==
    /\ pc[r] = "cancelRead"
    /\ \/ /\ order[req[r].id] = "NONE"
          /\ Finish(r, ORDER_NOT_FOUND)
          /\ UNCHANGED <<wire, rpc>>
       \/ /\ order[req[r].id] = "CANCELLED"
          /\ Finish(r, Cancelled)
          /\ UNCHANGED <<wire, rpc>>
       \/ /\ order[req[r].id] = "CONFIRMED"
          /\ Send(r, "release", NoItems)
          /\ GoTo(r, "cancelRelease")
          /\ UNCHANGED answer
    /\ UNCHANGED <<inventoryVars, key, order, req, holds, write, outcome, owes, faults>>

CancelReleased(r) ==
    /\ pc[r] = "cancelRelease"
    /\ rpc[r] = "OK" /\ Answered(r)
    /\ GoTo(r, "cancelPersist")
    /\ UNCHANGED <<inventoryVars, key, order, req, holds, write, outcome, owes, answer>>

CancelReleaseFails(r, status) ==
    /\ pc[r] = "cancelRelease"
    /\ CallFails(r, status)
    /\ Finish(r, toInventoryApiError("release", status))
    /\ UNCHANGED <<inventoryVars, key, order, req, holds, write, outcome, owes>>

\* The second transaction locks the order's row, reads it again and updates it:
\* one step, since nothing but cancels writes that row.
CancelPersist(r) ==
    /\ pc[r] = "cancelPersist"
    /\ order' = [order EXCEPT ![req[r].id] = "CANCELLED"]
    /\ Finish(r, Cancelled)
    /\ UNCHANGED <<inventoryVars, key, wire, req, holds, write, outcome, owes, rpc, faults>>

\* It fails, or its commit is not acknowledged.
CancelPersistFails(r) ==
    /\ pc[r] = "cancelPersist"
    /\ faults < MaxFaults
    /\ faults' = faults + 1
    /\ \/ UNCHANGED order
       \/ order' = [order EXCEPT ![req[r].id] = "CANCELLED"]
    /\ Finish(r, INTERNAL)
    /\ UNCHANGED <<inventoryVars, key, wire, req, holds, write, outcome, owes, rpc>>

-----------------------------------------------------------------------------
(* Clients and processes *)

Arrive(r, request) ==
    /\ pc[r] = "idle"
    /\ req' = [req EXCEPT ![r] = request]
    /\ GoTo(r, IF request.op = "create" THEN "claim" ELSE "cancelRead")
    /\ UNCHANGED <<inventoryVars, key, order, wire, holds, write, outcome, owes, rpc, answer, faults>>

Creates == [op : {"create"}, id : OrderIds, body : Bodies]
Cancels == [op : {"cancel"}, id : OrderIds, body : {NoBody}]

Definite(result) == result.http \in 200..499

\* The documented reaction of a client to a 5xx or to no answer.
Retry(r) ==
    /\ pc[r] = "done"
    /\ ~Definite(answer[r])
    /\ GoTo(r, IF req[r].op = "create" THEN "claim" ELSE "cancelRead")
    /\ answer' = [answer EXCEPT ![r] = Unanswered]
    /\ UNCHANGED <<inventoryVars, key, order, wire, req, holds, write, outcome, owes, rpc, faults>>

\* The Sales process dies: every handler is gone, open transactions roll back.
Crash ==
    /\ faults < MaxFaults
    /\ faults' = faults + 1
    /\ \E r \in Requests : pc[r] \notin {"idle", "done"}
    /\ pc' = [r \in Requests |-> IF pc[r] = "idle" THEN "idle" ELSE "done"]
    /\ holds' = [r \in Requests |-> FALSE]
    /\ write' = [r \in Requests |-> "nothing"]
    /\ outcome' = [r \in Requests |-> Unanswered]
    /\ owes' = [r \in Requests |-> FALSE]
    /\ rpc' = [r \in Requests |-> "none"]
    /\ wire' = [k \in OrderIds |-> Orphaned(wire[k], Requests)]
    /\ UNCHANGED <<inventoryVars, key, order, req, answer>>

Handle(r) ==
    \/ Claim(r) \/ Commit(r) \/ FindsExpired(r)
    \/ EnterConflict(r) \/ EnterSettled(r) \/ EnterCompensating(r)
    \/ EnterUnknownCustomer(r) \/ EnterReserve(r)
    \/ Reserved(r) \/ Released(r)
    \/ RecoverSettled(r) \/ Prepare(r) \/ CommitPrepared(r) \/ Compensate(r)
    \/ CancelRead(r) \/ CancelReleased(r) \/ CancelPersist(r)
    \/ \E status \in Replies \cup TransportFailures :
          ReserveFails(r, status) \/ ReleaseFails(r, status) \/ CancelReleaseFails(r, status)

Next ==
    \/ \E r \in Requests :
          \/ \E request \in Creates \cup Cancels : Arrive(r, request)
          \/ Handle(r)
          \/ Retry(r)
          \/ TransactionFails(r) \/ Expire(r) \/ CommitAckLost(r) \/ CancelPersistFails(r)
    \/ \E k \in OrderIds : \E i \in DOMAIN wire[k] : Execute(k, i) \/ Lose(k, i)
    \/ Crash

Spec == Init /\ [][Next]_vars

\* Handlers run to the end, a freed row lock goes to its waiters in turn, Inventory
\* executes what reaches it, and clients repeat what they got no definite answer to.
Fairness ==
    /\ \A r \in Requests : SF_vars(Handle(r)) /\ WF_vars(Retry(r))
    /\ \A k \in OrderIds : WF_vars(\E i \in DOMAIN wire[k] : Execute(k, i))

FairSpec == Spec /\ Fairness

-----------------------------------------------------------------------------
(* Properties *)

CancelAsked(k) == \E r \in Requests : req[r].op = "cancel" /\ req[r].id = k

\* An order exists exactly while its key is CONFIRMED: the row and the key are
\* committed together, and nothing takes either back.
OrderFollowsKey == \A k \in OrderIds : (order[k] # "NONE") <=> (key[k].state = "CONFIRMED")

\* ADR-004: no order is marked cancelled before Inventory released its stock.
CancelledIsReleased ==
    \A k \in OrderIds : order[k] = "CANCELLED" => ledger[k].status = "RELEASED"

\* ADR-004, TEST-MATRIX: a confirmed order has its reservation, of the items
\* ordered; only a cancel of that order can have released it, never a compensation.
ConfirmedIsReserved ==
    \A k \in OrderIds : order[k] # "NONE" =>
        /\ ledger[k].items = key[k].body.items
        /\ \/ ledger[k].status = "RESERVED"
           \/ ledger[k].status = "RELEASED" /\ CancelAsked(k)

\* No stock is held for a key that failed: what Inventory holds, an order accounts
\* for or a retry of the key can still settle.  The one way to lose a reservation is a
\* reserve that was given up on and comes after a retry of it was refused: the refusal
\* settles the key, the late reserve finds the stock another order gave back meanwhile.
NoOrphanReservation ==
    \A k \in OrderIds :
        ledger[k].status = "RESERVED" /\ k \notin overtaken =>
            key[k].state \in {"IN_PROGRESS", "COMPENSATING", "CONFIRMED"}

\* Definite answers last: a 201 has its order, of the body it answers, a 200 its
\* cancellation, and all definite answers to one body of a key are the same answer.
AnswersAreKept ==
    /\ \A r \in Requests :
          /\ answer[r] = Created => Entry(r).state = "CONFIRMED" /\ Entry(r).body = req[r].body
          /\ answer[r] = Cancelled => order[req[r].id] = "CANCELLED"
    /\ \A r, q \in Requests :
          /\ Definite(answer[r]) /\ Definite(answer[q])
          /\ req[r].op = "create" /\ req[q] = req[r]
          => answer[r] = answer[q]

\* The key's states go one way (so that "Idempotency compensation state changed
\* unexpectedly", line 174, is never thrown), the stored body never changes, and
\* neither does a stored answer once the key is settled.
KeyMovesForward ==
    [][\A k \in OrderIds :
          /\ key[k].state # "ABSENT" => key'[k].body = key[k].body
          /\ key'[k] # key[k] =>
                <<key[k].state, key'[k].state>> \in
                    {<<"ABSENT", "IN_PROGRESS">>, <<"IN_PROGRESS", "CONFIRMED">>,
                     <<"IN_PROGRESS", "COMPENSATING">>, <<"IN_PROGRESS", "FAILED">>,
                     <<"COMPENSATING", "FAILED">>}]_vars

\* Once faults stop, retries settle every key that was claimed.
KeysSettle ==
    \A k \in OrderIds :
        key[k].state \in {"IN_PROGRESS", "COMPENSATING"} ~> key[k].state \in {"CONFIRMED", "FAILED"}

\* RELIABILITY.md: a cancel that released the stock and failed locally is completed by a retry.
CancelsComplete ==
    \A k \in OrderIds :
        (order[k] = "CONFIRMED" /\ ledger[k].status = "RELEASED") ~> (order[k] = "CANCELLED")
=============================================================================
