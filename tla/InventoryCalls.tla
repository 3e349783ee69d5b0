---------------------------- MODULE InventoryCalls ----------------------------
(***************************************************************************)
(* A gRPC call from end to end: InventoryGrpcGateway in Sales, which puts  *)
(* a deadline on it and never repeats it, and the Inventory process, which *)
(* handles it, drains and closes on a signal, may be forced out, killed    *)
(* and started again (main.ts).  The database work of a handler is one     *)
(* step here and StockService there.                                       *)
(*                                                                         *)
(* A graceful shutdown waits for the HTTP/2 streams of the calls, not for  *)
(* the handlers: one whose caller gave up runs on with its stream closed,  *)
(* and the pool may be closed under it.                                    *)
(***************************************************************************)
EXTENDS ErrorMapping, FiniteSets

CONSTANTS
    Calls,
    Method,         \* per call: the RPC it is
    MaxStarts       \* bound on how often the Inventory process is started

ASSUME MethodAssumption ==
    Method \in [Calls -> {"ReserveStock", "ReleaseStock", "GetPart", "ListParts"}]
ASSUME StartsAssumption == MaxStarts \in Nat

VARIABLES
    channel,        \* of the gateway: "open" or "closed"
    client,         \* per call: "idle", "waiting", or "settled"
    answer,         \* per call: what the gateway resolved (OK) or rejected with
    server,         \* per call: "none", "wire", "running", "detached" (its handler runs, its
                    \* stream is closed), "replied" or "gone"
    status,         \* per call: the gRPC status of the reply
    effect,         \* per call: what its handler did: "none", "done" or "refused"
    proc,           \* the process: "up", "draining", "closing", "closed" or "exited"
    signalled,      \* signals whose process.once listener has been used
    exitCode,       \* of the last process to exit
    cut,            \* calls whose stream was open when a process exited
    starts

rpcVars == <<channel, client, answer, server, status, effect>>
procVars == <<proc, signalled, exitCode, cut, starts>>
vars == <<rpcVars, procVars>>

Signals == {"SIGTERM", "SIGINT"}
Statuses == {"OK", "INVALID_ARGUMENT", "NOT_FOUND", "FAILED_PRECONDITION",
             "ALREADY_EXISTS", "INTERNAL"}
OK == Answer(200, "OK")
NoAnswer == Answer(0, "none")
Answers == {OK, NoAnswer, INTERNAL, VALIDATION, PART_NOT_FOUND, INSUFFICIENT_STOCK,
            INVENTORY_UNAVAILABLE, INVENTORY_TIMEOUT}
NotExited == -1

TypeOK ==
    /\ channel \in {"open", "closed"}
    /\ client \in [Calls -> {"idle", "waiting", "settled"}]
    /\ answer \in [Calls -> Answers]
    /\ server \in [Calls -> {"none", "wire", "running", "detached", "replied", "gone"}]
    /\ status \in [Calls -> Statuses \cup {"none"}]
    /\ effect \in [Calls -> {"none", "done", "refused"}]
    /\ proc \in {"up", "draining", "closing", "closed", "exited"}
    /\ signalled \in SUBSET Signals
    /\ exitCode \in {NotExited, 0, 1, 130, 137, 143}
    /\ cut \in SUBSET Calls
    /\ starts \in 0..MaxStarts

Init ==
    /\ channel = "open"
    /\ client = [c \in Calls |-> "idle"]
    /\ answer = [c \in Calls |-> NoAnswer]
    /\ server = [c \in Calls |-> "none"]
    /\ status = [c \in Calls |-> "none"]
    /\ effect = [c \in Calls |-> "none"]
    /\ proc = "up"
    /\ signalled = {}
    /\ exitCode = NotExited
    /\ cut = {}
    /\ starts = 0

-----------------------------------------------------------------------------
(* The gateway *)

OPERATION_BY_RPC(method) ==
    CASE method = "ReserveStock"            -> "reserve"
      [] method = "ReleaseStock"            -> "release"
      [] method \in {"GetPart", "ListParts"} -> "read"

\* reserve, release, getPart and listParts are this with their method.
invoke(c) ==
    /\ channel = "open"
    /\ client[c] = "idle"
    /\ client' = [client EXCEPT ![c] = "waiting"]
    /\ server' = [server EXCEPT ![c] = "wire"]
    /\ UNCHANGED <<channel, answer, status, effect, procVars>>

\* On a closed channel rpc.call throws; publicInventoryError makes it a 500.
InvokeThrows(c) ==
    /\ channel = "closed"
    /\ client[c] = "idle"
    /\ client' = [client EXCEPT ![c] = "settled"]
    /\ answer' = [answer EXCEPT ![c] = INTERNAL]
    /\ UNCHANGED <<channel, server, status, effect, procVars>>

Settle(c, a) ==
    /\ client[c] = "waiting"
    /\ client' = [client EXCEPT ![c] = "settled"]
    /\ answer' = [answer EXCEPT ![c] = a]
    /\ UNCHANGED <<channel, status, effect, procVars>>

Reject(c, grpcStatus) ==
    Settle(c, toInventoryApiError(OPERATION_BY_RPC(Method[c]), grpcStatus))

\* The callback gets the reply.  OK without a body is an error with no status.
Callback(c) ==
    /\ server[c] = "replied"
    /\ \/ status[c] = "OK" /\ Settle(c, OK)
       \/ status[c] = "OK" /\ Reject(c, "UNKNOWN")
       \/ status[c] # "OK" /\ Reject(c, status[c])
    /\ UNCHANGED server

\* The callback gets the deadline; the call itself may go on.
DeadlineExceeded(c) == Reject(c, "DEADLINE_EXCEEDED") /\ UNCHANGED server

\* 'grpc.enable_retries': 0
RetriesEnabled == TRUE      \* mutant: the channel's default
enable_retries == FALSE

Resend(c) ==
    /\ client[c] = "waiting"
    /\ server' = [server EXCEPT ![c] = "wire"]
    /\ UNCHANGED <<channel, client, answer, status, effect, procVars>>

\* The call, its stream or its reply is gone.
Unavailable(c) ==
    /\ server[c] \in {"detached", "gone"}
    /\ IF enable_retries THEN Resend(c) ELSE Reject(c, "UNAVAILABLE") /\ UNCHANGED server

\* app.close() of Sales closes the channel before its HTTP server: requests in
\* progress go on without it.
onModuleDestroy ==
    /\ channel = "open"
    /\ channel' = "closed"
    /\ UNCHANGED <<client, answer, server, status, effect, procVars>>

-----------------------------------------------------------------------------
(* The Inventory server.  GrpcErrorFilter gives every reply its status. *)

\* A server that is shutting down takes no new call.
Accept(c) ==
    /\ server[c] = "wire"
    /\ proc = "up"
    /\ server' = [server EXCEPT ![c] = "running"]
    /\ UNCHANGED <<channel, client, answer, status, effect, procVars>>

\* Refused by a server that is not up, or lost on either way.
Lost(c) ==
    /\ server[c] \in {"wire", "replied"}
    /\ server' = [server EXCEPT ![c] = "gone"]
    /\ UNCHANGED <<channel, client, answer, status, effect, procVars>>

\* The deadline, which travels with the call, or the loss of the connection closes the
\* stream: the handler goes on, and nobody will get its reply.
StreamCloses(c) ==
    /\ server[c] = "running"
    /\ server' = [server EXCEPT ![c] = "detached"]
    /\ UNCHANGED <<channel, client, answer, status, effect, procVars>>

Reply(c, s, e) ==
    /\ server[c] \in {"running", "detached"}
    /\ server' = [server EXCEPT ![c] = IF @ = "running" THEN "replied" ELSE "gone"]
    /\ status' = [status EXCEPT ![c] = s]
    /\ effect' = [effect EXCEPT ![c] = e]
    /\ UNCHANGED <<channel, client, answer, procVars>>

\* The errors of each handler, found by parsing or in the database.
getPart == {"InvalidArgumentError", "PartNotFoundError"}
listParts == {}
reserveStock == {"InvalidArgumentError", "PartsNotFoundError", "InsufficientStockError",
                 "OrderIdConflictError", "ReservationAlreadyReleasedError"}
releaseStock == {"InvalidArgumentError", "ReservationNotFoundError"}
Errors(method) ==
    CASE method = "ReserveStock" -> reserveStock
      [] method = "ReleaseStock" -> releaseStock
      [] method = "GetPart"      -> getPart
      [] method = "ListParts"    -> listParts

\* The pool is closed: what a handler had not committed by then is rolled back.
Disconnected == proc = "closed"

Succeeds(c) == ~Disconnected /\ Reply(c, "OK", "done")
Refuses(c) ==
    /\ ~Disconnected
    /\ \E error \in Errors(Method[c]) : Reply(c, toGrpcError(error), "refused")

\* An unexpected error: before the commit, or after it (acknowledgement lost).
Fails(c) ==
    \E e \in {effect[c], "done"} :
        /\ Disconnected => e = effect[c]
        /\ Reply(c, toGrpcError("PrismaError"), e)

-----------------------------------------------------------------------------
(* The Inventory process *)

Open == {c \in Calls : server[c] = "running"}
Running == {c \in Calls : server[c] \in {"running", "detached"}}

\* Whatever was running is cut off; a kernel that has sent a reply may deliver it.
Exit(code) ==
    /\ proc' = "exited"
    /\ exitCode' = code
    /\ cut' = cut \cup Open
    /\ server' = [c \in Calls |-> IF c \in Running THEN "gone" ELSE server[c]]
    /\ UNCHANGED <<channel, client, answer, status, effect, starts>>

\* shutdown: the first signal starts it (health is withdrawn: HealthService), a
\* signal of the other kind is ignored.
Signal(s) ==
    /\ proc # "exited"
    /\ s \notin signalled
    /\ signalled' = signalled \cup {s}
    /\ proc' = IF signalled = {} THEN "draining" ELSE proc
    /\ UNCHANGED <<rpcVars, exitCode, cut, starts>>

\* process.once: a second signal of one kind has no listener left.
SignalAgain(s) ==
    /\ proc # "exited"
    /\ s \in signalled
    /\ Exit(IF s = "SIGTERM" THEN 143 ELSE 130)
    /\ UNCHANGED signalled

DrainNothing ==         \* mutant: gracefulShutdown is off
    /\ proc = "draining"
    /\ proc' = "closing"
    /\ UNCHANGED <<rpcVars, signalled, exitCode, cut, starts>>

\* app.close(), first half: gracefulShutdown (tryShutdown of grpc-js) waits for the
\* streams that are open, whether or not a handler runs on without one.
Drained ==
    /\ proc = "draining"
    /\ Open = {}
    /\ proc' = "closing"
    /\ UNCHANGED <<rpcVars, signalled, exitCode, cut, starts>>

\* app.close(), second half: PrismaService.onModuleDestroy.
Disconnect ==
    /\ proc = "closing"
    /\ proc' = "closed"
    /\ UNCHANGED <<rpcVars, signalled, exitCode, cut, starts>>

Completed == proc = "closed" /\ Exit(0) /\ UNCHANGED signalled

\* app.close() rejects.
CloseFails == proc \in {"draining", "closing"} /\ Exit(1) /\ UNCHANGED signalled

ForceWhenIdle ==        \* mutant: the timer is set after the drain
    proc \in {"closing", "closed"} /\ Exit(1) /\ UNCHANGED signalled

\* The timer of SHUTDOWN_TIMEOUT_MS, armed by the first signal.
ForceExit ==
    proc \in {"draining", "closing", "closed"} /\ Exit(1) /\ UNCHANGED signalled

\* SIGKILL: docker stop after its grace period, or a crash.
Kill == proc # "exited" /\ Exit(137) /\ UNCHANGED signalled

Start ==
    /\ proc = "exited"
    /\ starts < MaxStarts
    /\ starts' = starts + 1
    /\ proc' = "up"
    /\ signalled' = {}
    /\ exitCode' = NotExited
    /\ cut' = {}
    /\ UNCHANGED rpcVars

Next ==
    \/ \E c \in Calls :
           \/ invoke(c) \/ InvokeThrows(c) \/ Callback(c) \/ DeadlineExceeded(c) \/ Unavailable(c)
           \/ Accept(c) \/ StreamCloses(c) \/ Lost(c) \/ Succeeds(c) \/ Refuses(c) \/ Fails(c)
    \/ onModuleDestroy
    \/ \E s \in Signals : Signal(s) \/ SignalAgain(s)
    \/ Drained \/ Disconnect \/ Completed \/ CloseFails \/ ForceExit \/ Kill \/ Start

Spec == Init /\ [][Next]_vars

\* The timer fires.  Nothing is assumed of handlers, of the database or of the network.
FairSpec == Spec /\ WF_vars(ForceExit)

-----------------------------------------------------------------------------
(* Properties *)

\* A call is carried out at most once, whatever was lost or restarted, and an
\* answer below 500 is what Inventory did (gateway.ts:172-205,
\* inventory-error.ts:57-115): what create relies on to close a key.
known == [c \in Calls |->
    IF client[c] # "settled" THEN client[c]
    ELSE IF answer[c] = OK THEN "done"
    ELSE IF ambiguousFailure(answer[c]) THEN "unknown" ELSE "refused"]
RC == INSTANCE RemoteCall
ImplementsRemoteCall == RC!CallSpec

\* The pool is not closed before every open stream has been answered or given up, and
\* a process that reports a clean exit takes the answer from no caller who still waits
\* on its stream (main.ts:52-56, grpc-server-options.ts:25).  It promises nothing for
\* a handler whose caller gave up: that one may lose its pool, and be cut at exit 0.
CleanShutdown ==
    /\ proc \in {"closing", "closed", "exited"} => Open = {}
    /\ exitCode = 0 => cut = {}

\* Once begun, a shutdown ends, though a handler should hang (main.ts:47-50).
ShutdownEnds == proc = "draining" ~> proc = "exited"
=============================================================================
