------------------------ MODULE InventoryCalls_proofs -----------------------
(***************************************************************************)
(* For every set of calls, whatever their methods, and every number of     *)
(* restarts: the state is well typed, a process that stops closes nothing  *)
(* under an open stream and is honest about those it cut, and a call       *)
(* implements RemoteCall: carried out at most once, answered truthfully.   *)
(***************************************************************************)
EXTENDS InventoryCalls, TLAPS

Definite == {"INVALID_ARGUMENT", "NOT_FOUND", "FAILED_PRECONDITION", "ALREADY_EXISTS"}

\* Before a reply a handler has done nothing yet; a reply says what it did, and an
\* INTERNAL reply says nothing.
Reported(c) ==
    /\ client[c] = "idle" => server[c] = "none" /\ effect[c] = "none"
    /\ server[c] \in {"none", "wire", "running", "detached"} => effect[c] = "none"
    /\ server[c] = "replied" =>
          /\ status[c] # "none"
          /\ status[c] = "OK" => effect[c] = "done"
          /\ status[c] \in Definite => effect[c] = "refused"

\* Only an exited process has an exit code, or calls it cut.
StillRunning == proc # "exited" => exitCode = NotExited /\ cut = {}

IInv == TypeOK /\ CleanShutdown /\ StillRunning /\ \A c \in Calls : Reported(c)

-----------------------------------------------------------------------------
(* The error mapping *)

\* What a handler refuses has a definite status.
LEMMA RefusalStatus ==
    ASSUME NEW c \in Calls, NEW error \in Errors(Method[c])
    PROVE  toGrpcError(error) \in Definite
<1>1. error \in {"InvalidArgumentError", "PartNotFoundError", "PartsNotFoundError",
                 "InsufficientStockError", "OrderIdConflictError",
                 "ReservationAlreadyReleasedError", "ReservationNotFoundError"}
    BY MethodAssumption DEF Errors, getPart, listParts, reserveStock, releaseStock
<1> QED BY <1>1 DEF toGrpcError, Definite

LEMMA FailureStatus == toGrpcError("PrismaError") = "INTERNAL"
BY DEF toGrpcError

\* A rejection is an error answer, and below 500 only for a definite status.
LEMMA Rejection ==
    ASSUME NEW op, NEW grpcStatus
    PROVE  /\ toInventoryApiError(op, grpcStatus) \in Answers \ {OK, NoAnswer}
           /\ ~ambiguousFailure(toInventoryApiError(op, grpcStatus)) => grpcStatus \in Definite
<1>1. /\ SHARED(grpcStatus) \in {INVENTORY_UNAVAILABLE, INVENTORY_TIMEOUT, INTERNAL}
      /\ SHARED(grpcStatus).http >= 500
    BY DEF SHARED, INVENTORY_UNAVAILABLE, INVENTORY_TIMEOUT, INTERNAL, Answer
<1>2. \/ /\ grpcStatus \in Definite
         /\ toInventoryApiError(op, grpcStatus) \in {VALIDATION, PART_NOT_FOUND, INSUFFICIENT_STOCK}
      \/ toInventoryApiError(op, grpcStatus) = SHARED(grpcStatus)
    BY DEF toInventoryApiError, Definite
<1>3. {VALIDATION, PART_NOT_FOUND, INSUFFICIENT_STOCK, INVENTORY_UNAVAILABLE, INVENTORY_TIMEOUT,
       INTERNAL} \subseteq Answers \ {OK, NoAnswer}
    BY DEF Answers, OK, NoAnswer, VALIDATION, PART_NOT_FOUND, INSUFFICIENT_STOCK,
           INVENTORY_UNAVAILABLE, INVENTORY_TIMEOUT, INTERNAL, Answer
<1> QED BY <1>1, <1>2, <1>3 DEF ambiguousFailure

-----------------------------------------------------------------------------
(* The gateway's steps *)

ClientSteps(c) ==
    \/ invoke(c) \/ InvokeThrows(c) \/ Callback(c) \/ DeadlineExceeded(c) \/ Unavailable(c)
    \/ onModuleDestroy

ServerSteps(c) ==
    Accept(c) \/ StreamCloses(c) \/ Lost(c) \/ Succeeds(c) \/ Refuses(c) \/ Fails(c)

\* A call ends with an answer, and stays as Inventory left it.
Ends(c, a) ==
    /\ client[c] \in {"idle", "waiting"}
    /\ client' = [client EXCEPT ![c] = "settled"]
    /\ answer' = [answer EXCEPT ![c] = a]
    /\ UNCHANGED <<channel, server, status, effect, procVars>>

LEMMA ClientStep ==
    ASSUME IInv, NEW c \in Calls, ClientSteps(c)
    PROVE  \/ invoke(c)
           \/ onModuleDestroy
           \/ \E a \in Answers \ {NoAnswer} :
                 /\ Ends(c, a)
                 /\ client[c] = "idle" => a = INTERNAL
                 /\ a = OK => effect[c] = "done"
                 /\ a # OK /\ ~ambiguousFailure(a) => effect[c] = "refused"
<1>1. INTERNAL \in Answers \ {OK, NoAnswer} /\ ambiguousFailure(INTERNAL)
    BY DEF Answers, OK, NoAnswer, INTERNAL, Answer, ambiguousFailure
<1>2. CASE InvokeThrows(c)
    BY <1>1, <1>2 DEF InvokeThrows, Ends
<1>3. ASSUME NEW grpcStatus, Reject(c, grpcStatus), UNCHANGED server,
             grpcStatus \in Definite => effect[c] = "refused"
      PROVE  \E a \in Answers \ {OK, NoAnswer} :
                 /\ Ends(c, a) /\ client[c] # "idle"
                 /\ ~ambiguousFailure(a) => effect[c] = "refused"
    <2> DEFINE a == toInventoryApiError(OPERATION_BY_RPC(Method[c]), grpcStatus)
    <2>1. a \in Answers \ {OK, NoAnswer} /\ (~ambiguousFailure(a) => effect[c] = "refused")
        BY <1>3, Rejection
    <2>2. Ends(c, a) /\ client[c] # "idle"
        BY <1>3 DEF Reject, Settle, Ends
    <2> QED BY <2>1, <2>2
<1>4. CASE Callback(c)
    <2>1. /\ status[c] = "OK" => effect[c] = "done"
          /\ status[c] \in Definite => effect[c] = "refused"
        BY <1>4 DEF Callback, IInv, Reported
    <2>2. CASE status[c] = "OK" /\ Settle(c, OK)
        <3>1. Ends(c, OK) /\ client[c] # "idle" /\ OK \in Answers \ {NoAnswer}
            BY <1>4, <2>2 DEF Callback, Settle, Ends, Answers, OK, NoAnswer, Answer
        <3> QED BY <2>1, <2>2, <3>1
    <2>3. CASE Reject(c, "UNKNOWN")
        BY <1>3, <1>4, <2>3 DEF Callback, Definite
    <2>4. CASE Reject(c, status[c])
        BY <1>3, <1>4, <2>1, <2>4 DEF Callback
    <2> QED BY <1>4, <2>2, <2>3, <2>4 DEF Callback
<1>5. CASE DeadlineExceeded(c)
    BY <1>3, <1>5 DEF DeadlineExceeded, Definite
<1>6. CASE Unavailable(c)
    BY <1>3, <1>6 DEF Unavailable, enable_retries, Definite
<1> QED BY <1>2, <1>4, <1>5, <1>6 DEF ClientSteps

LEMMA ClientKeeps ==
    ASSUME IInv, NEW c \in Calls, ClientSteps(c)
    PROVE  IInv'
<1>1. CASE invoke(c)
    <2>1. TypeOK'
        BY <1>1 DEF IInv, TypeOK, invoke, procVars
    <2>2. CleanShutdown' /\ StillRunning'
        BY <1>1 DEF IInv, CleanShutdown, StillRunning, Open, invoke, procVars, TypeOK
    <2>3. \A d \in Calls : Reported(d)'
        BY <1>1 DEF IInv, Reported, invoke, TypeOK
    <2> QED BY <2>1, <2>2, <2>3 DEF IInv
<1>2. CASE onModuleDestroy
    BY <1>2 DEF onModuleDestroy, procVars, IInv, TypeOK, CleanShutdown, StillRunning, Open,
                Reported
<1>3. ASSUME NEW a \in Answers, Ends(c, a)
      PROVE  IInv'
    <2>1. TypeOK'
        BY <1>3 DEF IInv, TypeOK, Ends, procVars
    <2>2. CleanShutdown' /\ StillRunning'
        BY <1>3 DEF IInv, CleanShutdown, StillRunning, Open, Ends, procVars
    <2>3. \A d \in Calls : Reported(d)'
        BY <1>3 DEF IInv, Reported, Ends, TypeOK
    <2> QED BY <2>1, <2>2, <2>3 DEF IInv
<1> QED BY <1>1, <1>2, <1>3, ClientStep

-----------------------------------------------------------------------------
(* The server's and the process's steps *)

\* What a handler reports of its call.
LEMMA ServerStep ==
    ASSUME IInv, NEW c \in Calls, ServerSteps(c)
    PROVE  \/ Accept(c) \/ StreamCloses(c) \/ Lost(c)
           \/ \E s \in Statuses, e \in {"none", "done", "refused"} :
                 /\ Reply(c, s, e)
                 /\ s = "OK" => e = "done"
                 /\ s \in Definite => e = "refused"
<1>1. CASE Succeeds(c)
    BY <1>1 DEF Succeeds, Statuses, Definite
<1>2. CASE Refuses(c)
    <2>1. PICK error \in Errors(Method[c]) : Reply(c, toGrpcError(error), "refused")
        BY <1>2 DEF Refuses
    <2>2. toGrpcError(error) \in Definite
        BY RefusalStatus
    <2> QED BY <2>1, <2>2 DEF Statuses, Definite
<1>3. CASE Fails(c)
    <2>1. effect[c] \in {"none", "done", "refused"}
        BY DEF IInv, TypeOK
    <2> QED BY <1>3, <2>1, FailureStatus DEF Fails, Statuses, Definite
<1> QED BY <1>1, <1>2, <1>3 DEF ServerSteps

LEMMA ServerKeeps ==
    ASSUME IInv, NEW c \in Calls, ServerSteps(c)
    PROVE  IInv'
<1>1. CASE Accept(c) \/ StreamCloses(c) \/ Lost(c)
    <2>1. TypeOK'
        BY <1>1 DEF IInv, TypeOK, Accept, StreamCloses, Lost, procVars
    <2>2. CleanShutdown' /\ StillRunning'
        BY <1>1 DEF IInv, CleanShutdown, StillRunning, Open, Accept, StreamCloses, Lost, procVars, TypeOK
    <2>3. \A d \in Calls : Reported(d)'
        BY <1>1 DEF IInv, Reported, Accept, StreamCloses, Lost, TypeOK
    <2> QED BY <2>1, <2>2, <2>3 DEF IInv
<1>2. ASSUME NEW s \in Statuses, NEW e \in {"none", "done", "refused"}, Reply(c, s, e),
             s = "OK" => e = "done", s \in Definite => e = "refused"
      PROVE  IInv'
    <2>1. TypeOK'
        BY <1>2 DEF IInv, TypeOK, Reply, procVars
    <2>2. CleanShutdown' /\ StillRunning'
        BY <1>2 DEF IInv, CleanShutdown, StillRunning, Open, Reply, procVars, TypeOK
    <2>3. \A d \in Calls : Reported(d)'
        BY <1>2 DEF IInv, Reported, Reply, TypeOK, Statuses
    <2> QED BY <2>1, <2>2, <2>3 DEF IInv
<1> QED BY <1>1, <1>2, ServerStep

\* An exit takes the handlers that were running with it, and counts the open streams.
LEMMA ExitKeeps ==
    ASSUME IInv, NEW code \in {0, 1, 130, 137, 143}, Exit(code), code = 0 => Open = {},
           proc # "exited", signalled' = signalled
    PROVE  IInv'
<1>1. TypeOK'
    BY DEF IInv, TypeOK, Exit, Open, Running
<1>2. \A d \in Calls : Reported(d)'
    BY DEF IInv, Reported, Exit, Running, TypeOK
<1>3. CleanShutdown' /\ StillRunning'
    <2>1. Open' = {}
        BY DEF Exit, Open, Running, IInv, TypeOK
    <2> QED BY <2>1 DEF IInv, CleanShutdown, StillRunning, Exit
<1> QED BY <1>1, <1>2, <1>3 DEF IInv

ProcessSteps ==
    \/ \E s \in Signals : Signal(s) \/ SignalAgain(s)
    \/ Drained \/ Disconnect \/ Completed \/ CloseFails \/ ForceExit \/ Kill \/ Start

LEMMA ProcessKeeps ==
    ASSUME IInv, ProcessSteps
    PROVE  IInv'
<1>1. CASE (\E s \in Signals : Signal(s)) \/ Drained \/ Disconnect \/ Start
    <2>1. /\ UNCHANGED rpcVars
          /\ exitCode' \in {exitCode, NotExited}
          /\ signalled' \in SUBSET Signals /\ starts' \in 0..MaxStarts
          /\ proc' \in {"up", "draining", "closing", "closed", "exited"}
          /\ proc' = "exited" => proc = "exited" /\ exitCode' = exitCode /\ cut' = cut
          /\ proc' \in {"closing", "closed"} => Open = {}
          /\ cut' = {} \/ (cut' = cut /\ exitCode' = exitCode)
          /\ proc' # "exited" => exitCode' = NotExited /\ cut' = {}
        <3>1. ASSUME NEW s \in Signals, Signal(s)
              PROVE  /\ proc # "exited" /\ proc' \in {"draining", proc}
                     /\ signalled' \in SUBSET Signals
                     /\ UNCHANGED <<rpcVars, exitCode, cut, starts>>
            BY <3>1 DEF Signal, IInv, TypeOK
        <3>2. CASE \E s \in Signals : Signal(s)
            BY <3>1, <3>2 DEF IInv, TypeOK, StillRunning, CleanShutdown
        <3>3. CASE Drained \/ Disconnect
            BY <3>3 DEF IInv, TypeOK, StillRunning, CleanShutdown, Drained, Disconnect
        <3>4. CASE Start
            BY <3>4, StartsAssumption DEF IInv, TypeOK, Start
        <3> QED BY <1>1, <3>2, <3>3, <3>4
    <2>2. TypeOK'
        BY <2>1 DEF IInv, TypeOK, rpcVars
    <2>3. CleanShutdown' /\ StillRunning'
        BY <2>1 DEF IInv, CleanShutdown, StillRunning, Open, rpcVars, NotExited
    <2>4. \A d \in Calls : Reported(d)'
        BY <2>1 DEF IInv, Reported, rpcVars
    <2> QED BY <2>2, <2>3, <2>4 DEF IInv
<1>2. CASE \/ \E s \in Signals : SignalAgain(s)
           \/ Completed \/ CloseFails \/ ForceExit \/ Kill
    <2>1. PICK code \in {0, 1, 130, 137, 143} :
              /\ Exit(code) /\ proc # "exited" /\ signalled' = signalled
              /\ code = 0 => proc = "closed"
        BY <1>2 DEF SignalAgain, Completed, CloseFails, ForceExit, Kill
    <2>2. code = 0 => Open = {}
        BY <2>1 DEF IInv, CleanShutdown
    <2> QED BY <2>1, <2>2, ExitKeeps
<1> QED BY <1>1, <1>2 DEF ProcessSteps

-----------------------------------------------------------------------------
(* The theorems *)

LEMMA StepKinds ==
    ASSUME Next
    PROVE  (\E c \in Calls : ClientSteps(c) \/ ServerSteps(c)) \/ onModuleDestroy \/ ProcessSteps
BY DEF Next, ClientSteps, ServerSteps, ProcessSteps

LEMMA Inductive == (Init => IInv) /\ (IInv /\ [Next]_vars => IInv')
<1>1. Init => IInv
    BY StartsAssumption
       DEF Init, IInv, TypeOK, CleanShutdown, StillRunning, Open, Reported, Answers
<1>2. ASSUME IInv, UNCHANGED vars PROVE IInv'
    BY <1>2 DEF vars, rpcVars, procVars, IInv, TypeOK, CleanShutdown, StillRunning, Open,
                Reported
<1>3. ASSUME IInv, onModuleDestroy PROVE IInv'
    BY <1>3 DEF onModuleDestroy, procVars, IInv, TypeOK, CleanShutdown, StillRunning, Open,
                Reported
<1>4. ASSUME IInv, Next PROVE IInv'
    BY <1>3, <1>4, StepKinds, ClientKeeps, ServerKeeps, ProcessKeeps
<1> QED BY <1>1, <1>2, <1>4

\* The inductive invariant holds: what the theorems below are read from.
THEOREM Invariance == Spec => []IInv
BY Inductive, PTL DEF Spec

\* Every state of the call and of the process is well typed.
THEOREM TypeCorrect == Spec => []TypeOK
<1>1. IInv => TypeOK
    BY DEF IInv
<1> QED BY <1>1, Invariance, PTL

\* The pool is never closed under an open stream, and exit code 0 means that no caller
\* who still waited on one was cut off.
THEOREM ShutdownIsClean == Spec => []CleanShutdown
<1>1. IInv => CleanShutdown
    BY DEF IInv
<1> QED BY <1>1, Invariance, PTL

LEMMA KnownSettled ==
    ASSUME NEW c \in Calls
    PROVE  known[c] = IF client[c] # "settled" THEN client[c]
                      ELSE IF answer[c] = OK THEN "done"
                      ELSE IF ambiguousFailure(answer[c]) THEN "unknown" ELSE "refused"
BY DEF known

LEMMA KnownKept ==
    ASSUME UNCHANGED <<client, answer>>
    PROVE  UNCHANGED known
BY DEF known

LEMMA ClientImplements ==
    ASSUME IInv, NEW c \in Calls, ClientSteps(c)
    PROVE  RC!CallNext \/ UNCHANGED RC!callVars
<1>1. CASE invoke(c)
    <2>1. known[c] = "idle" /\ UNCHANGED effect
        BY <1>1, KnownSettled DEF invoke
    <2>2. known' = [known EXCEPT ![c] = "waiting"]
        BY <1>1 DEF invoke, known, IInv, TypeOK
    <2> QED BY <2>1, <2>2 DEF RC!CallNext, RC!Send
<1>2. CASE onModuleDestroy
    BY <1>2, KnownKept DEF onModuleDestroy, RC!callVars
<1>3. ASSUME NEW a \in Answers \ {NoAnswer}, Ends(c, a),
             client[c] = "idle" => a = INTERNAL,
             a = OK => effect[c] = "done",
             a # OK /\ ~ambiguousFailure(a) => effect[c] = "refused"
      PROVE  RC!CallNext
    <2> DEFINE k == IF a = OK THEN "done" ELSE IF ambiguousFailure(a) THEN "unknown" ELSE "refused"
    <2>1. known' = [known EXCEPT ![c] = k] /\ UNCHANGED effect
        <3>1. /\ client' = [client EXCEPT ![c] = "settled"] /\ answer' = [answer EXCEPT ![c] = a]
              /\ client \in [Calls -> {"idle", "waiting", "settled"}] /\ answer \in [Calls -> Answers]
            BY <1>3 DEF Ends, IInv, TypeOK
        <3>2. known'[c] = k
            BY <3>1 DEF known
        <3>3. \A d \in Calls \ {c} : known'[d] = known[d]
            BY <3>1 DEF known
        <3> HIDE DEF k
        <3>4. known' = [d \in Calls |-> known'[d]] /\ known = [d \in Calls |-> known[d]]
            BY DEF known
        <3> QED BY <1>3, <3>2, <3>3, <3>4 DEF Ends
    <2>2. CASE client[c] = "idle"
        <3>1. k = "unknown"
            BY <1>3, <2>2 DEF INTERNAL, OK, Answer, ambiguousFailure
        <3>2. known[c] = "idle"
            BY <2>2, KnownSettled
        <3> QED BY <2>1, <3>1, <3>2 DEF RC!CallNext, RC!NeverSent
    <2>3. CASE client[c] = "waiting"
        <3>1. known[c] = "waiting"
            BY <2>3, KnownSettled
        <3>2. k \in {"unknown", effect[c]} \ {"none"}
            BY <1>3
        <3> HIDE DEF k
        <3> QED BY <2>1, <3>1, <3>2 DEF RC!CallNext, RC!Learn
    <2> QED BY <1>3, <2>2, <2>3 DEF Ends
<1> QED BY <1>1, <1>2, <1>3, ClientStep

LEMMA ServerImplements ==
    ASSUME IInv, NEW c \in Calls, ServerSteps(c)
    PROVE  RC!CallNext \/ UNCHANGED RC!callVars
<1>1. UNCHANGED known
    BY KnownKept DEF ServerSteps, Accept, StreamCloses, Lost, Succeeds, Refuses, Fails, Reply
<1>2. CASE Accept(c) \/ StreamCloses(c) \/ Lost(c)
    BY <1>1, <1>2 DEF Accept, StreamCloses, Lost, RC!callVars
<1>3. ASSUME NEW s \in Statuses, NEW e \in {"none", "done", "refused"}, Reply(c, s, e)
      PROVE  RC!CallNext \/ UNCHANGED RC!callVars
    <2>1. effect' = [effect EXCEPT ![c] = e] /\ effect[c] = "none" /\ client[c] # "idle"
        BY <1>3 DEF Reply, IInv, Reported
    <2>2. CASE e = "none"
        BY <1>1, <2>1, <2>2 DEF IInv, TypeOK, RC!callVars
    <2>3. CASE e \in {"done", "refused"}
        <3>1. known[c] # "idle"
            BY <2>1, KnownSettled
        <3> QED BY <1>1, <2>1, <2>3, <3>1 DEF RC!CallNext, RC!Execute
    <2> QED BY <2>2, <2>3
<1> QED BY <1>2, <1>3, ServerStep

LEMMA StepImplements == IInv /\ [Next]_vars => [RC!CallNext]_(RC!callVars)
<1> SUFFICES ASSUME IInv, [Next]_vars PROVE RC!CallNext \/ UNCHANGED RC!callVars
    OBVIOUS
<1>1. CASE UNCHANGED vars
    BY <1>1, KnownKept DEF vars, rpcVars, RC!callVars
<1>2. CASE ProcessSteps \/ onModuleDestroy
    <2>1. UNCHANGED <<client, answer, effect>>
        BY <1>2 DEF ProcessSteps, Signal, SignalAgain, Drained, Disconnect, Completed, CloseFails,
                    ForceExit, Kill, Start, Exit, rpcVars, onModuleDestroy
    <2> QED BY <2>1, KnownKept DEF RC!callVars
<1> QED BY <1>1, <1>2, StepKinds, ClientImplements, ServerImplements

LEMMA InitImplements == Init => RC!CallInit
BY DEF Init, RC!CallInit, known

\* Sales may rely on RemoteCall: a call takes effect at most once, perhaps after its
\* caller gave up, and an answer below 500 says what Inventory did.
THEOREM CallsImplementRemoteCall == Spec => ImplementsRemoteCall
BY InitImplements, StepImplements, Invariance, PTL
DEF Spec, ImplementsRemoteCall, RC!CallSpec
=============================================================================
