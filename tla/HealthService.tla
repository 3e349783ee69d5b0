---------------------------- MODULE HealthService ----------------------------
(***************************************************************************)
(* apps/inventory-grpc/src/health/health.service.ts: the status Inventory  *)
(* reports, kept up to date by a probe of the database (SELECT 1) at every *)
(* interval, each raced against a timeout, and withdrawn at shutdown       *)
(* (main.ts:41-58).                                                        *)
(*                                                                         *)
(* Time is discrete.  An interval shorter than the timeout (500 ms against *)
(* 2 s is a legal setting) lets probes overlap, and their results then     *)
(* arrive in any order.                                                    *)
(***************************************************************************)
EXTENDS Integers

CONSTANTS
    healthCheckInterval,    \* ticks between probes
    PROBE_TIMEOUT,          \* ticks after which a probe fails
    Latency                 \* ticks within which a database that is up answers

ASSUME TimeAssumption ==
    /\ healthCheckInterval \in Nat \ {0}
    /\ PROBE_TIMEOUT \in Nat \ {0}
    /\ Latency \in 0..(PROBE_TIMEOUT - 1)

VARIABLES
    status,         \* this.status, and what Health/Check answers for both names
    shuttingDown,
    timer,          \* ticks until the interval fires, Unset or Cleared
    probe,          \* per age in ticks: the probe of that age, if it is still awaited
    db,             \* "up" or "down"
    since           \* ticks since db changed, counted up to Horizon

vars == <<status, shuttingDown, timer, probe, db, since>>

Unset == -1         \* the first probe has not ended
Cleared == -2
Ages == 0..PROBE_TIMEOUT
Horizon == healthCheckInterval + 2 * PROBE_TIMEOUT + 1

\* The health protocol's two states in use; ages and timers in range
\* (health.service.ts:37-39).
TypeOK ==
    /\ status \in {"SERVING", "NOT_SERVING"}
    /\ shuttingDown \in BOOLEAN
    /\ timer \in {Unset, Cleared} \cup 0..healthCheckInterval
    /\ probe \in [Ages -> {"none", "asked", "answered", "refused"}]
    /\ db \in {"up", "down"}
    /\ since \in 0..Horizon

\* onApplicationBootstrap has started its first probe.
Init ==
    /\ status = "NOT_SERVING"
    /\ shuttingDown = FALSE
    /\ timer = Unset
    /\ probe = [a \in Ages |-> IF a = 0 THEN "asked" ELSE "none"]
    /\ db \in {"up", "down"}
    /\ since = 0

-----------------------------------------------------------------------------
(* The service *)

SetAlways(result) == status' = result       \* mutant: shuttingDown is not read again

\* What a probe does when its await is over; a service that has begun to shut
\* down no longer listens to it.
setStatus(result) == status' = IF shuttingDown THEN status ELSE result

\* The first probe to end is the one bootstrap awaits: it starts the interval.
Ended(a) ==
    /\ probe' = [probe EXCEPT ![a] = "none"]
    /\ timer' = IF timer = Unset THEN healthCheckInterval ELSE timer
    /\ UNCHANGED <<shuttingDown, db, since>>

ProbeSucceeds(a) == probe[a] = "answered" /\ setStatus("SERVING") /\ Ended(a)

IgnoreTimeout(a) ==     \* mutant: a timeout is not a failure
    /\ probe[a] = "refused" \/ (a = PROBE_TIMEOUT /\ probe[a] # "none")
    /\ setStatus(IF probe[a] = "refused" THEN "NOT_SERVING" ELSE status)
    /\ Ended(a)
ProbeFails(a) ==
    /\ probe[a] = "refused" \/ (a = PROBE_TIMEOUT /\ probe[a] # "none")
    /\ setStatus("NOT_SERVING")
    /\ Ended(a)

OneShot ==          \* mutant: setTimeout in place of setInterval
    /\ timer = 0
    /\ timer' = Cleared
    /\ probe' = [probe EXCEPT ![0] = IF shuttingDown THEN @ ELSE "asked"]
    /\ UNCHANGED <<status, shuttingDown, db, since>>

IntervalFires ==
    /\ timer = 0
    /\ timer' = healthCheckInterval
    /\ probe' = [probe EXCEPT ![0] = IF shuttingDown THEN @ ELSE "asked"]
    /\ UNCHANGED <<status, shuttingDown, db, since>>

\* SIGTERM or SIGINT; the second signal is ignored.
markShuttingDown ==
    /\ ~shuttingDown
    /\ shuttingDown' = TRUE
    /\ timer' = IF timer = Unset THEN Unset ELSE Cleared
    /\ status' = "NOT_SERVING"
    /\ UNCHANGED <<probe, db, since>>

\* app.close(): the interval that a first probe may have started after the signal.
onModuleDestroy ==
    /\ shuttingDown
    /\ timer >= 0
    /\ timer' = Cleared
    /\ UNCHANGED <<status, shuttingDown, probe, db, since>>

-----------------------------------------------------------------------------
(* The database, and time *)

DatabaseChanges ==
    /\ db' = IF db = "up" THEN "down" ELSE "up"
    /\ since' = 0
    /\ UNCHANGED <<status, shuttingDown, timer, probe>>

\* A database that is up answers; one that is down refuses or says nothing.
DatabaseReplies(a) ==
    /\ probe[a] = "asked"
    /\ probe' = [probe EXCEPT ![a] = IF db = "up" THEN "answered" ELSE "refused"]
    /\ UNCHANGED <<status, shuttingDown, timer, db, since>>

\* A probe of a database that has been up all along.
Late(a) == db = "up" /\ Latency <= a /\ a <= since /\ probe[a] # "none"

\* Callbacks that are due run before time goes on.
Tick ==
    /\ timer # 0
    /\ probe[PROBE_TIMEOUT] = "none"
    /\ \A a \in Ages : ~Late(a)
    /\ timer' = IF timer > 0 THEN timer - 1 ELSE timer
    /\ probe' = [a \in Ages |-> IF a = 0 THEN "none" ELSE probe[a - 1]]
    /\ since' = IF since = Horizon THEN since ELSE since + 1
    /\ UNCHANGED <<status, shuttingDown, db>>

Next ==
    \/ \E a \in Ages : ProbeSucceeds(a) \/ ProbeFails(a) \/ DatabaseReplies(a)
    \/ IntervalFires \/ markShuttingDown \/ onModuleDestroy
    \/ DatabaseChanges \/ Tick

Spec == Init /\ [][Next]_vars

-----------------------------------------------------------------------------
(* Properties *)

\* Once the service has begun to shut down it is never SERVING again, whatever
\* probes it was waiting for (health.service.ts:82-88).
ShutdownIsFinal == shuttingDown => status = "NOT_SERVING"

\* Inventory's README, "Health check": when the database goes down the status
\* follows, although an earlier answer may arrive after a later failure
\* (health.service.ts:76-89).  Within an interval and two timeouts.
DownIsReported ==
    db = "down" /\ since > healthCheckInterval + 2 * PROBE_TIMEOUT => status = "NOT_SERVING"

\* And it comes back by itself when the database does (health.service.ts:49):
\* within an interval, a timeout and the time the database takes to answer.
UpIsReported ==
    db = "up" /\ since >= healthCheckInterval + PROBE_TIMEOUT + Latency /\ ~shuttingDown
        => status = "SERVING"
=============================================================================
