------------------------ MODULE HealthService_proofs ------------------------
(***************************************************************************)
(* For every interval, timeout and latency: how long the status Inventory  *)
(* reports can lag behind its database.                                    *)
(***************************************************************************)
EXTENDS HealthService, TLAPS

T == PROBE_TIMEOUT
I == healthCheckInterval

\* A probe is on its way, or will be within the interval: both were, or will be,
\* asked at most `bound' ticks after the database changed.
Watched(bound) ==
    \/ timer >= 0 /\ since + timer <= bound
    \/ \E a \in Ages : probe[a] # "none" /\ since - a <= bound

\* A database that has been down for longer than a timeout is awaited by failing
\* probes only: an answer it gave is as old as the change.
DownInv ==
    db = "down" =>
        /\ \A a \in Ages : probe[a] = "answered" => a >= since
        /\ status = "SERVING" /\ since > T => Watched(I + T)

\* One that has been up that long is awaited by young probes only.
UpInv ==
    db = "up" =>
        /\ \A a \in Ages : probe[a] # "none" => a > since \/ a <= Latency
        /\ \A a \in Ages : probe[a] = "refused" => a >= since
        /\ status = "NOT_SERVING" /\ ~shuttingDown /\ since >= T => Watched(I + T - 1)

HInv ==
    /\ TypeOK
    /\ timer = Unset => status = "NOT_SERVING" /\ \E a \in Ages : probe[a] # "none" /\ since <= a
    /\ timer = Cleared => shuttingDown
    /\ ShutdownIsFinal
    /\ DownInv
    /\ UpInv

\* What the assumptions say about the numbers in use.
LEMMA Numbers ==
    /\ I \in Nat /\ I >= 1 /\ T \in Nat /\ T >= 1 /\ Latency \in Nat /\ Latency < T
    /\ \A a \in Ages : a \in Nat /\ a <= T
    /\ 0 \in Ages /\ Horizon = I + T + T + 1
BY TimeAssumption DEF I, T, Ages, Horizon

\* A service that has just started: one probe of age 0.
LEMMA InitHInv == Init => HInv
<1> SUFFICES ASSUME Init PROVE HInv
    OBVIOUS
<1>1. TypeOK
    <2>1. since \in 0..Horizon /\ timer \in {Unset, Cleared}
        BY Numbers DEF Init
    <2>2. probe \in [Ages -> {"none", "asked", "answered", "refused"}]
        BY DEF Init
    <2> QED BY <2>1, <2>2 DEF Init, TypeOK
<1>2. timer = Unset => status = "NOT_SERVING" /\ \E a \in Ages : probe[a] # "none" /\ since <= a
    BY Numbers DEF Init
<1>3. DownInv /\ UpInv
    BY Numbers DEF Init, DownInv, UpInv
<1> QED BY <1>1, <1>2, <1>3 DEF Init, HInv, ShutdownIsFinal, Unset, Cleared

\* The end of a probe: a success is young enough, and a failure old enough, to be true.
LEMMA ProbeKeepsHInv ==
    ASSUME HInv, NEW a \in Ages, ProbeSucceeds(a) \/ ProbeFails(a)
    PROVE  HInv'
<1> USE Numbers
<1>1. /\ probe[a] # "none" /\ probe' = [probe EXCEPT ![a] = "none"]
      /\ UNCHANGED <<shuttingDown, db, since>>
      /\ timer' = IF timer = Unset THEN I ELSE timer
      /\ shuttingDown => status' = status
      /\ since \in Nat
    BY DEF ProbeSucceeds, ProbeFails, Ended, setStatus, HInv, TypeOK, Horizon, I
<1>2. TypeOK'
    BY <1>1 DEF HInv, TypeOK, ProbeSucceeds, ProbeFails, setStatus, I
<1>3. timer' # Unset /\ (timer' = Cleared => shuttingDown') /\ ShutdownIsFinal'
    BY <1>1 DEF HInv, Unset, Cleared, ShutdownIsFinal
<1>4. \A b \in Ages : probe'[b] # "none" => probe'[b] = probe[b]
    BY <1>1 DEF HInv, TypeOK
<1>5. DownInv'
    <2> SUFFICES ASSUME db = "down", status' = "SERVING", since > T PROVE FALSE
        BY <1>1, <1>4 DEF HInv, DownInv
    <2>1. ~shuttingDown /\ probe[a] = "answered"
        <3>1. ~shuttingDown
            BY <1>1 DEF HInv, ShutdownIsFinal
        <3> QED BY <3>1 DEF ProbeSucceeds, ProbeFails, setStatus
    <2> QED BY <1>1, <2>1 DEF HInv, DownInv
<1>6. UpInv'
    <2> SUFFICES ASSUME db = "up", status' = "NOT_SERVING", ~shuttingDown, since >= T PROVE FALSE
        BY <1>1, <1>4 DEF HInv, UpInv
    <2>1. probe[a] = "refused" \/ a = T
        BY DEF ProbeSucceeds, ProbeFails, setStatus, T
    <2> QED BY <1>1, <2>1 DEF HInv, UpInv
<1> QED BY <1>2, <1>3, <1>5, <1>6 DEF HInv

\* The interval asks again: the new probe takes over from the timer.
LEMMA IntervalKeepsHInv ==
    ASSUME HInv, IntervalFires
    PROVE  HInv'
<1> USE Numbers
<1>1. /\ timer = 0 /\ timer' = I /\ UNCHANGED <<status, shuttingDown, db, since>>
      /\ probe' = [probe EXCEPT ![0] = IF shuttingDown THEN @ ELSE "asked"]
      /\ since \in Nat /\ (shuttingDown' <=> shuttingDown)
    BY DEF IntervalFires, HInv, TypeOK, I
<1>2. TypeOK'
    BY <1>1 DEF HInv, TypeOK, I
<1>3. /\ probe' \in [Ages -> {"none", "asked", "answered", "refused"}]
      /\ \A a \in Ages : a # 0 => probe'[a] = probe[a]
      /\ shuttingDown => probe' = probe
      /\ ~shuttingDown => probe'[0] = "asked"
    BY <1>1 DEF HInv, TypeOK
<1>4. DownInv'
    <2>1. db = "down" => \A a \in Ages : probe'[a] = "answered" => a >= since
        BY <1>3 DEF HInv, DownInv
    <2>2. ASSUME db = "down", status = "SERVING", since > T PROVE Watched(I + T)'
        <3>1. since - 0 <= I + T \/ \E a \in Ages : probe[a] # "none" /\ since - a <= I + T
            BY <1>1, <2>2 DEF HInv, DownInv, Watched
        <3>2. ~shuttingDown
            BY <2>2 DEF HInv, ShutdownIsFinal
        <3>3. \A a \in Ages : probe[a] # "none" => probe'[a] # "none"
            BY <1>3, <3>2
        <3> QED BY <1>1, <1>3, <3>1, <3>2, <3>3 DEF Watched
    <2> QED BY <1>1, <2>1, <2>2 DEF DownInv
<1>5. UpInv'
    <2>1. db = "up" => \A a \in Ages : probe'[a] # "none" => a > since \/ a <= Latency
        BY <1>3 DEF HInv, UpInv
    <2>2. db = "up" => \A a \in Ages : probe'[a] = "refused" => a >= since
        BY <1>3 DEF HInv, UpInv
    <2>3. ASSUME db = "up", status = "NOT_SERVING", ~shuttingDown, since >= T
          PROVE  Watched(I + T - 1)'
        <3>1. since - 0 <= I + T - 1 \/ \E a \in Ages : probe[a] # "none" /\ since - a <= I + T - 1
            BY <1>1, <2>3 DEF HInv, UpInv, Watched
        <3>2. \A a \in Ages : probe[a] # "none" => probe'[a] # "none"
            BY <1>3, <2>3
        <3>3. probe'[0] # "none" /\ since' = since
            BY <1>1, <1>3, <2>3
        <3> QED BY <3>1, <3>2, <3>3 DEF Watched
    <2> QED BY <1>1, <2>1, <2>2, <2>3 DEF UpInv
<1> QED BY <1>1, <1>2, <1>4, <1>5 DEF HInv, ShutdownIsFinal, Unset, Cleared

\* The signal withdraws the service, and from then on only that matters.
LEMMA ShutdownKeepsHInv ==
    ASSUME HInv, markShuttingDown
    PROVE  HInv'
<1> USE Numbers DEF markShuttingDown
<1>1. TypeOK'
    BY DEF HInv, TypeOK, Unset, Cleared
<1>2. DownInv' /\ UpInv'
    BY DEF HInv, DownInv, UpInv
<1> QED BY <1>1, <1>2 DEF HInv, ShutdownIsFinal, Unset, Cleared

\* Without its timer a service that shuts down is still withdrawn.
LEMMA DestroyKeepsHInv ==
    ASSUME HInv, onModuleDestroy
    PROVE  HInv'
<1> USE DEF onModuleDestroy
<1>1. TypeOK'
    BY DEF HInv, TypeOK
<1>2. DownInv' /\ UpInv'
    BY DEF HInv, DownInv, UpInv, ShutdownIsFinal
<1> QED BY <1>1, <1>2 DEF HInv, ShutdownIsFinal, Unset, Cleared

\* A change of the database starts the count again.
LEMMA DatabaseKeepsHInv ==
    ASSUME HInv, DatabaseChanges
    PROVE  HInv'
<1> USE Numbers DEF DatabaseChanges
<1>1. TypeOK'
    BY DEF HInv, TypeOK
<1>2. DownInv' /\ UpInv'
    BY DEF HInv, TypeOK, DownInv, UpInv
<1> QED BY <1>1, <1>2 DEF HInv, ShutdownIsFinal

\* A reply says what the database is at that moment.
LEMMA ReplyKeepsHInv ==
    ASSUME HInv, NEW b \in Ages, DatabaseReplies(b)
    PROVE  HInv'
<1> USE Numbers
<1>1. /\ UNCHANGED <<status, shuttingDown, timer, db, since>> /\ probe[b] = "asked"
      /\ probe'[b] = IF db = "up" THEN "answered" ELSE "refused"
      /\ \A a \in Ages : a # b => probe'[a] = probe[a]
      /\ \A a \in Ages : (probe'[a] # "none") <=> (probe[a] # "none")
    BY DEF DatabaseReplies, HInv, TypeOK
<1>2. TypeOK'
    BY DEF DatabaseReplies, HInv, TypeOK
<1>3. Watched(I + T)' = Watched(I + T) /\ Watched(I + T - 1)' = Watched(I + T - 1)
    BY <1>1 DEF Watched
<1>4. DownInv' /\ UpInv'
    BY <1>1, <1>3 DEF HInv, DownInv, UpInv
<1> QED BY <1>1, <1>2, <1>4 DEF HInv, ShutdownIsFinal

\* Time: the probes age as the count grows, and the last ones end within the timeout.
LEMMA TickKeepsHInv ==
    ASSUME HInv, Tick
    PROVE  HInv'
<1> USE Numbers
<1>1. /\ timer # 0 /\ probe[T] = "none" /\ UNCHANGED <<status, shuttingDown, db>>
      /\ timer' = IF timer > 0 THEN timer - 1 ELSE timer
      /\ \A a \in Ages : probe'[a] = IF a = 0 THEN "none" ELSE probe[a - 1]
      /\ since' = IF since = Horizon THEN since ELSE since + 1
      /\ timer \in {Unset, Cleared} \cup 0..I /\ since \in 0..Horizon
    BY DEF Tick, HInv, TypeOK, T, I
<1>2. /\ \A a \in Ages : probe'[a] # "none" => a - 1 \in Ages /\ probe'[a] = probe[a - 1]
      /\ \A a \in Ages : probe[a] # "none" => a + 1 \in Ages /\ probe'[a + 1] = probe[a]
    <2>1. \A a \in Ages : a # 0 => a - 1 \in Ages
        BY DEF Ages, T
    <2>2. \A a \in Ages : a # T => a + 1 \in Ages /\ (a + 1) - 1 = a /\ a + 1 # 0
        BY DEF Ages, T
    <2> QED BY <1>1, <2>1, <2>2
<1>3. TypeOK'
    <2>1. timer' \in {Unset, Cleared} \cup 0..I /\ since' \in 0..Horizon
        BY <1>1 DEF Unset, Cleared
    <2>2. probe' \in [Ages -> {"none", "asked", "answered", "refused"}]
        <3>1. \A a \in Ages : a # 0 => a - 1 \in Ages
            BY DEF Ages, T
        <3> QED BY <3>1 DEF Tick, HInv, TypeOK
    <2> QED BY <1>1, <2>1, <2>2 DEF HInv, TypeOK, I
<1>4. since' <= since + 1 /\ since' >= since /\ since \in Nat /\ since' \in Nat
    BY <1>1
<1>5. timer' = Unset => status' = "NOT_SERVING" /\ \E a \in Ages : probe'[a] # "none" /\ since' <= a
    <2> SUFFICES ASSUME timer' = Unset
                 PROVE  status' = "NOT_SERVING" /\ \E a \in Ages : probe'[a] # "none" /\ since' <= a
        OBVIOUS
    <2>1. timer = Unset
        BY <1>1 DEF Unset, Cleared
    <2>2. PICK a \in Ages : probe[a] # "none" /\ since <= a
        BY <2>1 DEF HInv
    <2>3. a + 1 \in Ages /\ probe'[a + 1] # "none" /\ since' <= a + 1
        BY <1>2, <1>4, <2>2
    <2> QED BY <1>1, <2>1, <2>3 DEF HInv
<1>6. timer' = Cleared => shuttingDown'
    BY <1>1 DEF HInv, Unset, Cleared
\* Both grow by one: the age of a probe and the time since the change.
<1>7. ASSUME NEW bound \in Int, Watched(bound), since' = since + 1 PROVE Watched(bound)'
    <2>1. CASE timer >= 0 /\ since + timer <= bound
        <3>1. timer' >= 0 /\ since' + timer' <= bound
            BY <1>1, <1>4, <1>7, <2>1 DEF Unset, Cleared
        <3> QED BY <3>1 DEF Watched
    <2>2. CASE \E a \in Ages : probe[a] # "none" /\ since - a <= bound
        <3>1. PICK a \in Ages : probe[a] # "none" /\ since - a <= bound
            BY <2>2
        <3>2. a + 1 \in Ages /\ probe'[a + 1] # "none" /\ since' - (a + 1) <= bound
            BY <1>2, <1>4, <1>7, <3>1
        <3> QED BY <3>2 DEF Watched
    <2> QED BY <1>7, <2>1, <2>2 DEF Watched
\* No such probe is left when the count has reached the horizon.
<1>8. ASSUME NEW bound \in Int, Watched(bound), bound <= I + T PROVE since' = since + 1
    BY <1>1, <1>4, <1>8 DEF Watched, Unset, Cleared
\* Now the timer is running, and fires in less than an interval.
<1>9. ASSUME timer # Unset, ~shuttingDown PROVE timer' >= 0 /\ timer' <= I - 1
    BY <1>1, <1>9 DEF HInv, Unset, Cleared
<1>10. DownInv'
    <2>1. db = "down" => \A a \in Ages : probe'[a] = "answered" => a >= since'
        <3> SUFFICES ASSUME db = "down", NEW a \in Ages, probe'[a] = "answered" PROVE a >= since'
            OBVIOUS
        <3>1. a - 1 \in Ages /\ a - 1 >= since
            BY <1>2 DEF HInv, DownInv
        <3> QED BY <1>4, <3>1
    <2>2. ASSUME db = "down", status = "SERVING", since' > T PROVE Watched(I + T)'
        <3>1. ~shuttingDown /\ timer # Unset
            BY <2>2 DEF HInv, ShutdownIsFinal
        <3>2. CASE since > T
            <4>1. Watched(I + T)
                BY <2>2, <3>2 DEF HInv, DownInv
            <4> QED BY <1>7, <1>8, <4>1
        <3>3. CASE since <= T
            <4>1. since' = T + 1 /\ timer' >= 0 /\ timer' <= I - 1 /\ timer' \in Int
                BY <1>1, <1>4, <1>9, <2>2, <3>1, <3>3
            <4>2. ASSUME NEW n \in Int, n <= I - 1 PROVE (T + 1) + n <= I + T
                BY <4>2
            <4>3. (T + 1) + timer' <= I + T
                BY <4>1, <4>2
            <4> QED BY <4>1, <4>3 DEF Watched
        <3> QED BY <1>4, <3>2, <3>3
    <2> QED BY <1>1, <2>1, <2>2 DEF DownInv
<1>11. UpInv'
    <2>1. ASSUME db = "up", NEW a \in Ages, probe'[a] # "none" PROVE a > since' \/ a <= Latency
        <3>1. /\ a - 1 \in Ages /\ probe[a - 1] # "none"
              /\ a - 1 > since \/ a - 1 <= Latency
            BY <1>2, <2>1 DEF HInv, UpInv
        <3>2. ~(Latency <= a - 1 /\ a - 1 <= since)
            BY <2>1, <3>1 DEF Tick, Late
        <3> QED BY <1>4, <3>1, <3>2
    <2>2. ASSUME db = "up", NEW a \in Ages, probe'[a] = "refused" PROVE a >= since'
        <3>1. a - 1 \in Ages /\ a - 1 >= since
            BY <1>2, <2>2 DEF HInv, UpInv
        <3> QED BY <1>4, <3>1
    <2>3. ASSUME db = "up", status = "NOT_SERVING", ~shuttingDown, since' >= T
          PROVE  Watched(I + T - 1)'
        <3>1. CASE since >= T
            <4>1. Watched(I + T - 1)
                BY <2>3, <3>1 DEF HInv, UpInv
            <4> QED BY <1>7, <1>8, <4>1
        <3>2. CASE since < T
            <4>1. since' = T /\ since = T - 1
                BY <1>1, <1>4, <2>3, <3>2
            <4>2. timer # Unset
                <5> SUFFICES ASSUME timer = Unset PROVE FALSE
                    OBVIOUS
                <5>1. PICK a \in Ages : probe[a] # "none" /\ since <= a
                    BY DEF HInv
                <5>2. a = T - 1
                    BY <1>1, <4>1, <5>1
                <5> QED BY <2>3, <4>1, <5>1, <5>2 DEF HInv, UpInv, Tick, Late
            <4>3. timer' >= 0 /\ since' + timer' <= I + T - 1
                BY <1>1, <1>9, <2>3, <4>1, <4>2
            <4> QED BY <4>3 DEF Watched
        <3> QED BY <1>4, <3>1, <3>2
    <2> QED BY <1>1, <2>1, <2>2, <2>3 DEF UpInv
<1> QED BY <1>1, <1>3, <1>5, <1>6, <1>10, <1>11 DEF HInv, ShutdownIsFinal

\* Every step.
LEMMA NextKeepsHInv == HInv /\ [Next]_vars => HInv'
<1>1. HInv /\ UNCHANGED vars => HInv'
    BY DEF vars, HInv, TypeOK, ShutdownIsFinal, DownInv, UpInv, Watched
<1> QED
    BY <1>1, ProbeKeepsHInv, IntervalKeepsHInv, ShutdownKeepsHInv, DestroyKeepsHInv,
       DatabaseKeepsHInv, ReplyKeepsHInv, TickKeepsHInv DEF Next

\* The inductive invariant: the status is out of date only while a probe that will
\* put it right is on its way, or due within the interval.
THEOREM HealthInvariance == Spec => []HInv
BY InitHInv, NextKeepsHInv, PTL DEF Spec

\* A service that shuts down stays withdrawn, whatever its probes return.
THEOREM Withdrawn == Spec => []ShutdownIsFinal
<1>1. HInv => ShutdownIsFinal
    BY DEF HInv
<1> QED BY <1>1, HealthInvariance, PTL

\* A database that is down is reported within an interval and two timeouts.
THEOREM DownReported == Spec => []DownIsReported
<1>1. HInv => DownIsReported
    <2> SUFFICES ASSUME HInv, db = "down", since > I + 2 * T, status = "SERVING" PROVE FALSE
        BY DEF DownIsReported, HInv, TypeOK, I, T
    <2>1. since \in Nat /\ timer \in Int
        BY Numbers DEF HInv, TypeOK, Unset, Cleared
    <2>2. Watched(I + T)
        BY <2>1, Numbers DEF HInv, DownInv
    <2> QED BY <2>1, <2>2, Numbers DEF Watched
<1> QED BY <1>1, HealthInvariance, PTL

\* One that is up is reported within an interval, a timeout and its latency.
THEOREM UpReported == Spec => []UpIsReported
<1>1. HInv => UpIsReported
    <2> SUFFICES ASSUME HInv, db = "up", since >= I + T + Latency, ~shuttingDown,
                        status = "NOT_SERVING"
                 PROVE  FALSE
        BY DEF UpIsReported, HInv, TypeOK, I, T
    <2>1. since \in Nat /\ timer \in Int
        BY Numbers DEF HInv, TypeOK, Unset, Cleared
    <2>2. Watched(I + T - 1)
        BY <2>1, Numbers DEF HInv, UpInv
    <2> QED BY <2>1, <2>2, Numbers DEF HInv, UpInv, Watched
<1> QED BY <1>1, HealthInvariance, PTL
=============================================================================
