SPECIFICATION Spec
CONSTANTS
    healthCheckInterval = 2
    PROBE_TIMEOUT = 5
    Latency = 2
INVARIANTS ShutdownIsFinal DownIsReported UpIsReported
