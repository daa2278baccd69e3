SPECIFICATION MCSpec
CONSTANTS
    s0 = s0
    s1 = s1
    s2 = s2
    n3 = n3
    Server = {s0, s1, s2}
    Leader = s0
    Newcomer = {n3}
    PollInterval = 1
    Settle = 2
    RetryInterval = 3
    MaxRetries = 2
    Outage = 2
    LowVersion = FALSE
    MaxBroken = 1
INVARIANTS UndisturbedPolling  RequestAfterAll
PROPERTIES ImplementsBarrier 
CHECK_DEADLOCK FALSE
