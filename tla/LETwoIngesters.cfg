SPECIFICATION Spec
CONSTANTS
    a = a
    b = b
    c = c
    p = p
    q = q
    r = r
    Null = Null
    Instance <- TwoReplicas
    Pid <- TwoProcesses
    Mode <- BothElect
    Punctual = TRUE
    MaxInFlight <- SlowA
    MaxLeaked = 1
    MaxRestarts = 1
    MaxFaults = 0
INVARIANTS
    OneIngesterPerReplica
CHECK_DEADLOCK FALSE
