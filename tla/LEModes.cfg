SPECIFICATION Spec
CONSTANTS
    a = a
    b = b
    c = c
    p = p
    q = q
    r = r
    Null = Null
    Instance <- ThreeReplicas
    Pid <- TwoProcesses
    Mode <- EachMode
    Punctual = FALSE
    MaxInFlight <- SlowB
    MaxLeaked = 1
    MaxRestarts = 1
    MaxFaults = 1
INVARIANTS
    ElectionGoesOn
CHECK_DEADLOCK FALSE
