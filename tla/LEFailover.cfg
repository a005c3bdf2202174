SPECIFICATION FairSpec
CONSTANTS
    a = a
    b = b
    c = c
    p = p
    q = q
    r = r
    Null = Null
    Instance <- TwoReplicas
    Pid <- OneProcess
    Mode <- BothElect
    Punctual = FALSE
    MaxInFlight <- Prompt
    MaxLeaked = 1
    MaxRestarts = 1
    MaxFaults = 1
PROPERTIES
    Failover
    
    DeposedStepsDown
CHECK_DEADLOCK FALSE
