SPECIFICATION Spec
CONSTANTS
    a = a
    b = b
    c = c
    p = p
    q = q
    r = r
    Null = Null
    Instance <- TwoReplicas
    Pid <- ThreeProcesses
    Mode <- BothElect
    Punctual = TRUE
    MaxInFlight <- Prompt
    MaxLeaked = 1
    MaxRestarts = 1
    MaxFaults = 3
INVARIANTS
    NoOrphan
    OneIngester
PROPERTY
    LeaseSpec
SYMMETRY ReplicaSymmetry
CHECK_DEADLOCK FALSE
