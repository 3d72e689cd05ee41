\* A timer without end, two changes of DNS, a fault and a reload.
SPECIFICATION FairSpec
CONSTANTS
    a = a
    b = b
    x = x
    y = y
    z = z
    Connections <- TwoHosts
    Addr4 = {x, y}
    Addr6 = {z}
    Answers <- FewAnswers
    MaxAttempts = 2
    MaxChanges = 2
    MaxFaults = 1
    MaxReloads = 1
PROPERTIES
    SwapIsAtomic
    RunOpensExactly
    ChainFollowsDns
CHECK_DEADLOCK FALSE
