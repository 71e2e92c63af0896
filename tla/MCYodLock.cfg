SPECIFICATION FairSpec
CONSTANTS
    g1 = g1
    g2 = g2
    g3 = g3
    Goroutines = {g1, g2, g3}
    NoOwner = NoOwner
    MaxOpen = 2
    MaxNest = 2
INVARIANTS OneRunner DepthCountsBrackets NoLostWakeup
PROPERTIES NotIdleForever ImplementsRunLock
