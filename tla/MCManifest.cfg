SPECIFICATION Spec
CONSTANTS
    l1 = l1
    l2 = l2
    l3 = l3
    c1 = c1
    c2 = c2
    k1 = k1
    k2 = k2
    k3 = k3
    Lookup <- Lookups
    KeyOf <- LookedUp
    Part <- Parts
    KeysOf <- Names
    Stored <- Held
    Flawed <- Refused
    Histories <- Left
    OwnCap = 2
    BackCap = 8
    Drift = 10
    JudgeAfter = 2
    MinUse = 20
CHECK_DEADLOCK FALSE
INVARIANTS ClaimedLeftOut LandedIsLocal 
PROPERTIES NextBuildReadsIt AllEnd
