SPECIFICATION FairSpec
CONSTANTS
    k1 = k1
    k2 = k2
    p1 = p1
    p2 = p2
    d1 = d1
    a = a
    b = b
    Key <- OneKey
    Putter <- TwoPutters
    Deleter <- OneDeleter
    Body <- TwoBodies
    Replaces <- AThenB
    WriteOnce = "content_differs"
    EvictionBatch = 1
    Excluded = {}
    MaxUploads = 3
    MaxTime = 1
INVARIANTS EvictsTheWalkedSecond
PROPERTIES SweepEnds
