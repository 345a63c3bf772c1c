SPECIFICATION Spec
CONSTANTS
    k1 = k1
    k2 = k2
    p1 = p1
    p2 = p2
    d1 = d1
    a = a
    b = b
    Key <- TwoKeys
    Putter <- OnePutter
    Deleter = {}
    Body <- OneBody
    Replaces = {}
    WriteOnce = "never"
    EvictionBatch = 2
    Excluded = {"fresh", "gap", "twin"}
    MaxUploads = 2
    MaxTime = 1
INVARIANTS UploadsListed
