SPECIFICATION Spec
CONSTANTS
    k1 = k1
    k2 = k2
    p1 = p1
    p2 = p2
    d1 = d1
    a = a
    b = b
    Key <- TwoKeys
    Putter <- TwoPutters
    Deleter = {}
    Body <- OneBody
    Replaces = {}
    WriteOnce = "never"
    EvictionBatch = 1
    Excluded = {"merge", "fresh", "gap", "twin"}
    MaxUploads = 3
    MaxTime = 2
SYMMETRY Perms
INVARIANTS UploadsListed NoPhantom
