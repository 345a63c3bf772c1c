SPECIFICATION Spec
CONSTANTS
    r1 = r1
    r2 = r2
    r3 = r3
    p1 = p1
    obj = obj
    junk = junk
    Index = Index
    None = None
    GetReader <- OneGet
    BatchReader <- OneBatch
    Putter <- OnePutter
    Body <- OneBody
    Frame <- OneBody
    MaxVersions = 2
INVARIANTS IndexAtPathRefused  
PROPERTIES EvictsWhatItRead
