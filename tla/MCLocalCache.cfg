SPECIFICATION DiskSpec
CONSTANTS
    c1 = c1
    c2 = c2
    g1 = g1
    p1 = p1
    p2 = p2
    g2 = g2
    a1 = a1
    o1 = o1
    o2 = o2
    None = None
    Child <- Children
    Req <- Requests
    Kind <- KindOf
    By <- MadeBy
    Action <- ActionOf
    Out <- OutputOf
    Served <- ServedFor
    Left <- LeftBehind
    Faulty <- FailOther
CHECK_DEADLOCK FALSE
INVARIANTS SizeMeansBytes AnsweredIsWhole
PROPERTIES AsksReturn
