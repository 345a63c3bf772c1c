SPECIFICATION Spec
CONSTANTS
    o1 = o1
    o2 = o2
    o3 = o3
    u1 = u1
    u2 = u2
    Sweeper = Sweeper
    Drainer = Drainer
    None = None
    Obj <- Objs
    Uploader <- Uploaders
    Workers = 2
    JobsCap = 1
    ChanCap = 1
    BatchMax = 2
    MaxStops = 1
    MaxSweeps = 1
INVARIANTS NothingForgotten  OwedUntilAnswered SpoolOutlivesItsWork
PROPERTIES CloseReturns DrainEnds
CHECK_DEADLOCK FALSE
