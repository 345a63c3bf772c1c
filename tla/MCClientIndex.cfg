SPECIFICATION Spec
CONSTANTS
    p1 = p1
    p2 = p2
    k1 = k1
    NoProc = NoProc
    Proc <- Procs
    Key <- Keys
    Builder <- Builders
    Used <- Keys
    MaxEpoch = 2
INVARIANTS ChangesSurvive NoPhantomKey PositionFitsCopy LiveSetComplete
CHECK_DEADLOCK FALSE
