SPECIFICATION Spec
CONSTANTS
    k1 = k1
    k2 = k2
    other = other
    p = p
    full = full
    short = short
    c1 = c1
    c2 = c2
    Key <- AllKeys
    ActionKey <- CacheKeys
    Form <- Forms
    Name <- AllNames
    Abbrev <- Cut
    Client <- Clients
    EntriesOff = FALSE
    AddLogLimit = 1
    MaxEpoch = 2
    MaxEntries = 2
SYMMETRY Perms
INVARIANTS CopyPlusLog
PROPERTIES AnswersAreCurrent ImplementsAdvertisedKeys
