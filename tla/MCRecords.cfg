CONSTANTS
    Writer = {t1, t2}
    Key = {k1, k2}
    NoKey = NoKey
    MaxCalls = 5
    Thread = {t1, t2}
    Inode = {f1, f2, f3, f4}
    None = None
    MAX_ENTRIES = 2
    MaxLogged = 3
    EventLoop = EventLoop
    Pool = {p1}
    Account = {admin, viewer, eve}
    Seeded = {admin, viewer}
    Boss = admin
    MaxAccountCalls = 3
    MaxSaveFailures = 1
    MaxCrashes = 1
    Reader = {t1, t2}
    Ttl = 2
    ReadTime = 2
    NoDevices = NoDevices
    MaxEdits = 1
    MaxOutages = 1
    LastTick = 5
    Tab = {t1, t2}
    Item = {w1, w2}
    Device = {d1}
    Nothing = Nothing
    MaxWaiting = 1
    MaxClicks = 3
    MaxLost = 1
SPECIFICATION MCSpec
INVARIANTS NoDuplicateRows UndisturbedHistoryKept TrailInOrder LogWholeUnlessOverlapped SecurityEventsPersisted  AdminRemains AnswersAreRecent OwnEditsShown
PROPERTIES IncidentsSurviveUpdates
SYMMETRY Symmetric
CHECK_DEADLOCK FALSE
