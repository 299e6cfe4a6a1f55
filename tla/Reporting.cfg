\* Two days and four reports by three coroutines.
CONSTANTS
    t1 = t1
    t2 = t2
    t3 = t3
    w1 = w1
    w2 = w2
    Tasks = {t1, t2, t3}
    Workers = {w1, w2}
    None = None
    Events = {"success", "map"}
    Settings <- MCSettings
    MaxDay = 2
    MaxCalls = 4
SPECIFICATION FairSpec
\* Calls are bounded, so the model ends.
CHECK_DEADLOCK FALSE
INVARIANTS
    IInv
    ReportsAgree
PROPERTIES
    CommitsInTime
    ImplementsLedger
    EveryReportEnds
