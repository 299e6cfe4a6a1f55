\* Two permits for three requests; a gap of 1 or 2 and backoffs of 2 or 3.
CONSTANTS
    t1 = t1
    t2 = t2
    t3 = t3
    Tasks = {t1, t2, t3}
    NoTask = NoTask
    ModeOf <- MCModeOf
    WAYBILL_MAX_CONCURRENT = 2
    WAYBILL_MIN_GAP = 1
    WAYBILL_JITTER = 1
    WAYBILL_BLOCK_BACKOFF = 2
    WAYBILL_BLOCK_BACKOFF_MAX = 3
    Multipliers = {1, 2}
SPECIFICATION FairSpec
INVARIANTS
    IInv
    CountersExact
    NoLostWakeup
PROPERTIES
    AdmissionPaced
    ServedInOrder
    ImplementsPool
    NobodyWaitsForever
