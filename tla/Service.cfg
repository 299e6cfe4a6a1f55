\* Two requests for one slot, with two attempts each.
CONSTANTS
    r1 = r1
    r2 = r2
    Requests = {r1, r2}
    Settings <- MCSettings
    WAYBILL_MAX_CONCURRENT = 1
    WAYBILL_MAX_RETRIES = 1
    PAGE_GOTO_MAX_RETRIES = 1
SPECIFICATION FairSpec
\* Every request ends.
CHECK_DEADLOCK FALSE
INVARIANTS
    IInv
    Accounted
    NoContextLeft
PROPERTIES
    ImplementsPromise
    EveryRequestAnswered
