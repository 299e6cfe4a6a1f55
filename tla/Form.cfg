\* Both kinds of form, three attempts at a visit, every fault; a choice, a text
\* and the text of the last stage that the request may lack.
CONSTANTS
    PAGE_GOTO_MAX_RETRIES = 2
    Layouts = {"split", "single"}
    Extras = {"cargoType", "plate", "cost"}
    Faults = {"net", "other", "reload", "late", "unconfirmed", "assumed"}
SPECIFICATION FairSpec
\* Every run ends.
CHECK_DEADLOCK FALSE
INVARIANTS
    IInv
    HonoursContract
    TakenComplete
PROPERTIES
    EveryRunEnds
