\* A site whose forms all fit, that may reject what it is sent.
CONSTANTS
    PAGE_GOTO_MAX_RETRIES = 2
    Layouts = {"split"}
    Extras = {}
    Faults = {"other", "assumed"}
SPECIFICATION Spec
\* Every run ends.
CHECK_DEADLOCK FALSE
INVARIANTS
    SubmittedIsTaken
