CONSTANTS
    max_retries = 2
    timeout_seconds = 6
    poll_seconds = 2
    CreateTimeout = 3
    PollTimeout = 2
    Lags = {0, 1, 2, 3}
    CaptchaFaults = {"net", "odd"}
SPECIFICATION CaptchaSpec
\* The call ends.
CHECK_DEADLOCK FALSE
INVARIANTS
    AnswerIsCurrent
    PaidTaskUsed
    TimeBounded
