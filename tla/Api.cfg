\* Two clients with two calls each; room for 31 samples.
CONSTANTS
    c1 = c1
    c2 = c2
    Clients = {c1, c2}
    MaxCalls = 2
    Settings <- MCSettings
    Latencies = {0, 15}
    SampleFloor = 31
    LATENCY_SAMPLE_MAX = 30
SPECIFICATION Spec
\* Every client is answered or gives up.
CHECK_DEADLOCK FALSE
INVARIANTS
    SubmitsOnce
    GuardAsDocumented
    TelemetryExact
    ReportSound
