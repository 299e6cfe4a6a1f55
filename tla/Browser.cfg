\* Two requests and a probe; the third session is for a context that leaked.
CONSTANTS
    r1 = r1
    r2 = r2
    p1 = p1
    s1 = s1
    s2 = s2
    s3 = s3
    Requests = {r1, r2}
    Probes = {p1}
    Sessions = {s1, s2, s3}
    None = None
    Settings <- MCSettings
    MaxBrowsers = 3
SPECIFICATION FairSpec
INVARIANTS
    IInv
    ContextPerRequest
    TornOnlyWhileWriting
PROPERTIES
    DeadBrowserIsPermanent
    TornFileIsPermanent
    EveryCallReturns
