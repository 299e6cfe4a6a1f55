\* Every combination of the settings, two login URLs.
CONSTANTS
    Configs <- MCConfigs
    LoginUrls = 2
    Faults = {"net", "other", "late", "operator", "errorPage", "kept", "missed"}
SPECIFICATION Spec
\* Every attempt ends.
CHECK_DEADLOCK FALSE
INVARIANTS
    NoBlindClick
    RefusalTruthful
    CaptchaModeHonoured
