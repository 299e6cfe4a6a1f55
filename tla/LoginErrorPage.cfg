\* The settings of the README; the site answers a visitor without a session with an error page.
CONSTANTS
    Configs <- MCReadme
    LoginUrls = 2
    Faults = {"errorPage"}
SPECIFICATION Spec
\* Every attempt ends.
CHECK_DEADLOCK FALSE
INVARIANTS
    SavedSignedIn
