\* A whole release with one failure or mistake, and the databases of two of its moments.
SPECIFICATION FairSpec
CHECK_DEADLOCK FALSE
CONSTANTS
    WindowTicks = 2
    MaxTrouble = 3
    MaxRuns = 3
    MaxMigrations = 3
INVARIANTS
    PaymentsAreAuthorized
    DatabaseEvidenceIsTrue
PROPERTIES
    ImportsAreChecked
    ForgottenWindowCloses
