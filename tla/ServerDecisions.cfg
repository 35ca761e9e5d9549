\* Every request of the page over two endpoints that lag or fail. A request ends
\* with its answer. One slot whose payments two handlers verify and store.
SPECIFICATION ServerSpec
CHECK_DEADLOCK FALSE
CONSTANTS
    Cases <- AllCases
    Endpoints = 2
    MaxPages = 2
    MaxTrouble = 1
    None = None
    MaxDigits = 9
    Handlers = {h1, h2}
    Transactions = {t1, t2}
    MaxTime = 3
    Nil = Nil
INVARIANTS
    VerifiedPaysTheSlot
    RetryIsSafe
    ReviewIsRecorded
    ReadinessIsTrue
    PlanIsEnough
    PaidSlotIsProven
PROPERTIES
    PaymentIsVerified
    ReverificationIsIdempotent
