\* The payer's page with every race of its calls. It stops when the slot is paid
\* and no call is left.
SPECIFICATION Spec
SYMMETRY Symmetry
CHECK_DEADLOCK FALSE
CONSTANTS
    Payloads = {q1, q2}
    Calls = {c1, c2}
    MaxTrouble = 1
    Funded = TRUE
    None = None
INVARIANTS
    PaidScreenIsTrue
    OneVerificationPerPayload
    BusyScreensEnd
