\* DocumentedPayments: incomplete closure.
SPECIFICATION Spec
CONSTANTS
    Slots = {s1}
    Requests = {q1}
    Workers = {w1}
    None = None
    Timely = TRUE
PROPERTIES
    ClosureIsPossible
