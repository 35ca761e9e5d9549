\* Progress of one payment through the page, with an answer lost, an outage or a
\* reload; no symmetry, for liveness.
SPECIFICATION FairSpec
CHECK_DEADLOCK FALSE
CONSTANTS
    Payloads = {q1}
    Calls = {c1, c2}
    MaxTrouble = 1
    Funded = TRUE
    None = None
PROPERTY PaymentIsShown
