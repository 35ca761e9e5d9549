\* A handler of the page and one of another page, two payloads of one preparation,
\* one replacing the other.
SPECIFICATION PageSafety
SYMMETRY Symmetry
CONSTANTS
    Payloads = {p1, p2}
    Workers = {w1, w2}
    Elsewhere = {w2}
    None = None
INVARIANTS
    VerificationFollowsSignature
    RowIsBacked
    ReadyScreenIsTrue
PROPERTIES
    VerificationIsKept
