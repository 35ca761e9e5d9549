\* The page's own calls, one at a time; no symmetry, for liveness.
SPECIFICATION PageSpec
CONSTANTS
    Payloads = {p1, p2}
    Workers = {w1}
    Elsewhere = {}
    None = None
PROPERTIES
    ReadyIsShown
