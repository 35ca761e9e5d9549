\* Progress under a page that keeps polling; no symmetry, for liveness.
SPECIFICATION FairSpec
CONSTANTS
    Slots = {s1}
    Requests = {q1, q2}
    Workers = {w1}
    None = None
    Timely = FALSE
PROPERTIES
    ImplementsFairContract
