\* One slot, its replacement request, and two handlers that race for it.
SPECIFICATION Spec
SYMMETRY Symmetry
CONSTANTS
    Slots = {s1}
    Requests = {q1, q2}
    Workers = {w1, w2}
    None = None
    Timely = FALSE
INVARIANTS
    RequestsAreSound
PROPERTIES
    RowNeverRegresses
    ReviewEndsByDecision
    ImplementsContract
