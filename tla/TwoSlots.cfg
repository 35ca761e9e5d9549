\* Two slots of one Bill and two handlers: what they share is the Bill row. The ledger
\* window lies inside the request expiry, so a slot is not paid twice.
SPECIFICATION Spec
SYMMETRY Symmetry
VIEW WithoutAudit
CONSTANTS
    Slots = {s1, s2}
    Requests = {q1, q2}
    Workers = {w1, w2}
    None = None
    Timely = TRUE
INVARIANTS
    ReceiptsBackPaidSlots
    AtMostOnePayment
    BillAgreesWithSlots
    SlotStatusIsBacked
