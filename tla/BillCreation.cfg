\* One Bill from its draft to its last payment. The system stops when every slot
\* of the Bill is paid.
SPECIFICATION Spec
SYMMETRY Symmetry
CHECK_DEADLOCK FALSE
CONSTANTS
    Payers = {p1, p2, p3}
    Totals = {4, 5}
    Shares = {0, 1}
    Values <- SmallValues
    Extra = {0, 1}
    Network = "testnet"
    None = None
INVARIANTS
    ProgressIsAvailable
    RecordsExplainTheBill
    SplitIsFair
    CopyReproducesTheBill
PROPERTIES
    ExactDraftsAreAccepted
