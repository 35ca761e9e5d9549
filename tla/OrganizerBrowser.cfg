\* Two Bills, each with a slot that may go to review; two tabs and two wallets.
SPECIFICATION BrowserSpec
CHECK_DEADLOCK FALSE
CONSTANTS
    b1 = b1
    b2 = b2
    s1 = s1
    s2 = s2
    Bills = {b1, b2}
    Owner <- OneSlotEach
    MaxChanges = 2
    MaxTrouble = 1
    MaxCalls = 3
    None = None
    Tabs = {t1, t2}
    Wallets = {w1, w2}
    Tags = {1}
    MaxWrites = 2
    NoTag = NoTag
    NoRecord = NoRecord
INVARIANTS
    PanelIsCurrent
    DecisionsNameTheirBill
    RecordsStayReadable
PROPERTIES
    ReviewIsReleased
    PayerUseKeepsTheTag
