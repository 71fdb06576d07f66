SPECIFICATION Spec
CONSTANTS
    o1 = o1
    p1 = p1
    e1 = e1
    OrderIds = {o1, o2}
    Pairs = {p1}
    ExecIds = {e1}
    NoOrder = NoOrder
    NoPair = NoPair
    PairOf <- MCPairOf
    OrderOf <- MCOrderOf
    MaxLevels = 2
    CallsStart = FALSE
    CancelSeen = TRUE
    StatusSeen = TRUE
    DetailSeen = FALSE
    RecentSeen = TRUE
    CexImplemented = TRUE
    Faulty = TRUE
INVARIANTS
    TypeOK
    NoOutOfRange
    DanglingIndexDead
    MirrorsOnlyNew
PROPERTIES
    NeverForgetsLive
    ImplementsLedger
