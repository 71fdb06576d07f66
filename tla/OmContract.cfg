CONSTANTS
    o1 = o1
    p1 = p1
    e1 = e1
    OrderIds = {o1, o2}
    Pairs = {p1, p2}
    ExecIds = {e1}
    NoOrder = NoOrder
    NoPair = NoPair
    PairOf <- MCPairOf
    OrderOf <- MCOrderOf
    MaxLevels = 1
    CallsStart = TRUE
    CancelSeen = TRUE
    StatusSeen = TRUE
    DetailSeen = TRUE
    RecentSeen = TRUE
    CexImplemented = TRUE
    Faulty = TRUE
SPECIFICATION Spec
INVARIANT KnownIsMirrored
PROPERTY NeverForgetsLive
