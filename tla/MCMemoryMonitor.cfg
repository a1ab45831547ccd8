SPECIFICATION FairSpec
CONSTANTS
    Memory = {0, 1, 2}
    Thresholds = {1, 2}
    Swap = {0, 1}
    SwapLimits = {0}
    Window = 3
INVARIANTS
    WarningsMatch
    ListenerKnows
PROPERTIES
    MonitorKeepsUp
