CONSTANTS
    MaxNumber = 6
    MaxSource = 1
    Scope = 1
    Upper = 1
    JournalSize = 5
    Wait = 1
    ChanSize = 1
    MaxFaults = 1
    MaxExtra = 1
    NearHeads = TRUE
    Parts = {"votes", "vote monitor", "numbers", "restarts", "faults", "sign monitor"}
SPECIFICATION MCSpec
INVARIANTS MonitorExact NoDoubleSign HeapAndMapInStep
PROPERTY RulesKept
