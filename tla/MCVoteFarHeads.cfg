CONSTANTS
    MaxNumber = 4
    MaxSource = 1
    Scope = 1
    Upper = 1
    JournalSize = 5
    Wait = 1
    ChanSize = 1
    MaxFaults = 0
    MaxExtra = 0
    NearHeads = FALSE
    Parts = {"votes"}
SPECIFICATION MCSpec
PROPERTY RulesKept
