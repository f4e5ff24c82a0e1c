CONSTANTS
    va = va
    vb = vb
    vc = vc
    f1 = f1
    f2 = f2
    NoData = NoData
    Workers = {w1, w2}
    Validators <- MCValidators
    FreqData <- MCFreqData
    Absent = Absent
    Parsed <- MCParsedOrNot
    InTurn <- MCInTurn
    Val = va
    Parts = {"frequency", "cache", "system", "branches", "journal", "tx", "block", "shared"}
    Reverts = {}
SPECIFICATION MCSpec
INVARIANTS UndisturbedRight UndisturbedAgree FrequenciesFair BuiltIsImported PassedOn ForkStepsOnce SnapshotAgrees
PROPERTIES WorldSpec HistoryReverts
CHECK_DEADLOCK FALSE
