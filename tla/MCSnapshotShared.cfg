CONSTANTS
    va = va
    vb = vb
    vc = vc
    f1 = f1
    f2 = f2
    NoData = NoData
    Workers = {w1, w2}
    Validators <- MCValidators
    FreqData <- MCFreqData
    Absent = Absent
    Parsed <- MCParsed
    InTurn <- MCInTurn
    Val = va
    Parts = {"cache"}
    Reverts = {}
SPECIFICATION MCSpec
INVARIANT VerdictsRight
