CONSTANTS
    g = g
    a1 = a1
    a2 = a2
    a3 = a3
    b1 = b1
    b2 = b2
    b3 = b3
    v1 = v1
    v2 = v2
    v3 = v3
    f = f
    Validators = {v1, v2, v3, f}
    Faulty = {f}
    Hash = {g, a1, a2, a3, b1, b2, b3}
    Genesis = g
    Number <- MCNumber
    ParentHash <- MCParentHash
    Difficulty <- MCDifficulty
    Nil = Nil
SPECIFICATION Spec
CONSTRAINTS LeavesUnvoted HeadApart
SYMMETRY Symmetry
INVARIANTS TypeOK OneJustifiedPerNumber FinalityLock
INVARIANT FinalizedAgreement
PROPERTY FinalizedNeverReverted
CHECK_DEADLOCK FALSE
