CONSTANTS
    a1 = a1
    a2 = a2
    b2 = b2
    a3 = a3
    NoBlock = NoBlock
    Blocks = {a1, a2, b2, a3}
    NumberOf <- MCNumberOf  ParentOf <- MCParentOf  Votes <- MCVotes
    Lower = 2  Upper = 1  MaxCur = 1  MaxFuture = 2  MaxFails = 1
    Parts = {"pool", "loops", "worker", "faults"}
    Load = 7
SPECIFICATION MCSpec
INVARIANTS PoolInStep
PROPERTIES WindowKept EarlyVotesGoOn LoopsGoOn MinesOn
CHECK_DEADLOCK FALSE
