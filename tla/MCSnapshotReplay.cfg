CONSTANTS
    ValidatorSets <- MCValidatorSets
    TurnLengths = {1, 2}
    Epoch = 6
    GenesisRules = {"legacy", "snake8", "bohr"}
    Snake8TurnLength = 2
    MaxNumber = 15
    Parts = {"replay"}
SPECIFICATION MCSpec
INVARIANT RetrievedRight
CHECK_DEADLOCK FALSE
