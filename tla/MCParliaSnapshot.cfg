CONSTANTS
    ValidatorSets <- MCValidatorSets
    TurnLengths = {1, 2}
    Epoch = 6
    GenesisRules = {"legacy", "snake8", "bohr"}
    Snake8TurnLength = 2
    MaxNumber = 14
    Parts = {"branch", "replay"}
SPECIFICATION MCSpec
INVARIANTS TypeOK SealedBlocksApply SomeoneMaySeal TurnsRespected InturnMaySeal CheckpointInForce RetrievedWithinEra
PROPERTY OneSwitchPerEpoch
CHECK_DEADLOCK FALSE
