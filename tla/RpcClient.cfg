SPECIFICATION FairSpec
CONSTANTS
    Settings <- MCSettings
    MaxEpoch = 3
    MaxHeight = 2
INVARIANTS TypeOK AnswerIsCurrent RefusedOnlyByTwoRestarts PasswordSurvivesRestarts
PROPERTIES CallsEnd Reconnects
