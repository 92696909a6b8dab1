CONSTANTS
    Black = Black
    NoColour = NoColour
    Colours <- MCColours
    Leds <- OneLed
    Sizes <- OneSize
    CharMax = 127
    OutputCharMax = 127
    SequenceBound = 1
    CallBound = 1
    CrashBound = 0
    RestartBound = 1
    Faults <- NoFaults
SPECIFICATION FairRestartSpec
PROPERTY AnswersWithSize
CHECK_DEADLOCK FALSE
