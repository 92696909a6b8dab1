CONSTANTS
    Black = Black
    Red = Red
    NoColour = NoColour
    Colours <- MCColours
    Leds <- FewLeds
    Sizes <- OneSize
    CharMax = 127
    OutputCharMax = 127
    SequenceBound = 2
    CallBound = 2
    CrashBound = 1
    Faults <- NoFaults
SPECIFICATION FairSpec
PROPERTY ClosedMeansExit
CHECK_DEADLOCK FALSE
