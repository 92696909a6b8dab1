CONSTANTS
    Black = Black
    Red = Red
    NoColour = NoColour
    Colours <- MCColours
    Leds <- FewLeds
    Sizes <- OneSize
    CharMax = 127
    OutputCharMax = 127
    SequenceBound = 2
    CallBound = 2
    CrashBound = 0
    Faults <- NoFaults
SPECIFICATION FairSpec
PROPERTIES CallsReturn StartEnds LastPictureShown
