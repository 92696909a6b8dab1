CONSTANTS
    Black = Black
    Red = Red
    NoColour = NoColour
    Colours <- MCColours
    Leds <- RefinementLeds
    Sizes <- RefinementSizes
    CharMax = 127
    OutputCharMax = 127
    SequenceBound = 2
    CallBound = 2
    CrashBound = 1
    Faults <- NoFaults
SPECIFICATION Spec
PROPERTY ShowsThePromisedPictures
CHECK_DEADLOCK FALSE
