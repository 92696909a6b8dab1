CONSTANTS
    Black = Black
    Red = Red
    NoColour = NoColour
    Colours <- MCColours
    Leds <- FewLeds
    Sizes <- FaultSizes
    CharMax = 127
    OutputCharMax = 127
    SequenceBound = 2
    CallBound = 2
    CrashBound = 2
    Faults <- AllFaults
SPECIFICATION FairSpec
INVARIANTS TypeOK NoLostWakeup NoLostAnswer OneCommandUnderWay SizeKnown ConnectedInMenu BufferHoldsCurrent
PROPERTY CloseEnds
CHECK_DEADLOCK FALSE
