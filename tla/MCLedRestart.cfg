CONSTANTS
    Black = Black
    NoColour = NoColour
    Colours <- MCColours
    Leds <- OneLed
    Sizes <- TwoSizes
    CharMax = 127
    OutputCharMax = 127
    SequenceBound = 1
    CallBound = 1
    CrashBound = 1
    RestartBound = 2
    Faults <- NoFaults
SPECIFICATION FairRestartSpec
INVARIANTS OneCommandUnderWay SizeKnown BufferHoldsCurrent NoLostWakeup AnswerHasEvent
PROPERTY FreshStartEnds
CHECK_DEADLOCK FALSE
