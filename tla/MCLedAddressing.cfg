CONSTANTS
    Grids <- FaithfulGrids
    Coordinates <- MCCoordinates
SPECIFICATION Spec
INVARIANTS OnlyTheNamedLed NamedLedServed
