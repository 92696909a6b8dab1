CONSTANTS
    Grids <- HugeGrids
    Coordinates <- MCCoordinates
SPECIFICATION Spec
INVARIANT OnlyTheNamedLed
