CONSTANTS
    Grids <- SignedGrids
    Coordinates <- MCCoordinates
SPECIFICATION Spec
INVARIANT NamedLedServed
