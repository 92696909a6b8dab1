--------------------------- MODULE LedAddressing ---------------------------
(***************************************************************************)
(* Which LED lights up.  The output tells its size once, the controller    *)
(* turns (row, column) into an address with the size it understood, and    *)
(* the output turns the bytes it receives back into an index of its grid.  *)
(* The module follows one number through SIZE, translateToOutput, SLED and *)
(* setLed; ordering and delivery are LedSystem's subject.                  *)
(***************************************************************************)
EXTENDS LedWire

CONSTANTS
    Grids,        \* the [rows, columns, server, output] set-ups: the size entered in
                  \* initLedGrid, and CHAR_MAX in either program's build
    Coordinates   \* the rows and the columns that sequences ask for

ASSUME GridsAssumption ==
    Grids \subseteq [rows : UShort \ {0}, columns : UShort \ {0},
                     server : CharMaxima, output : CharMaxima]

ASSUME CoordinatesAssumption == Coordinates \subseteq UShort

VARIABLES
    grid,             \* the set-up of this execution, a member of Grids
    numberOfLeds,     \* of the output
    numberOfRows,     \* of the controller: 0 until the answer to SIZE
    numberOfColumns,
    requested,        \* the [row, column] of the AddressableLED being translated
    changed,          \* the indices of outputGrid that it changed
    phase             \* what the controller is doing: "fetch", "ready", "translate", "served"

vars == <<grid, numberOfLeds, numberOfRows, numberOfColumns, requested, changed, phase>>

Request == [row : UShort, column : UShort]
NoRequest == [row |-> 0, column |-> 0]

TypeOK ==
    /\ grid \in Grids
    /\ numberOfLeds \in UShort
    /\ numberOfRows \in UShort
    /\ numberOfColumns \in UShort
    /\ requested \in Request
    /\ changed \in SUBSET UShort
    /\ phase \in {"fetch", "ready", "translate", "served"}

\* initLedGrid, and the controller's statics
Init ==
    /\ grid \in Grids
    /\ numberOfLeds = LedCount(grid.rows, grid.columns)
    /\ numberOfRows = 0
    /\ numberOfColumns = 0
    /\ requested = NoRequest
    /\ changed = {}
    /\ phase = "fetch"

\* The other output, WS2812b_STM32F4Disc.c: one row of NUMBER_OF_LED, fixed in the program.
NUMBER_OF_LED == 300
WS2812bStrip == <<1, NUMBER_OF_LED>>

\* What the controller makes of a length that the output stored in two bytes of its answer.
SizeOnWire(length) == DecodeUShort(grid.server, HighByte(length), LowByte(length))

\* The output's answer to SIZE, as the controller reads it.
FetchSize ==
    /\ phase = "fetch"
    /\ phase' = "ready"
    /\ numberOfRows' = SizeOnWire(grid.rows)
    /\ numberOfColumns' = SizeOnWire(grid.columns)
    /\ UNCHANGED <<grid, numberOfLeds, requested, changed>>

\* The address that the output reads out of a SLED command.
SledAddress(address) == DecodeUShort(grid.output, HighByte(address), LowByte(address))

\* setLed refuses an address that is past the last LED.
SetLed(address) == IF address < numberOfLeds THEN {address} ELSE {}

\* Variants that a slip would give (mutants): one address with the rows for the columns,
\* one bounds test without the rows.
AddressOverRows(row, column) == LedAddress(row, column, numberOfRows)
ServedByColumn(row, column) == column < numberOfColumns

\* translateToOutput sends a LED only when the controller believes the grid has it ...
LedServed(row, column) == row < numberOfRows /\ column < numberOfColumns

\* ... with the address it has in a grid that is numbered row by row.
AddressSent(row, column) == LedAddress(row, column, numberOfColumns)

\* The controller meets an AddressableLED in the sequence.  The row and the column that
\* stand for the whole grid are another command, RSET, which carries no address.
NextLed ==
    /\ phase = "ready"
    /\ phase' = "translate"
    /\ requested' \in [row : Coordinates, column : Coordinates]
    /\ requested' # [row |-> UShortMax, column |-> UShortMax]
    /\ UNCHANGED <<grid, numberOfLeds, numberOfRows, numberOfColumns, changed>>

\* It sends the SLED, and the output obeys it; or it passes over the LED.
TranslateLed ==
    /\ phase = "translate"
    /\ phase' = "served"
    /\ changed' = IF LedServed(requested.row, requested.column)
                    THEN SetLed(SledAddress(AddressSent(requested.row, requested.column)))
                    ELSE {}
    /\ UNCHANGED <<grid, numberOfLeds, numberOfRows, numberOfColumns, requested>>

\* The loop over the sequence goes on.
EndOfLed ==
    /\ phase = "served"
    /\ phase' = "ready"
    /\ requested' = NoRequest
    /\ changed' = {}
    /\ UNCHANGED <<grid, numberOfLeds, numberOfRows, numberOfColumns>>

Next == FetchSize \/ NextLed \/ TranslateLed \/ EndOfLed

Spec == Init /\ [][Next]_vars

-----------------------------------------------------------------------------
(* Properties *)

\* printLedGrid prints the LED with this index in line row, at position column.
Position(index) == [row |-> index \div grid.columns, column |-> index % grid.columns]

\* An SLED command changes no LED but the one that the sequence names: neither the 16-bit
\* address, nor the two bytes it travels in, nor the size it is computed with lead to
\* another LED (translateToOutput, processSocketReading on either side, setLed).
OnlyTheNamedLed == \A index \in changed : Position(index) = requested

InGrid(request) == request.row < grid.rows /\ request.column < grid.columns

\* A LED of the grid is never passed over, and a LED that the grid has not changes nothing:
\* the controller's bounds test and setLed's range test, each with its own idea of the size,
\* agree with the grid that the user entered (translateToOutput, setLed).
NamedLedServed == phase = "served" => (changed # {} <=> InGrid(requested))

\* The set-ups in which every number survives: what the theorems assume of Grids.
Faithful(g) ==
    /\ g.rows * g.columns <= UShortMax
    /\ Survives(g.server, g.rows) /\ Survives(g.server, g.columns)
    /\ g.output = SignedChar => g.rows * g.columns <= SignedChar + 1
=============================================================================
