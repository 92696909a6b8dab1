---------------------------- MODULE MCLedSystem ----------------------------
(* Small grids for TLC, and AddressableLEDs of every kind: in the grid, outside it, and the *)
(* whole grid.                                                                              *)
EXTENDS LedRefinement

CONSTANT Red

LedAt(row, column, colour) == [row |-> row, column |-> column, colour |-> colour]

MCColours == {Black, Red}

FewLeds == {LedAt(1, 1, Red), LedAt(0, 2, Red), LedAt(UShortMax, UShortMax, Black)}

OneSize == {<<2, 2>>}

\* Sizes that differ between two starts of the output: one with more LEDs than an unsigned short
\* counts, of which numberOfLeds keeps two.
FaultSizes == {<<2, 2>>, <<3, 21846>>}

\* With three columns the last of RefinementLeds is in the grid, too.
RefinementSizes == {<<2, 2>>, <<2, 3>>}

\* Few, but the order of two of them matters.
RefinementLeds == {LedAt(1, 1, Black), LedAt(1, 2, Red), LedAt(UShortMax, UShortMax, Red)}

NoFaults == {}
AllFaults == {"device", "open", "connect", "read", "write"}
=============================================================================
