------------------------- MODULE LedAddressingProofs -------------------------
(***************************************************************************)
(* LedAddressing for every set of grids: types without condition; that the *)
(* right LED changes, for grids whose numbers all survive the wire.        *)
(***************************************************************************)
EXTENDS LedAddressing, LedWireProofs

-----------------------------------------------------------------------------
(* Types *)

\* A set-up, field by field.
LEMMA GridFields ==
    ASSUME NEW g \in Grids
    PROVE  /\ g.rows \in UShort /\ g.rows # 0
           /\ g.columns \in UShort /\ g.columns # 0
           /\ g.server \in CharMaxima /\ g.output \in CharMaxima
BY GridsAssumption

\* The results of the three computations that end in an unsigned short.
LEMMA WireTypes ==
    ASSUME grid \in Grids
    PROVE  /\ LedCount(grid.rows, grid.columns) \in UShort
           /\ \A length \in UShort : SizeOnWire(length) \in UShort
           /\ \A address \in UShort : SledAddress(address) \in UShort
<1>1. grid.rows * grid.columns \in Int
  BY GridFields, UShortRange
<1>2. \A length \in UShort : SizeOnWire(length) \in UShort
  BY GridFields, BytesOfUShort, DecodeType DEF SizeOnWire
<1>3. \A address \in UShort : SledAddress(address) \in UShort
  BY GridFields, BytesOfUShort, DecodeType DEF SledAddress
<1>4. QED
  BY <1>1, <1>2, <1>3, UShortCast DEF LedCount

\* Nothing the two programs compute leaves its type, whatever the grid and the builds.
THEOREM AddressingTypes == Spec => []TypeOK
<1>1. Init => TypeOK
  <2>1. 0 \in UShort
    BY UShortRange
  <2>2. QED
    BY <2>1, WireTypes DEF Init, TypeOK, Request, NoRequest
<1>2. TypeOK /\ [Next]_vars => TypeOK'
  <2>1. SUFFICES ASSUME TypeOK, [Next]_vars PROVE TypeOK'
    OBVIOUS
  <2>2. CASE FetchSize
    <3>1. grid.rows \in UShort /\ grid.columns \in UShort
      BY <2>1, GridFields DEF TypeOK
    <3>2. SizeOnWire(grid.rows) \in UShort /\ SizeOnWire(grid.columns) \in UShort
      BY <2>1, <3>1, WireTypes DEF TypeOK
    <3>3. QED
      BY <2>1, <2>2, <3>2 DEF FetchSize, TypeOK
  <2>3. CASE NextLed
    <3>1. requested' \in Request
      BY <2>3, CoordinatesAssumption DEF NextLed, Request
    <3>2. QED
      BY <2>1, <2>3, <3>1 DEF NextLed, TypeOK
  <2>4. CASE TranslateLed
    <3>1. AddressSent(requested.row, requested.column) \in UShort
      <4>1. requested.row * numberOfColumns + requested.column \in Int
        BY <2>1, UShortRange DEF TypeOK, Request
      <4>2. QED
        BY <4>1, UShortCast DEF AddressSent, LedAddress
    <3>2. SledAddress(AddressSent(requested.row, requested.column)) \in UShort
      BY <2>1, <3>1, WireTypes DEF TypeOK
    <3>3. changed' \subseteq UShort
      BY <2>4, <3>2 DEF TranslateLed, SetLed
    <3>4. QED
      BY <2>1, <2>4, <3>3 DEF TranslateLed, TypeOK
  <2>5. CASE EndOfLed
    <3>1. 0 \in UShort
      BY UShortRange
    <3>2. QED
      BY <2>1, <2>5, <3>1 DEF EndOfLed, TypeOK, Request, NoRequest
  <2>6. CASE UNCHANGED vars
    BY <2>1, <2>6 DEF vars, TypeOK
  <2>7. QED
    BY <2>1, <2>2, <2>3, <2>4, <2>5, <2>6 DEF Next
<1>3. QED
  BY <1>1, <1>2, PTL DEF Spec

-----------------------------------------------------------------------------
(* The right LED *)

\* What the run of MCLedAddressing.cfg checks on its set-ups, strengthened to be inductive:
\* the controller knows the size once it has asked, and no LED changes but in "served".
AddressingInv ==
    /\ TypeOK
    /\ numberOfLeds = grid.rows * grid.columns
    /\ phase # "fetch" => numberOfRows = grid.rows /\ numberOfColumns = grid.columns
    /\ phase # "served" => changed = {}
    /\ OnlyTheNamedLed
    /\ NamedLedServed

\* In a faithful set-up the size arrives as it is.
LEMMA SizeArrives ==
    ASSUME grid \in Grids, Faithful(grid)
    PROVE  /\ LedCount(grid.rows, grid.columns) = grid.rows * grid.columns
           /\ SizeOnWire(grid.rows) = grid.rows
           /\ SizeOnWire(grid.columns) = grid.columns
<1>1. grid.rows * grid.columns \in UShort
  <2>1. UShortMax \in Int /\ UShortMax + 1 = 65536
    BY DEF UShortMax
  <2>2. /\ grid.rows \in Int /\ 0 <= grid.rows
        /\ grid.columns \in Int /\ 0 <= grid.columns
    BY GridFields, UShortRange
  <2>3. grid.rows * grid.columns \in Int /\ 0 <= grid.rows * grid.columns
    BY <2>2
  <2>4. QED
    BY <2>1, <2>3, UShortRange DEF Faithful
<1>2. LedCount(grid.rows, grid.columns) = grid.rows * grid.columns
  BY <1>1, UShortCast DEF LedCount
<1>3. SizeOnWire(grid.rows) = grid.rows /\ SizeOnWire(grid.columns) = grid.columns
  BY GridFields, RoundTrip DEF Faithful, SizeOnWire
<1>4. QED
  BY <1>2, <1>3

\* In a faithful set-up the address of a LED of the grid arrives as it is.
LEMMA AddressArrives ==
    ASSUME grid \in Grids, Faithful(grid),
           NEW row \in UShort, NEW column \in UShort, row < grid.rows, column < grid.columns,
           numberOfColumns = grid.columns
    PROVE  /\ SledAddress(AddressSent(row, column)) = row * grid.columns + column
           /\ row * grid.columns + column < grid.rows * grid.columns
           /\ Position(row * grid.columns + column) = [row |-> row, column |-> column]
<1> DEFINE address == row * grid.columns + column
<1>1. /\ grid.rows \in Nat /\ grid.columns \in Nat
      /\ row \in Nat /\ column \in Nat
  BY GridFields, UShortRange
<1>2. address < grid.rows * grid.columns
  BY <1>1, AddressInGrid
<1>3. address \in Int /\ 0 <= address
  BY <1>1
<1>4. grid.rows * grid.columns \in Int
  BY <1>1
<1> HIDE DEF address
<1>5. address \in UShort
  <2>1. UShortMax \in Int /\ UShortMax + 1 = 65536
    BY DEF UShortMax
  <2>2. QED
    BY <1>2, <1>3, <1>4, <2>1, UShortRange DEF Faithful
<1>6. AddressSent(row, column) = address
  BY <1>5, UShortCast DEF AddressSent, LedAddress, address
<1>7. Survives(grid.output, address)
  <2>1. LowByte(address) <= address /\ LowByte(address) < 256 /\ LowByte(address) \in Int
    <3>1. address % 256 <= address /\ address % 256 < 256 /\ address % 256 \in Int
      BY <1>3
    <3>2. QED
      BY <3>1 DEF LowByte
  <2>2. CASE grid.output = SignedChar
    BY <1>2, <1>3, <1>4, <2>1, <2>2 DEF Faithful, Survives, SignedChar
  <2>3. CASE grid.output = UnsignedChar
    BY <2>1, <2>3 DEF Survives, UnsignedChar
  <2>4. QED
    BY <2>2, <2>3, GridFields DEF CharMaxima
<1>8. SledAddress(address) = address
  BY <1>5, <1>7, GridFields, RoundTrip DEF SledAddress
<1>9. address \div grid.columns = row /\ address % grid.columns = column
  BY <1>1, PositionOfAddress DEF address
<1>10. QED
  BY <1>2, <1>6, <1>8, <1>9 DEF Position, address

\* With faithful set-ups the strengthened invariant holds in every state.
LEMMA AddressingInduction ==
    ASSUME \A g \in Grids : Faithful(g)
    PROVE  Spec => []AddressingInv
<1>1. Init => AddressingInv
  <2>1. SUFFICES ASSUME Init PROVE AddressingInv
    OBVIOUS
  <2>2. 0 \in UShort
    BY UShortRange
  <2>3. TypeOK
    BY <2>1, <2>2, WireTypes DEF Init, TypeOK, Request, NoRequest
  <2>4. numberOfLeds = grid.rows * grid.columns
    BY <2>1, SizeArrives DEF Init
  <2>5. QED
    BY <2>1, <2>3, <2>4 DEF Init, AddressingInv, OnlyTheNamedLed, NamedLedServed
<1>2. AddressingInv /\ TypeOK' /\ [Next]_vars => AddressingInv'
  <2>1. SUFFICES ASSUME AddressingInv, TypeOK', [Next]_vars PROVE AddressingInv'
    OBVIOUS
  <2>2. grid \in Grids /\ Faithful(grid)
    BY <2>1 DEF AddressingInv, TypeOK
  <2>3. CASE FetchSize
    <3>1. SizeOnWire(grid.rows) = grid.rows /\ SizeOnWire(grid.columns) = grid.columns
      BY <2>2, SizeArrives
    <3>2. QED
      BY <2>1, <2>3, <3>1 DEF FetchSize, AddressingInv, OnlyTheNamedLed, NamedLedServed
  <2>4. CASE NextLed
    BY <2>1, <2>4 DEF NextLed, AddressingInv, OnlyTheNamedLed, NamedLedServed
  <2>5. CASE TranslateLed
    <3> DEFINE row == requested.row
               column == requested.column
    <3>1. /\ numberOfLeds = grid.rows * grid.columns
          /\ numberOfRows = grid.rows /\ numberOfColumns = grid.columns
      BY <2>1, <2>5 DEF TranslateLed, AddressingInv
    <3>2. requested = [row |-> row, column |-> column] /\ row \in UShort /\ column \in UShort
      BY <2>1 DEF AddressingInv, TypeOK, Request
    <3>3. /\ phase' = "served" /\ numberOfLeds' = numberOfLeds /\ numberOfRows' = numberOfRows
          /\ numberOfColumns' = numberOfColumns /\ grid' = grid /\ requested' = requested
      BY <2>5 DEF TranslateLed
    <3>4. CASE row < grid.rows /\ column < grid.columns
      <4>1. changed' = {row * grid.columns + column}
        BY <2>2, <2>5, <3>1, <3>2, <3>4, AddressArrives DEF TranslateLed, LedServed, SetLed
      <4>2. \A index \in changed' : Position(index) = requested
        BY <2>2, <3>1, <3>2, <3>4, <4>1, AddressArrives
      <4>3. OnlyTheNamedLed'
        BY <3>3, <4>2 DEF OnlyTheNamedLed, Position
      <4>4. NamedLedServed'
        BY <3>3, <3>4, <4>1 DEF NamedLedServed, InGrid
      <4>5. QED
        BY <2>1, <3>1, <3>3, <4>3, <4>4 DEF AddressingInv
    <3>5. CASE ~(row < grid.rows /\ column < grid.columns)
      <4>1. changed' = {}
        BY <2>5, <3>1, <3>5 DEF TranslateLed, LedServed
      <4>2. OnlyTheNamedLed'
        BY <4>1 DEF OnlyTheNamedLed
      <4>3. NamedLedServed'
        BY <3>3, <3>5, <4>1 DEF NamedLedServed, InGrid
      <4>4. QED
        BY <2>1, <3>1, <3>3, <4>2, <4>3 DEF AddressingInv
    <3>6. QED
      BY <3>4, <3>5
  <2>6. CASE EndOfLed
    BY <2>1, <2>6 DEF EndOfLed, AddressingInv, OnlyTheNamedLed, NamedLedServed
  <2>7. CASE UNCHANGED vars
    BY <2>1, <2>7 DEF vars, AddressingInv, OnlyTheNamedLed, NamedLedServed, Position, InGrid
  <2>8. QED
    BY <2>1, <2>3, <2>4, <2>5, <2>6, <2>7 DEF Next
<1>3. QED
  BY <1>1, <1>2, AddressingTypes, PTL DEF Spec

\* If char is unsigned, or the grids are small, no SLED command ever changes another LED than
\* the one that the sequence names, whatever the size and the coordinates.
THEOREM RightLed ==
    ASSUME \A g \in Grids : Faithful(g)
    PROVE  Spec => []OnlyTheNamedLed
<1>1. AddressingInv => OnlyTheNamedLed
  BY DEF AddressingInv
<1>2. QED
  BY <1>1, AddressingInduction, PTL

\* Under the same condition every LED of the grid is reached, and nothing else is.
THEOREM EveryLed ==
    ASSUME \A g \in Grids : Faithful(g)
    PROVE  Spec => []NamedLedServed
<1>1. AddressingInv => NamedLedServed
  BY DEF AddressingInv
<1>2. QED
  BY <1>1, AddressingInduction, PTL
=============================================================================
