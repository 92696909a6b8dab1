--------------------------- MODULE LedRefinement ---------------------------
(***************************************************************************)
(* LedSystem implements LedDisplay.  A picture is promised from the moment *)
(* that translateToOutput is called; what it looks like, and when it is    *)
(* shown, is what the commands still under way will make of the grid: the  *)
(* one that the network carries, the one in the buffer, and those that the *)
(* rest of the sequence will be translated to.  (At most one command is    *)
(* under way: OneCommandUnderWay.)                                         *)
(***************************************************************************)
EXTENDS LedSystem, FiniteSetsExt

\* printLedGrid: the LED at index r * columnLength + c is the one in line r, at position c.
Positions == (0..(rowLength - 1)) \X (0..(columnLength - 1))
PictureOf(grid) == [p \in Positions |-> grid[p[1] * columnLength + p[2]]]

\* The output's grid behind the command that the network carries, and behind the one in the buffer.
Arrived == IF toOutput = <<>> THEN outputGrid ELSE Obey(outputGrid, Head(toOutput))
Written == IF bytesToWrite = 0 THEN Arrived ELSE Obey(Arrived, writeBuffer)

\* What is left of the sequence behind the command in the buffer.  (translateToOutput never has to
\* connect first: ConnectedInMenu.)
Translating == pc \in {"load", "send"}
LedsLeft ==
    CASE pc = "load" -> index..Len(sequence)
      [] pc = "send" -> (index + 1)..Len(sequence)
      [] OTHER -> {}

\* The command that the controller makes of an AddressableLED reaches LED i of the output.
Reaches(led, i) ==
    \/ WholeGrid(led)
    \/ /\ InGrid(led)
       /\ LET address == LedAddress(led.row, led.column, numberOfColumns)
          IN  i = DecodeUShort(OutputCharMax, HighByte(address), LowByte(address))

\* Of the commands that reach a LED the last one counts.
Reaching(i) == {k \in LedsLeft : Reaches(sequence[k], i)}
Finished ==
    [i \in Indices |->
        IF Reaching(i) = {} THEN Written[i] ELSE sequence[Max(Reaching(i))].colour]

\* The pictures that the output will print, one for each UPDT.
Printed(prints, grid) == IF prints THEN <<PictureOf(grid)>> ELSE <<>>
Promised ==
    Printed(toOutput # <<>> /\ Head(toOutput).name = "UPDT", outputGrid)
      \o Printed(bytesToWrite > 0 /\ writeBuffer.name = "UPDT", Arrived)
      \o Printed(Translating, Finished)

Linked == session = "open"

Display == INSTANCE LedDisplay WITH
    Anywhere <- UShortMax,
    on       <- up,
    rows     <- rowLength,
    columns  <- columnLength,
    linked   <- Linked,
    picture  <- IF Linked THEN PictureOf(Finished) ELSE PictureOf(Dark),
    promised <- IF Linked THEN Promised ELSE <<>>,
    shown    <- PictureOf(shown)

\* Every picture that a menu asks for is shown whole, once, and in the order of the calls,
\* painted over the picture before it; the program does not end before the last one is shown;
\* only the death of the output loses any (translateToOutput and serverClose against
\* processSocketReading, setLed, initRGBListTo and printLedGrid of the output).
ShowsThePromisedPictures == Display!Spec

\* With an output that stays up, the picture of a call that returned is shown although the
\* controller does nothing more for the network in the menu: the order to show it has left
\* (translateToOutput, its last loop).
LastPictureShown ==
    \A n \in 1..CallBound :
        (pc = "idle" /\ calls = n) ~> (calls > n \/ pc = "close" \/ Promised = <<>>)
=============================================================================
