--------------------------- MODULE LEDConsoleOut ---------------------------
(***************************************************************************)
(* The output: Output/LEDConsoleOut.c with the simulated grid of           *)
(* Output/SimulatedLED.c.  The program calls pico_stack_tick for ever, so  *)
(* every segment is received and handled in one action.  The process may   *)
(* be killed and started again: it keeps nothing.                          *)
(***************************************************************************)
EXTENDS PicoTcp

CONSTANTS
    Sizes,             \* the sizes, <<rows, columns>>, that may be entered in initLedGrid
    Black,             \* {0,0,0}
    OutputCharMax,     \* CHAR_MAX of the output's build
    CrashBound         \* how many times the process is killed

ASSUME OutputAssumption ==
    /\ \A entered \in Sizes :
          /\ entered \in (UShort \ {0}) \X (UShort \ {0})
          /\ entered[1] * entered[2] <= IntMax
    /\ Black \in Colours
    /\ OutputCharMax \in CharMaxima
    /\ CrashBound \in Nat

VARIABLES
    up,            \* the process runs
    crashes,       \* the times it was killed (for CrashBound only)
    rowLength, columnLength,   \* the size entered when the process was started
    outputGrid,
    shown,         \* what printLedGrid printed last
    answerBytes,   \* bytesToWrite: 8 while the answer to SIZE is to be written
    answer,        \* what the last answer written says
    outputArmed    \* the timer of the accepted socket runs: a WR event is still to come

gridVars == <<rowLength, columnLength, outputGrid, shown>>
outputVars == <<up, crashes, gridVars, answerBytes, answer, outputArmed>>

\* numberOfLeds, and the indices of the array that initLedGrid allocates for them.
numberOfLeds == LedCount(rowLength, columnLength)
Indices == 0..(numberOfLeds - 1)
Dark == [i \in Indices |-> Black]

\* What an answer says: getRowLength() and getColumnLength().
SizeMessage == [rows    |-> <<HighByte(rowLength), LowByte(rowLength)>>,
                columns |-> <<HighByte(columnLength), LowByte(columnLength)>>]

OutputInit ==
    /\ up = FALSE
    /\ crashes = 0
    /\ rowLength = 0 /\ columnLength = 0
    /\ outputGrid = Dark
    /\ shown = Dark
    /\ answerBytes = 0
    /\ answer = NoMessage
    /\ outputArmed = FALSE

\* It asks for the two lengths until they are accepted; the grid is dark.
initLedGrid ==
    /\ \E entered \in Sizes : rowLength' = entered[1] /\ columnLength' = entered[2]
    /\ outputGrid' = Dark'

\* main: initLedGrid, printLedGrid, and startNetworkRoutine up to its loop.
StartOutput ==
    /\ ~up
    /\ up' = TRUE
    /\ initLedGrid
    /\ shown' = Dark'
    /\ answerBytes' = 0
    /\ outputArmed' = FALSE
    /\ UNCHANGED <<crashes, answer, session, toOutput, toController>>

\* The process is killed, or leaves by one of the exit calls of its callback (a read or a write
\* that fails): the connection is forgotten without a word to the controller, for outputCleanUp
\* asks for a FIN that no tick sends any more.
KillOutput ==
    /\ up /\ crashes < CrashBound
    /\ up' = FALSE
    /\ crashes' = crashes + 1
    /\ session' = "none"
    /\ UNCHANGED <<gridVars, answerBytes, answer, outputArmed, toOutput, toController>>

-----------------------------------------------------------------------------
(* ledCommunication: the callback *)

\* Variant (mutants): "address <= numberOfLeds".
AcceptedOneMore == 0..numberOfLeds

\* The addresses that the range test of setLed lets through.
Accepted == 0..(numberOfLeds - 1)

\* setLed, called for each of the addresses.  What is stored behind the end of the array enlarges
\* the grid.
setLed(grid, addresses, colour) ==
    LET stored == Accepted \cap addresses
    IN  [i \in DOMAIN grid \cup stored |-> IF i \in stored THEN colour ELSE grid[i]]

\* initRGBListTo: its int counts to rowLength * columnLength, which numberOfLeds may be too short
\* for, and setLed makes an unsigned short of it.
Counted ==
    IF rowLength * columnLength > UShortMax THEN UShort ELSE 0..(rowLength * columnLength - 1)
initRGBListTo(grid, colour) == setLed(grid, Counted, colour)

\* What the grid is after one command.
Obey(grid, command) ==
    CASE command.name = "RSET" -> initRGBListTo(grid, command.colour)
      [] command.name = "SLED" ->
           setLed(grid, {DecodeUShort(OutputCharMax, command.high, command.low)},
                  command.colour)
      [] OTHER -> grid

\* processSocketReading: it reads one command, and obeys it.
processSocketReading(command) ==
    /\ outputGrid' = Obey(outputGrid, command)
    /\ shown' = IF command.name = "UPDT" THEN outputGrid ELSE shown
    /\ answerBytes' = IF command.name = "SIZE" THEN 8 ELSE answerBytes
    /\ UNCHANGED <<rowLength, columnLength>>

SendAnswer == toController' = toController \cup {"answer"} /\ answer' = SizeMessage

\* Variant (mutants): bytesToWrite is not reset.
WriteAnswerAgain ==
    IF answerBytes > 0
      THEN SendAnswer /\ UNCHANGED answerBytes
      ELSE UNCHANGED <<toController, answer, answerBytes>>

\* The branch for WR.
WriteAnswer ==
    IF answerBytes > 0
      THEN SendAnswer /\ answerBytes' = 0
      ELSE UNCHANGED <<toController, answer, answerBytes>>

-----------------------------------------------------------------------------
(* pico_stack_tick, with the callback *)

Arrives(name) == up /\ toOutput # <<>> /\ Head(toOutput).name = name /\ toOutput' = Tail(toOutput)

\* A connection is requested, by a socket that still exists; the callback (CONN) accepts it.  (It
\* only prints whether pico_socket_accept succeeds or fails: either way it is this step.)
OnSyn ==
    /\ Arrives("syn") /\ link = "syn"
    /\ session' = "open"
    /\ toController' = toController \cup {"synack"}
    /\ outputArmed' = TRUE
    /\ UNCHANGED <<up, crashes, gridVars, answerBytes, answer>>

\* A command arrives: it is acknowledged, and the callback (RD) obeys it.
OnCommand ==
    /\ \E name \in CommandNames : Arrives(name)
    /\ session = "open"
    /\ toController' = toController \cup {"ack"}
    /\ outputArmed' = TRUE
    /\ processSocketReading(Head(toOutput))
    /\ UNCHANGED <<up, crashes, answer, session>>

\* The timer of the accepted socket: the callback (WR) may write.
OnOutputTimer ==
    /\ up /\ session = "open" /\ outputArmed
    /\ outputArmed' = FALSE
    /\ WriteAnswer
    /\ UNCHANGED <<up, crashes, gridVars, session, toOutput>>

\* The controller's FIN: the callback (CLOSE) closes the accepted socket, which answers FIN.
OnPeerClose ==
    /\ Arrives("fin")
    /\ session = "open"
    /\ session' = "closed"
    /\ toController' = toController \cup {"fin"}
    /\ UNCHANGED outputVars

\* A segment of a connection that this process does not have.
RefuseSegment ==
    /\ session # "open"
    /\ \E name \in CommandNames \cup {"fin"} : Arrives(name)
    /\ toController' = toController \cup {"rst"}
    /\ UNCHANGED <<session, outputVars>>
=============================================================================
