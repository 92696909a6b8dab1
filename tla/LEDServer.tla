----------------------------- MODULE LEDServer -----------------------------
(***************************************************************************)
(* The controller's half of the link: Server/LEDServer.c, called by        *)
(* LEDTest.c and by the menus of LEDInput.c.                               *)
(*                                                                         *)
(* One thread does everything.  picoTCP works, and calls outputCommunica-  *)
(* tion back, only while the thread is in one of the loops                 *)
(*     while (condition) { pico_stack_tick(); nanosleep(...); }            *)
(* so pc names the loop (or the menu, "idle", where nothing ticks).  The   *)
(* receiving of a segment and the callback that it causes are one action;  *)
(* the thread goes on when the loop's condition is false.                  *)
(***************************************************************************)
EXTENDS PicoTcp, FiniteSets

CONSTANTS
    CharMax,       \* CHAR_MAX of the controller's build
    Leds,          \* the AddressableLEDs, [row, column, colour], in use
    SequenceBound, \* the longest sequence that a caller passes
    CallBound,     \* how many times translateToOutput is called
    Faults         \* the calls that may fail: "device", "open", "connect", "read", "write"

ASSUME ServerAssumption ==
    /\ CharMax \in CharMaxima
    /\ Leds \subseteq [row : UShort, column : UShort, colour : Colours]
    /\ SequenceBound \in Nat
    /\ CallBound \in Nat

VARIABLES
    pc,            \* where the thread is: see Places
    resume,        \* where connectToOutput returns to: "await" or "load"
    sequence,      \* the sequence that translateToOutput was given ...
    index,         \* ... and its loop variable, counted from 1
    calls,         \* the calls of translateToOutput so far (for CallBound only)
    bytesToWrite,
    writeBuffer,
    isSocketOpened,
    isCommunicationInitialized,
    responseFromOutput,
    numberOfRows,
    numberOfColumns,
    exitCode

translation == <<sequence, index, calls>>
size == <<numberOfRows, numberOfColumns, responseFromOutput>>
buffer == <<bytesToWrite, writeBuffer>>
status == <<isSocketOpened, isCommunicationInitialized, resume>>
network == <<link, toOutput, toController, armed>>

serverVars == <<pc, exitCode, translation, size, buffer, status>>

Places == {"start", "connect", "await", "idle", "load", "send", "flush", "close", "done", "exit"}

\* enum E_CommError
COM_DEVICE_CANNOT_CREATE == 1
COM_SOCKET_CANNOT_OPEN == 2
COM_SOCKET_CANNOT_CONNECT == 5
COM_SOCKET_ERROR == 6
COM_SOCKET_ERROR_WRITE == 7
COM_SOCKET_ERROR_READ == 8

ServerInit ==
    /\ pc = "start"
    /\ exitCode = 0
    /\ resume = "await"
    /\ sequence = <<>>
    /\ index = 1
    /\ calls = 0
    /\ bytesToWrite = 0
    /\ writeBuffer = Plain("")
    /\ isSocketOpened = FALSE
    /\ isCommunicationInitialized = FALSE
    /\ responseFromOutput = FALSE
    /\ numberOfRows = 0
    /\ numberOfColumns = 0

Goto(place) == pc' = place /\ UNCHANGED exitCode
Exit(code) == pc' = "exit" /\ exitCode' = code

-----------------------------------------------------------------------------
(* outputCommunication: the callback *)

\* Variant (mutants): the answer is read, and the flag that it came is forgotten.
ReadBranchSilent(events, message) ==
    IF "RD" \in events
      THEN /\ numberOfRows' = DecodeUShort(CharMax, message.rows[1], message.rows[2])
           /\ numberOfColumns' = DecodeUShort(CharMax, message.columns[1], message.columns[2])
           /\ UNCHANGED responseFromOutput
      ELSE UNCHANGED size

\* The branch for RD, with processSocketReading: the only message that changes anything is
\* the answer to SIZE, [rows, columns] with two bytes each.
ReadBranch(events, message) ==
    IF "RD" \in events
      THEN /\ numberOfRows' = DecodeUShort(CharMax, message.rows[1], message.rows[2])
           /\ numberOfColumns' = DecodeUShort(CharMax, message.columns[1], message.columns[2])
           /\ responseFromOutput' = TRUE
      ELSE UNCHANGED size

\* Variant (mutants): the branch for FIN only prints.
OpenedBranchesNoFin(events) ==
    /\ isSocketOpened' = ("CONN" \in events \/ isSocketOpened)
    /\ UNCHANGED <<isCommunicationInitialized, resume>>

\* The branches for CONN and for FIN.
OpenedBranches(events) ==
    /\ isSocketOpened' = (("CONN" \in events \/ isSocketOpened) /\ "FIN" \notin events)
    /\ UNCHANGED <<isCommunicationInitialized, resume>>

NothingWritten == UNCHANGED <<toOutput, bytesToWrite, writeBuffer>>

\* Variant (mutants): the name and the rest of a command are written by two calls.
WriteBufferInTwo ==
    /\ toOutput' = toOutput \o <<Plain(writeBuffer.name), writeBuffer>>
    /\ bytesToWrite' = 0 /\ writeBuffer' = Plain("")

\* The library takes the bytes, and the buffer is empty again.
WriteBuffer == SocketWrite(writeBuffer) /\ bytesToWrite' = 0 /\ writeBuffer' = Plain("")

\* The branches for ERR and, behind it, for WR.
WriteBranch(events) ==
    \/ /\ "WR" \notin events \/ bytesToWrite = 0
       /\ NothingWritten /\ UNCHANGED <<pc, exitCode>>
    \/ /\ "WR" \in events /\ bytesToWrite > 0
       /\ WriteBuffer /\ UNCHANGED <<pc, exitCode>>
    \/ /\ "WR" \in events /\ bytesToWrite > 0 /\ "write" \in Faults
       /\ NothingWritten /\ Exit(COM_SOCKET_ERROR_WRITE)

\* Reading fails: the callback looks at no other event.
ReadFails(events) ==
    /\ "RD" \in events /\ "read" \in Faults
    /\ Exit(COM_SOCKET_ERROR_READ)
    /\ NothingWritten /\ UNCHANGED <<size, status>>

\* The whole callback, for the masks {RD}, {CONN, WR}, {WR}, {FIN} and {ERR}.  (The branch
\* for CLOSE would close the socket: the output never closes first, so it is never run.)
outputCommunication(events, message) ==
    /\ \/ ReadFails(events)
       \/ /\ ReadBranch(events, message)
          /\ OpenedBranches(events)
          /\ \/ "ERR" \in events /\ NothingWritten /\ Exit(COM_SOCKET_ERROR)
             \/ "ERR" \notin events /\ WriteBranch(events)
    /\ UNCHANGED translation

-----------------------------------------------------------------------------
(* pico_stack_tick: what the library may do while the thread is in a loop *)

InLoop == pc \in {"connect", "await", "send", "flush", "close"}

\* Variant (mutants): the menus tick as well, to keep the connection alive.
TickingInMenu ==
    \/ pc = "connect" /\ ~isSocketOpened
    \/ pc = "await" /\ ~responseFromOutput
    \/ pc \in {"send", "flush"} /\ bytesToWrite > 0
    \/ pc = "close" /\ isSocketOpened
    \/ pc = "idle"

\* The condition of the loop that the thread is in: pico_stack_tick is called once more,
\* and the first thing it looks at are the timers.
Ticking ==
    \/ pc = "connect" /\ ~isSocketOpened
    \/ pc = "await" /\ ~responseFromOutput
    \/ pc \in {"send", "flush"} /\ bytesToWrite > 0
    \/ pc = "close" /\ isSocketOpened

Receive(segment) ==
    /\ InLoop
    /\ segment \in toController
    /\ toController' = toController \ {segment}

\* The answer to the SYN: connected, and there is space to write.
OnSynAck ==
    /\ link = "syn" /\ Receive("synack")
    /\ link' = "open" /\ armed' = TRUE
    /\ outputCommunication({"CONN", "WR"}, NoMessage)

\* The acknowledgement of all that the output received: space to write again.
OnAck ==
    /\ link \in {"open", "closing"} /\ Receive("ack")
    /\ armed' = TRUE
    /\ outputCommunication({"WR"}, NoMessage)
    /\ UNCHANGED link

\* The output's answer to SIZE.
OnAnswer(message) ==
    /\ link = "open" /\ Receive("answer")
    /\ armed' = TRUE
    /\ outputCommunication({"RD"}, message)
    /\ UNCHANGED link

\* The retransmission timer, started by the last segment received, finds nothing to
\* retransmit: the library tells that the socket can be written to, once.
OnTimer ==
    /\ Ticking /\ link = "open" /\ armed /\ QueueEmpty
    /\ armed' = FALSE
    /\ outputCommunication({"WR"}, NoMessage)
    /\ UNCHANGED <<link, toController>>

\* pico_socket_close asked for a FIN: it leaves when the queue is empty.
SendFin ==
    /\ Ticking /\ link = "closing" /\ QueueEmpty
    /\ link' = "fin"
    /\ toOutput' = Append(toOutput, Plain("fin"))
    /\ UNCHANGED <<toController, armed, serverVars>>

\* The output answered the FIN with its own.
OnFin ==
    /\ link = "fin" /\ Receive("fin")
    /\ link' = "gone"
    /\ outputCommunication({"FIN"}, NoMessage)
    /\ UNCHANGED armed

\* The library retransmitted in vain for long enough: it deletes the socket, with FIN.
OnGiveUp ==
    /\ Ticking
    /\ link \in {"open", "closing", "fin"} /\ toOutput # <<>>
    /\ link' = "gone"
    /\ outputCommunication({"FIN"}, NoMessage)
    /\ UNCHANGED <<toController, armed>>

\* No answer to any SYN.
OnConnectTimeout ==
    /\ Ticking /\ link = "syn"
    /\ link' = "gone"
    /\ outputCommunication({"ERR"}, NoMessage)
    /\ UNCHANGED <<toController, armed>>

\* An output that does not know the connection resets it.
OnReset ==
    /\ link \in {"open", "closing", "fin"} /\ Receive("rst")
    /\ link' = "gone"
    /\ outputCommunication({"ERR"}, NoMessage)
    /\ UNCHANGED armed

-----------------------------------------------------------------------------
(* The thread *)

\* connectToOutput, with initCommunication the first time; then its loop, then "after".
connectToOutput(after) ==
    \/ /\ SocketConnect
       /\ isCommunicationInitialized' = TRUE
       /\ resume' = after
       /\ Goto("connect")
       /\ UNCHANGED isSocketOpened
    \/ /\ ~isCommunicationInitialized /\ "device" \in Faults
       /\ Exit(COM_DEVICE_CANNOT_CREATE)
       /\ UNCHANGED <<network, status>>
    \/ /\ "open" \in Faults
       /\ isCommunicationInitialized' = TRUE
       /\ Exit(COM_SOCKET_CANNOT_OPEN)
       /\ UNCHANGED <<network, isSocketOpened, resume>>
    \/ /\ "connect" \in Faults
       /\ isCommunicationInitialized' = TRUE
       /\ Exit(COM_SOCKET_CANNOT_CONNECT)
       /\ UNCHANGED <<network, isSocketOpened, resume>>

Load(name, bytes, high, low, colour) ==
    /\ bytesToWrite' = bytes
    /\ writeBuffer' = [name |-> name, high |-> high, low |-> low, colour |-> colour]

\* getOutputInformations, from the address it was given to the loop of connectToOutput.
getOutputInformations ==
    /\ pc = "start"
    /\ responseFromOutput' = FALSE
    /\ Load("SIZE", 4, 0, 0, NoColour)
    /\ connectToOutput("await")
    /\ UNCHANGED <<numberOfRows, numberOfColumns, translation>>

\* The loop of connectToOutput ends.
Connected ==
    /\ pc = "connect" /\ isSocketOpened
    /\ Goto(resume)
    /\ UNCHANGED <<network, translation, size, buffer, status>>

\* Variant (mutants): getOutputInformations does not wait for the answer.
SizeNotAwaited ==
    /\ pc = "await"
    /\ Goto("idle")
    /\ UNCHANGED <<network, translation, size, buffer, status>>

\* The loop of getOutputInformations ends: its caller goes on to the menu.
SizeFetched ==
    /\ pc = "await" /\ responseFromOutput
    /\ Goto("idle")
    /\ UNCHANGED <<network, translation, size, buffer, status>>

\* A menu calls translateToOutput: the first thing it does is to connect again if the
\* connection was lost, for all that isSocketOpened knows.
translateToOutput(leds) ==
    /\ pc = "idle" /\ calls < CallBound
    /\ sequence' = leds
    /\ index' = 1
    /\ calls' = calls + 1
    /\ \/ isSocketOpened /\ Goto("load") /\ UNCHANGED <<network, status>>
       \/ ~isSocketOpened /\ connectToOutput("load")
    /\ UNCHANGED <<size, buffer>>

Led == sequence[index]
MoreLeds == pc = "load" /\ index <= Len(sequence)
WholeGrid(led) == led.row = UShortMax /\ led.column = UShortMax
InGrid(led) == led.row < numberOfRows /\ led.column < numberOfColumns

\* The three branches of the loop over the sequence.
LoadReset ==
    /\ MoreLeds /\ WholeGrid(Led)
    /\ Load("RSET", 7, 0, 0, Led.colour)
    /\ Goto("send")
    /\ UNCHANGED <<network, translation, size, status>>

LoadSet ==
    /\ MoreLeds /\ ~WholeGrid(Led) /\ InGrid(Led)
    /\ LET address == LedAddress(Led.row, Led.column, numberOfColumns)
       IN  Load("SLED", 9, HighByte(address), LowByte(address), Led.colour)
    /\ Goto("send")
    /\ UNCHANGED <<network, translation, size, status>>

SkipLed ==
    /\ MoreLeds /\ ~WholeGrid(Led) /\ ~InGrid(Led)
    /\ index' = index + 1
    /\ Goto("load")
    /\ UNCHANGED <<network, sequence, calls, size, buffer, status>>

\* Variant (mutants): the thread goes on although the command is not written yet.
SentAnyway ==
    /\ pc = "send"
    /\ index' = index + 1
    /\ Goto("load")
    /\ UNCHANGED <<network, sequence, calls, size, buffer, status>>

\* The loop that waits for the command to be written ends.
Sent ==
    /\ pc = "send" /\ bytesToWrite = 0
    /\ index' = index + 1
    /\ Goto("load")
    /\ UNCHANGED <<network, sequence, calls, size, buffer, status>>

\* After the last LED: the order to show them.
LoadUpdate ==
    /\ pc = "load" /\ index > Len(sequence)
    /\ Load("UPDT", 4, 0, 0, NoColour)
    /\ Goto("flush")
    /\ UNCHANGED <<network, translation, size, status>>

\* Variant (mutants): translateToOutput does not wait behind UPDT.
FlushedAtOnce ==
    /\ pc = "flush"
    /\ Goto("idle")
    /\ UNCHANGED <<network, translation, size, buffer, status>>

\* translateToOutput returns to the menu as soon as the library has the order.
Flushed ==
    /\ pc = "flush" /\ bytesToWrite = 0
    /\ Goto("idle")
    /\ UNCHANGED <<network, translation, size, buffer, status>>

\* The user leaves the menu: serverClose.
serverClose ==
    /\ pc = "idle"
    /\ link' = IF link = "open" THEN "closing" ELSE link
    /\ Goto("close")
    /\ UNCHANGED <<toOutput, toController, armed, translation, size, buffer, status>>

\* The loop of serverClose ends, and with it the program.
Closed ==
    /\ pc = "close" /\ ~isSocketOpened
    /\ Goto("done")
    /\ UNCHANGED <<network, translation, size, buffer, status>>
=============================================================================
