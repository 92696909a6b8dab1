--------------------------- MODULE LedSystemProofs ---------------------------
(***************************************************************************)
(* LedSystem for every grid, every set of LEDs, every length of the        *)
(* sequences, every number of calls and of crashes, and every choice of    *)
(* the library calls that fail.                                            *)
(***************************************************************************)
EXTENDS LedSystem, LedWireProofs, SequenceTheorems

-----------------------------------------------------------------------------
(* The inductive invariant *)

\* Where the thread may be, given the state of the connection, and what isSocketOpened says.
LinkInv ==
    /\ link \in {"none", "syn"} => ~isSocketOpened
    /\ link \in {"open", "closing", "fin"} => isSocketOpened
    /\ pc = "start" => link = "none"
    /\ pc = "connect" => link \in {"syn", "open"}
    /\ link \in {"closing", "fin"} => pc \in {"close", "exit"}

\* The output accepts no connection that was not asked for.
SessionInv == link = "none" => session = "none"

\* What may be under way.
ChannelInv ==
    /\ OneCommandUnderWay
    /\ link = "none" => toOutput = <<>> /\ toController = {}
    /\ link = "syn" => ~HasData /\ "ack" \notin toController
    /\ link = "syn" /\ "synack" \in toController => toOutput = <<>>
    /\ link \in {"open", "closing"} /\ toOutput # <<>> => HasData

\* Nothing is left in the buffer once the connection is there.
BufferInv ==
    /\ BufferHoldsCurrent
    /\ pc = "connect" /\ isSocketOpened => bytesToWrite = 0

\* A WR event is still to come on every way that leads to another command.
WakeupInv ==
    /\ link = "open"
    /\ \/ pc \in {"idle", "load", "send", "flush"}
       \/ pc = "await" /\ responseFromOutput
       \/ pc = "connect" /\ isSocketOpened
    => armed \/ ~QueueEmpty \/ "rst" \in toController

\* What the controller was told, and what is on its way to it, is the size of the output that
\* accepted its connection; none of it is there while the SYN is still to come, for the output may
\* be started with another size until then.
ToldInv ==
    /\ session = "open" /\ responseFromOutput =>
          numberOfRows = rowLength /\ numberOfColumns = columnLength
    /\ session = "open" /\ "answer" \in toController => answer = SizeMessage
    /\ link = "syn" => ~responseFromOutput
    /\ link = "syn" /\ toOutput # <<>> => "answer" \notin toController /\ session # "open"

\* The answer came before the menu.
OrderInv ==
    \/ pc \in {"idle", "load", "send", "flush"}
    \/ pc = "connect" /\ resume = "load"
    => responseFromOutput

SizeInv == ToldInv /\ OrderInv

\* Where the thread is before the connection, and where it stays once the connection is gone.
LostInv ==
    /\ link = "none" => pc \in {"start", "exit"}
    /\ link = "syn" => pc \in {"connect", "exit"}
    /\ link = "gone" =>
          \/ pc \in {"close", "done", "exit"}
          \/ pc = "await" /\ ~responseFromOutput
          \/ pc \in {"send", "flush"} /\ bytesToWrite > 0

\* An output that does not run has no connection.
SessionNeedsOutput == session = "open" => up

SystemInv == LinkInv /\ LostInv /\ SessionInv /\ ChannelInv /\ BufferInv /\ WakeupInv

-----------------------------------------------------------------------------
(* Types *)

\* The constants that the types rest on.
LEMMA ConstantFacts ==
    /\ CharMax \in CharMaxima /\ OutputCharMax \in CharMaxima
    /\ \A entered \in Sizes :
          /\ entered[1] \in UShort /\ entered[2] \in UShort
          /\ entered = <<entered[1], entered[2]>>
    /\ Black \in Colours
    /\ 0 \in Byte /\ 0 \in UShort /\ UShortMax \in UShort
    /\ \A led \in Leds : led.row \in UShort /\ led.column \in UShort /\ led.colour \in Colours
<1>1. 0 \in Byte /\ 0 \in UShort
  BY ByteRange, UShortRange
<1>2. UShortMax \in UShort
  BY UShortRange DEF UShortMax
<1>3. QED
  BY <1>1, <1>2, ServerAssumption, OutputAssumption

\* The lengths of the grid.
LEMMA LengthTypes ==
    ASSUME OutputTypeOK
    PROVE  rowLength \in UShort /\ columnLength \in UShort
<1>1. CASE <<rowLength, columnLength>> \in Sizes
  BY <1>1, ConstantFacts
<1>2. CASE <<rowLength, columnLength>> = <<0, 0>>
  BY <1>2, ConstantFacts
<1>3. QED
  BY <1>1, <1>2 DEF OutputTypeOK

\* The segments that the two programs build.
LEMMA Segments ==
    /\ \A name \in {"SIZE", "UPDT", ""} : Plain(name) \in Command
    /\ \A name \in {"RSET", "SLED"}, high, low \in Byte, colour \in Colours :
          [name |-> name, high |-> high, low |-> low, colour |-> colour] \in Command
    /\ Command \subseteq Segment
    /\ \A name \in ControlNames : Plain(name) \in Segment
BY DEF Command, Segment

\* What the output and the channel need to know of a segment.
LEMMA CommandFields ==
    ASSUME NEW command \in Command
    PROVE  /\ command.name \in CommandNames
           /\ command.name \in {"RSET", "SLED"} => command.colour \in Colours
<1>1. CASE command \in [name : {"RSET", "SLED"}, high : Byte, low : Byte, colour : Colours]
  BY <1>1 DEF CommandNames
<1>2. CASE command \in {Plain(name) : name \in {"SIZE", "UPDT", ""}}
  <2>1. PICK name \in {"SIZE", "UPDT", ""} : command = Plain(name)
    BY <1>2
  <2>2. command.name = name
    BY <2>1 DEF Plain
  <2>3. QED
    BY <2>1, <2>2 DEF CommandNames
<1>3. QED
  BY <1>1, <1>2 DEF Command

\* The same of any segment.
LEMMA SegmentFields ==
    ASSUME NEW segment \in Segment
    PROVE  /\ segment.name \in CommandNames \cup ControlNames
           /\ segment.name \in {"RSET", "SLED"} => segment.colour \in Colours
<1>1. CASE segment \in Command
  BY <1>1, CommandFields
<1>2. CASE segment \in {Plain(name) : name \in ControlNames}
  <2>1. PICK name \in ControlNames : segment = Plain(name)
    BY <1>2
  <2>2. segment.name = name
    BY <2>1 DEF Plain
  <2>3. QED
    BY <2>1, <2>2 DEF ControlNames
<1>3. QED
  BY <1>1, <1>2 DEF Segment

\* The address of a LED fits in its two bytes.
LEMMA AddressBytes ==
    ASSUME NEW row \in UShort, NEW column \in UShort, NEW columns \in UShort
    PROVE  /\ HighByte(LedAddress(row, column, columns)) \in Byte
           /\ LowByte(LedAddress(row, column, columns)) \in Byte
<1>1. row * columns + column \in Int
  BY UShortRange
<1>2. LedAddress(row, column, columns) \in UShort
  BY <1>1, UShortCast DEF LedAddress
<1>3. QED
  BY <1>2, BytesOfUShort

\* What the controller makes of an answer is a size.
LEMMA SizeTypes ==
    ASSUME NEW message \in Answer
    PROVE  /\ DecodeUShort(CharMax, message.rows[1], message.rows[2]) \in UShort
           /\ DecodeUShort(CharMax, message.columns[1], message.columns[2]) \in UShort
<1>1. /\ message.rows[1] \in Byte /\ message.rows[2] \in Byte
      /\ message.columns[1] \in Byte /\ message.columns[2] \in Byte
  BY DEF Answer
<1>2. QED
  BY <1>1, ConstantFacts, DecodeType

\* What the output answers.
LEMMA AnswerTypes ==
    ASSUME OutputTypeOK
    PROVE  SizeMessage \in Answer
BY LengthTypes, BytesOfUShort DEF SizeMessage, Answer

\* The callback keeps the controller's types, for each of the masks it is called with.
LEMMA CallbackTypes ==
    ASSUME ServerTypeOK, NEW events \in SUBSET {"RD", "CONN", "WR", "FIN", "ERR"}, NEW message,
           outputCommunication(events, message), "RD" \in events => message \in Answer
    PROVE  ServerTypeOK'
<1>1. /\ responseFromOutput' \in BOOLEAN
      /\ numberOfRows' \in UShort /\ numberOfColumns' \in UShort
  BY SizeTypes DEF outputCommunication, ReadFails, ReadBranch, ServerTypeOK, size
<1>2. /\ isSocketOpened' \in BOOLEAN
      /\ isCommunicationInitialized' \in BOOLEAN /\ resume' \in {"await", "load"}
  BY DEF outputCommunication, ReadFails, OpenedBranches, ServerTypeOK, status
<1>3. /\ bytesToWrite' \in {0, 4, 7, 9} /\ writeBuffer' \in Command
      /\ pc' \in Places /\ exitCode' \in 0..8
  <2>1. Plain("") \in Command
    BY Segments
  <2>2. \/ bytesToWrite' = bytesToWrite /\ writeBuffer' = writeBuffer
        \/ bytesToWrite' = 0 /\ writeBuffer' = Plain("")
    BY DEF outputCommunication, ReadFails, WriteBranch, WriteBuffer, NothingWritten
  <2>3. \/ pc' = pc /\ exitCode' = exitCode
        \/ pc' = "exit" /\ exitCode' \in {6, 7, 8}
    BY DEF outputCommunication, ReadFails, WriteBranch, Exit, COM_SOCKET_ERROR,
           COM_SOCKET_ERROR_WRITE, COM_SOCKET_ERROR_READ
  <2>4. bytesToWrite' \in {0, 4, 7, 9} /\ writeBuffer' \in Command
    BY <2>1, <2>2 DEF ServerTypeOK
  <2>5. pc' \in Places /\ exitCode' \in 0..8
    BY <2>3 DEF ServerTypeOK, Places
  <2>6. QED
    BY <2>4, <2>5
<1>4. sequence' \in Seq(Leds) /\ index' \in Nat \ {0} /\ calls' \in Nat
  BY DEF outputCommunication, translation, ServerTypeOK
<1>5. QED
  BY <1>1, <1>2, <1>3, <1>4 DEF ServerTypeOK

\* The output's steps, and those of whoever starts it, leave the controller alone; the
\* controller's steps leave the output alone.
LEMMA TypesStay ==
    /\ ServerTypeOK /\ UNCHANGED serverVars => ServerTypeOK'
    /\ OutputTypeOK /\ UNCHANGED outputVars => OutputTypeOK'
<1>1. ASSUME ServerTypeOK, UNCHANGED serverVars PROVE ServerTypeOK'
  BY <1>1 DEF ServerTypeOK, serverVars, translation, size, buffer, status
<1>2. ASSUME OutputTypeOK, UNCHANGED outputVars PROVE OutputTypeOK'
  <2>1. UNCHANGED <<up, crashes, rowLength, columnLength, outputGrid, shown, answerBytes, answer,
                    outputArmed>>
    BY <1>2 DEF outputVars, gridVars
  <2>2. Indices' = Indices
    BY <2>1 DEF Indices, numberOfLeds
  <2>3. QED
    BY <1>2, <2>1, <2>2 DEF OutputTypeOK
<1>3. QED
  BY <1>1, <1>2

\* Connecting changes nothing of the controller but its status and its place.
LEMMA ConnectTypes ==
    ASSUME ServerTypeOK, NEW after \in {"await", "load"}, connectToOutput(after)
    PROVE  /\ pc' \in Places /\ exitCode' \in 0..8
           /\ resume' \in {"await", "load"}
           /\ isSocketOpened' \in BOOLEAN /\ isCommunicationInitialized' \in BOOLEAN
<1>1. \/ pc' = "connect" /\ exitCode' = exitCode
      \/ pc' = "exit" /\ exitCode' \in {1, 2, 5}
  BY DEF connectToOutput, Goto, Exit, COM_DEVICE_CANNOT_CREATE, COM_SOCKET_CANNOT_OPEN,
         COM_SOCKET_CANNOT_CONNECT
<1>2. /\ resume' \in {resume, after}
      /\ isSocketOpened' = isSocketOpened
  BY DEF connectToOutput, status
<1>3. isCommunicationInitialized' \in {isCommunicationInitialized, TRUE}
  BY DEF connectToOutput, status
<1>4. isSocketOpened' \in BOOLEAN /\ isCommunicationInitialized' \in BOOLEAN
  BY <1>2, <1>3 DEF ServerTypeOK
<1>5. pc' \in Places /\ exitCode' \in 0..8 /\ resume' \in {"await", "load"}
  BY <1>1, <1>2 DEF ServerTypeOK, Places
<1>6. QED
  BY <1>4, <1>5

\* Every step of the controller keeps its types.
LEMMA ServerTypesStep ==
    ASSUME ServerTypeOK, answer \in Answer, Next
    PROVE  ServerTypeOK'
<1> USE DEF Goto, translation, size, buffer, status
<1>1. CASE getOutputInformations
  <2>1. bytesToWrite' \in {0, 4, 7, 9} /\ writeBuffer' \in Command
    BY <1>1, Segments DEF getOutputInformations, Load, Plain
  <2>2. /\ responseFromOutput' \in BOOLEAN
        /\ UNCHANGED <<numberOfRows, numberOfColumns, sequence, index, calls>>
    BY <1>1 DEF getOutputInformations
  <2>3. connectToOutput("await")
    BY <1>1 DEF getOutputInformations
  <2>4. QED
    BY <2>1, <2>2, <2>3, ConnectTypes DEF ServerTypeOK
<1>2. CASE Connected
  BY <1>2 DEF Connected, ServerTypeOK, Places
<1>3. CASE SizeFetched
  BY <1>3 DEF SizeFetched, ServerTypeOK, Places
<1>4. CASE LoadReset \/ LoadSet
  <2>1. Led \in Leds
    BY <1>4, LenProperties, ElementOfSeq DEF LoadReset, LoadSet, MoreLeds, Led, ServerTypeOK
  <2>2. bytesToWrite' \in {0, 4, 7, 9} /\ writeBuffer' \in Command
    <3>1. CASE LoadReset
      BY <2>1, <3>1, Segments, ConstantFacts DEF LoadReset, Load
    <3>2. CASE LoadSet
      <4> DEFINE address == LedAddress(Led.row, Led.column, numberOfColumns)
      <4>1. HighByte(address) \in Byte /\ LowByte(address) \in Byte
        BY <2>1, ConstantFacts, AddressBytes DEF ServerTypeOK
      <4>2. QED
        BY <2>1, <3>2, <4>1, Segments, ConstantFacts DEF LoadSet, Load
    <3>3. QED
      BY <1>4, <3>1, <3>2
  <2>3. QED
    BY <1>4, <2>2 DEF LoadReset, LoadSet, ServerTypeOK, Places
<1>5. CASE SkipLed \/ Sent
  BY <1>5 DEF SkipLed, Sent, ServerTypeOK, Places
<1>6. CASE LoadUpdate
  <2>1. bytesToWrite' \in {0, 4, 7, 9} /\ writeBuffer' \in Command
    BY <1>6, Segments DEF LoadUpdate, Load, Plain
  <2>2. QED
    BY <1>6, <2>1 DEF LoadUpdate, ServerTypeOK, Places
<1>7. CASE Flushed \/ Closed \/ serverClose
  BY <1>7 DEF Flushed, Closed, serverClose, ServerTypeOK, Places
<1>8. ASSUME NEW leds \in Requests, translateToOutput(leds)
      PROVE  ServerTypeOK'
  <2>1. sequence' \in Seq(Leds)
    BY <1>8, ServerAssumption, SeqDef DEF translateToOutput, Requests
  <2>2. /\ index' \in Nat \ {0} /\ calls' \in Nat
        /\ UNCHANGED <<size, buffer>>
    BY <1>8 DEF translateToOutput, ServerTypeOK
  <2>3. CASE connectToOutput("load")
    BY <2>1, <2>2, <2>3, ConnectTypes DEF ServerTypeOK
  <2>4. CASE Goto("load") /\ UNCHANGED <<network, status>>
    BY <2>1, <2>2, <2>4 DEF ServerTypeOK, Places
  <2>5. QED
    BY <1>8, <2>3, <2>4 DEF translateToOutput
<1>9. CASE OnSynAck
  BY <1>9, CallbackTypes DEF OnSynAck
<1>10. CASE OnAck \/ OnTimer
  BY <1>10, CallbackTypes DEF OnAck, OnTimer
<1>11. CASE OnAnswer(answer)
  BY <1>11, CallbackTypes DEF OnAnswer
<1>12. CASE SendFin
  BY <1>12, TypesStay DEF SendFin
<1>13. CASE OnFin \/ OnGiveUp
  BY <1>13, CallbackTypes DEF OnFin, OnGiveUp
<1>14. CASE OnConnectTimeout \/ OnReset
  BY <1>14, CallbackTypes DEF OnConnectTimeout, OnReset
<1>15. CASE Output \/ Operator \/ Ended
  BY <1>15, TypesStay DEF Output, Operator, Ended, ControllerUnchanged, vars
<1>16. QED
  BY <1>1, <1>2, <1>3, <1>4, <1>5, <1>6, <1>7, <1>8, <1>9, <1>10, <1>11, <1>12, <1>13, <1>14, <1>15
     DEF Next, Thread, User, Library

\* setLed stores at the addresses that are in the grid, and only there.
LEMMA StoredInside ==
    ASSUME NEW grid, DOMAIN grid = Indices, NEW addresses, NEW colour
    PROVE  setLed(grid, addresses, colour) =
              [i \in Indices |-> IF i \in addresses THEN colour ELSE grid[i]]
<1> DEFINE stored == Accepted \cap addresses
<1>1. DOMAIN grid \cup stored = Indices /\ \A i \in Indices : i \in stored <=> i \in addresses
  BY DEF Accepted, Indices
<1> HIDE DEF stored
<1>2. [i \in DOMAIN grid \cup stored |-> IF i \in stored THEN colour ELSE grid[i]] =
         [i \in Indices |-> IF i \in addresses THEN colour ELSE grid[i]]
  BY <1>1
<1>3. QED
  BY <1>2 DEF setLed, stored

\* What one command leaves of a grid is a grid: no address is outside it.
LEMMA ObeyTypes ==
    ASSUME NEW grid \in [Indices -> Colours], NEW command \in Segment
    PROVE  Obey(grid, command) \in [Indices -> Colours]
<1>1. ASSUME NEW addresses, NEW colour \in Colours
      PROVE  setLed(grid, addresses, colour) \in [Indices -> Colours]
  BY StoredInside
<1>2. CASE command.name \in {"RSET", "SLED"}
  <2>1. command.colour \in Colours
    BY <1>2, SegmentFields
  <2>2. QED
    BY <1>1, <1>2, <2>1 DEF Obey, initRGBListTo
<1>3. CASE command.name \notin {"RSET", "SLED"}
  BY <1>3 DEF Obey
<1>4. QED
  BY <1>2, <1>3

\* Every step of the output keeps its types.
LEMMA OutputTypesStep ==
    ASSUME TypeOK, Next
    PROVE  OutputTypeOK'
<1> USE DEF outputVars, gridVars
<1>1. CASE Thread \/ User \/ Library \/ Ended
  BY <1>1, TypesStay DEF TypeOK, Thread, User, Library, Ended, OutputUnchanged, vars
<1>2. CASE OnSyn \/ OnPeerClose \/ RefuseSegment
  <2>1. /\ UNCHANGED <<rowLength, columnLength, outputGrid, shown, up, crashes, answerBytes, answer>>
        /\ outputArmed' \in {outputArmed, TRUE}
    BY <1>2 DEF OnSyn, OnPeerClose, RefuseSegment
  <2>2. Indices' = Indices
    BY <2>1 DEF Indices, numberOfLeds
  <2>3. QED
    BY <2>1, <2>2 DEF TypeOK, OutputTypeOK
<1>3. CASE OnCommand
  <2>1. Head(toOutput) \in Segment
    BY <1>3, HeadTailProperties DEF OnCommand, Arrives, TypeOK, NetworkTypeOK
  <2>2. outputGrid' \in [Indices -> Colours] /\ shown' \in [Indices -> Colours]
    BY <1>3, <2>1, ObeyTypes DEF OnCommand, processSocketReading, TypeOK, OutputTypeOK
  <2>3. answerBytes' \in {0, 8}
    BY <1>3 DEF OnCommand, processSocketReading, TypeOK, OutputTypeOK
  <2>4. up' \in BOOLEAN /\ crashes' \in Nat /\ outputArmed' \in BOOLEAN
    BY <1>3 DEF OnCommand, TypeOK, OutputTypeOK
  <2>5. UNCHANGED <<rowLength, columnLength, up, answer>>
    BY <1>3 DEF OnCommand, processSocketReading
  <2>6. Indices' = Indices
    BY <2>5 DEF Indices, numberOfLeds
  <2>7. QED
    BY <2>2, <2>3, <2>4, <2>5, <2>6 DEF TypeOK, OutputTypeOK
<1>4. CASE OnOutputTimer
  <2>1. UNCHANGED <<rowLength, columnLength, outputGrid, shown, up, crashes>> /\ outputArmed' = FALSE
    BY <1>4 DEF OnOutputTimer
  <2>2. answerBytes' \in {0, 8} /\ answer' \in Answer
    BY <1>4, AnswerTypes DEF OnOutputTimer, WriteAnswer, SendAnswer, TypeOK, OutputTypeOK
  <2>3. Indices' = Indices
    BY <2>1 DEF Indices, numberOfLeds
  <2>4. QED
    BY <2>1, <2>2, <2>3 DEF TypeOK, OutputTypeOK
<1>5. CASE Operator
  <2>1. Dark' \in [Indices' -> Colours]
    BY ConstantFacts DEF Dark
  <2>2. CASE StartOutput
    <3>1. <<rowLength', columnLength'>> \in Sizes
      BY <2>2, ConstantFacts DEF StartOutput, initLedGrid
    <3>2. /\ up' = TRUE /\ outputArmed' = FALSE /\ outputGrid' = Dark' /\ shown' = Dark'
          /\ answerBytes' = 0 /\ UNCHANGED <<crashes, answer>>
      BY <2>2 DEF StartOutput, initLedGrid
    <3>3. QED
      BY <2>1, <3>1, <3>2 DEF TypeOK, OutputTypeOK
  <2>3. CASE KillOutput
    <3>1. up' \in BOOLEAN /\ outputArmed' \in BOOLEAN
      BY <2>3 DEF KillOutput, TypeOK, OutputTypeOK
    <3>2. crashes' \in Nat
      BY <2>3 DEF KillOutput, TypeOK, OutputTypeOK
    <3>3. UNCHANGED <<rowLength, columnLength, outputGrid, shown, answerBytes, answer>> /\ ~up'
      BY <2>3 DEF KillOutput
    <3>4. Indices' = Indices
      BY <3>3 DEF Indices, numberOfLeds
    <3>5. QED
      BY <3>1, <3>2, <3>3, <3>4 DEF TypeOK, OutputTypeOK
  <2>4. QED
    BY <1>5, <2>2, <2>3 DEF Operator
<1>6. QED
  BY <1>1, <1>2, <1>3, <1>4, <1>5 DEF Next, Output

\* The callback writes a segment, or none.
LEMMA CallbackNetwork ==
    ASSUME ServerTypeOK, toOutput \in Seq(Segment), NEW events, NEW message,
           outputCommunication(events, message)
    PROVE  toOutput' \in Seq(Segment)
<1>1. writeBuffer \in Segment
  BY Segments DEF ServerTypeOK
<1>2. Append(toOutput, writeBuffer) \in Seq(Segment)
  BY <1>1, AppendProperties
<1>3. QED
  BY <1>2 DEF outputCommunication, ReadFails, WriteBranch, WriteBuffer, SocketWrite, NothingWritten

\* Every step keeps the types of the connection.
LEMMA NetworkTypesStep ==
    ASSUME TypeOK, Next
    PROVE  NetworkTypeOK'
<1> USE DEF network
<1>1. ASSUME NEW after, connectToOutput(after), UNCHANGED session
      PROVE  NetworkTypeOK'
  <2>1. Plain("syn") \in Segment
    BY Segments DEF ControlNames
  <2>2. <<Plain("syn")>> \in Seq(Segment)
    BY <2>1
  <2>3. QED
    BY <1>1, <2>2 DEF connectToOutput, SocketConnect, TypeOK, NetworkTypeOK
<1>2. CASE getOutputInformations /\ OutputUnchanged
  BY <1>1, <1>2 DEF getOutputInformations, OutputUnchanged
<1>3. CASE User
  <2>1. ASSUME NEW leds, translateToOutput(leds), OutputUnchanged PROVE NetworkTypeOK'
    BY <1>1, <2>1 DEF translateToOutput, OutputUnchanged, TypeOK, NetworkTypeOK
  <2>2. CASE serverClose /\ OutputUnchanged
    BY <2>2 DEF serverClose, OutputUnchanged, TypeOK, NetworkTypeOK
  <2>3. QED
    BY <1>3, <2>1, <2>2 DEF User
<1>4. CASE Thread /\ ~getOutputInformations
  BY <1>4 DEF Thread, Connected, SizeFetched, LoadReset, LoadSet, SkipLed, Sent, LoadUpdate,
              Flushed, Closed, OutputUnchanged, TypeOK, NetworkTypeOK
<1>5. CASE Library
  <2>1. toOutput' \in Seq(Segment)
    <3>1. ASSUME NEW events, NEW message, outputCommunication(events, message)
          PROVE  toOutput' \in Seq(Segment)
      BY <3>1, CallbackNetwork DEF TypeOK, NetworkTypeOK
    <3>2. CASE SendFin
      <4>1. Plain("fin") \in Segment
        BY Segments DEF ControlNames
      <4>2. QED
        BY <3>2, <4>1, AppendProperties DEF SendFin, TypeOK, NetworkTypeOK
    <3>3. QED
      BY <1>5, <3>1, <3>2 DEF Library, OnSynAck, OnAck, OnAnswer, OnTimer, OnFin, OnReset,
                              OnGiveUp, OnConnectTimeout
  <2>2. /\ link' \in {"none", "syn", "open", "closing", "fin", "gone"}
        /\ toController' \in SUBSET {"synack", "ack", "answer", "fin", "rst"}
        /\ session' = session
    BY <1>5 DEF Library, OnSynAck, OnAck, OnAnswer, OnTimer, SendFin, OnFin, OnReset, OnGiveUp,
                OnConnectTimeout, Receive, OutputUnchanged, TypeOK, NetworkTypeOK
  <2>3. armed' \in BOOLEAN
    BY <1>5 DEF Library, OnSynAck, OnAck, OnAnswer, OnTimer, SendFin, OnFin, OnReset, OnGiveUp,
                OnConnectTimeout, TypeOK, NetworkTypeOK
  <2>4. QED
    BY <2>1, <2>2, <2>3 DEF TypeOK, NetworkTypeOK
<1>6. CASE Output
  <2>1. toOutput' \in Seq(Segment)
    BY <1>6, HeadTailProperties DEF Output, OnSyn, OnCommand, OnOutputTimer, OnPeerClose,
                                    RefuseSegment, Arrives, TypeOK, NetworkTypeOK
  <2>2. /\ session' \in {"none", "open", "closed"}
        /\ toController' \in SUBSET {"synack", "ack", "answer", "fin", "rst"}
    BY <1>6 DEF Output, OnSyn, OnCommand, OnOutputTimer, OnPeerClose, RefuseSegment, WriteAnswer,
                SendAnswer, TypeOK, NetworkTypeOK
  <2>3. link' = link /\ armed' = armed
    BY <1>6 DEF Output, ControllerUnchanged
  <2>4. QED
    BY <2>1, <2>2, <2>3 DEF TypeOK, NetworkTypeOK
<1>7. CASE Operator
  BY <1>7 DEF Operator, StartOutput, initLedGrid, KillOutput, ControllerUnchanged, TypeOK,
              NetworkTypeOK
<1>8. CASE Ended
  BY <1>8 DEF Ended, vars, TypeOK, NetworkTypeOK
<1>9. QED
  BY <1>2, <1>3, <1>4, <1>5, <1>6, <1>7, <1>8 DEF Next, Thread

\* The types hold at the start.
LEMMA InitialTypes == Init => TypeOK
<1>1. Dark \in [Indices -> Colours] /\ Plain("") \in Command
  BY ConstantFacts, Segments DEF Dark
<1>2. SUFFICES ASSUME Init PROVE TypeOK
  OBVIOUS
<1>3. /\ isSocketOpened \in BOOLEAN /\ isCommunicationInitialized \in BOOLEAN
      /\ responseFromOutput \in BOOLEAN
      /\ up \in BOOLEAN /\ outputArmed \in BOOLEAN /\ armed \in BOOLEAN
  BY <1>2, Zenon DEF Init, ServerInit, OutputInit
<1>4. ServerTypeOK
  <2>1. exitCode \in 0..8 /\ bytesToWrite \in {0, 4, 7, 9} /\ index \in Nat \ {0} /\ calls \in Nat
    <3>1. exitCode = 0 /\ bytesToWrite = 0 /\ index = 1 /\ calls = 0
      BY <1>2, Zenon DEF Init, ServerInit
    <3>2. QED
      BY <3>1
  <2>2. /\ pc \in Places /\ resume \in {"await", "load"}
        /\ sequence \in Seq(Leds) /\ writeBuffer \in Command
    <3>1. pc = "start" /\ resume = "await" /\ sequence = <<>> /\ writeBuffer = Plain("")
      BY <1>2, Zenon DEF Init, ServerInit
    <3>2. QED
      BY <1>1, <3>1, EmptySeq DEF Places
  <2>3. numberOfRows \in UShort /\ numberOfColumns \in UShort
    BY <1>2, ConstantFacts DEF Init, ServerInit
  <2>4. QED
    BY <1>3, <2>1, <2>2, <2>3 DEF ServerTypeOK
<1>5. OutputTypeOK
  <2>1. /\ rowLength = 0 /\ columnLength = 0 /\ outputGrid = Dark /\ shown = Dark
        /\ up = FALSE /\ crashes = 0 /\ answerBytes = 0 /\ answer = NoMessage
    BY <1>2, Zenon DEF Init, OutputInit
  <2>2. NoMessage \in Answer
    BY ConstantFacts DEF NoMessage, Answer
  <2>3. QED
    BY <1>1, <1>3, <2>1, <2>2 DEF OutputTypeOK
<1>6. NetworkTypeOK
  BY <1>2, <1>3 DEF Init, NetworkTypeOK
<1>7. QED
  BY <1>4, <1>5, <1>6 DEF TypeOK

\* The types of LedSystem survive each of its steps.
LEMMA SystemTypesStep ==
    ASSUME TypeOK, Next
    PROVE  TypeOK'
<1>1. ServerTypeOK' /\ OutputTypeOK' /\ NetworkTypeOK'
  BY ServerTypesStep, OutputTypesStep, NetworkTypesStep DEF TypeOK, OutputTypeOK
<1>2. QED
  BY <1>1 DEF TypeOK

\* Type correctness: in particular no address that an SLED carries is written outside the grid
\* (setLed), and no RSET writes past it, although its loop counts further than numberOfLeds when
\* that is too short for the size (initRGBListTo).
THEOREM SystemTypes == Spec => []TypeOK
<1>1. Init => TypeOK
  BY InitialTypes
<1>2. TypeOK /\ [Next]_vars => TypeOK'
  <2>1. SUFFICES ASSUME TypeOK, [Next]_vars PROVE TypeOK'
    OBVIOUS
  <2>2. CASE Next
    BY <2>1, <2>2, SystemTypesStep
  <2>3. CASE UNCHANGED vars
    <3>1. NetworkTypeOK'
      BY <2>1, <2>3 DEF vars, network, TypeOK, NetworkTypeOK
    <3>2. QED
      BY <2>1, <2>3, <3>1, TypesStay DEF vars, TypeOK
  <2>4. QED
    BY <2>1, <2>2, <2>3
<1>3. QED
  BY <1>1, <1>2, PTL DEF Spec

-----------------------------------------------------------------------------
(* What the steps do *)

\* The callback for a socket that can be written to, or that has been connected.
LEMMA WritableCallback ==
    ASSUME NEW message, NEW events \in {{"WR"}, {"CONN", "WR"}},
           outputCommunication(events, message)
    PROVE  /\ UNCHANGED <<size, translation, resume>>
           /\ isSocketOpened' = ("CONN" \in events \/ isSocketOpened)
           /\ \/ bytesToWrite = 0 /\ NothingWritten /\ pc' = pc
              \/ WriteBuffer /\ pc' = pc
              \/ NothingWritten /\ pc' = "exit"
BY DEF outputCommunication, ReadFails, ReadBranch, OpenedBranches, WriteBranch, Exit

\* The callback for an answer.
LEMMA AnswerCallback ==
    ASSUME isSocketOpened \in BOOLEAN, NEW message, outputCommunication({"RD"}, message)
    PROVE  /\ UNCHANGED <<translation, resume, isSocketOpened>> /\ NothingWritten
           /\ \/ /\ pc' = pc
                 /\ numberOfRows' = DecodeUShort(CharMax, message.rows[1], message.rows[2])
                 /\ numberOfColumns' = DecodeUShort(CharMax, message.columns[1], message.columns[2])
                 /\ responseFromOutput' = TRUE
              \/ pc' = "exit" /\ UNCHANGED size
BY DEF outputCommunication, ReadFails, ReadBranch, OpenedBranches, WriteBranch, Exit, status

\* The callback for a connection that was closed clears isSocketOpened, and nothing else.
LEMMA FinCallback ==
    ASSUME NEW message, outputCommunication({"FIN"}, message)
    PROVE  /\ UNCHANGED <<size, translation, resume, pc>> /\ NothingWritten
           /\ isSocketOpened' = FALSE
BY DEF outputCommunication, ReadFails, ReadBranch, OpenedBranches, WriteBranch

\* The callback for an error ends the program.
LEMMA ErrorCallback ==
    ASSUME isSocketOpened \in BOOLEAN, NEW message, outputCommunication({"ERR"}, message)
    PROVE  /\ UNCHANGED <<size, translation, resume, isSocketOpened>> /\ NothingWritten
           /\ pc' = "exit"
BY DEF outputCommunication, ReadFails, ReadBranch, OpenedBranches, Exit

\* Connecting starts from a fresh socket, or ends the program.
LEMMA ConnectCases ==
    ASSUME NEW after, connectToOutput(after)
    PROVE  /\ isSocketOpened' = isSocketOpened
           /\ \/ SocketConnect /\ resume' = after /\ pc' = "connect"
              \/ UNCHANGED network /\ resume' = resume /\ pc' = "exit"
BY DEF connectToOutput, Goto, Exit, status

-----------------------------------------------------------------------------
(* The connection and the thread *)

\* Every step keeps the thread, the connection and isSocketOpened in agreement.
LEMMA LinkStep ==
    ASSUME TypeOK, LinkInv, Next
    PROVE  LinkInv'
<1> USE DEF LinkInv
<1>1. CASE Output \/ Operator \/ Ended
  <2>1. link' = link /\ pc' = pc /\ isSocketOpened' = isSocketOpened
    BY <1>1 DEF Output, Operator, Ended, ControllerUnchanged, vars, network, serverVars, status
  <2>2. QED
    BY <2>1
<1>2. CASE getOutputInformations
  BY <1>2, ConnectCases DEF getOutputInformations, SocketConnect, network
<1>3. ASSUME NEW leds, translateToOutput(leds) PROVE LinkInv'
  <2>1. CASE Goto("load") /\ UNCHANGED <<network, status>>
    BY <1>3, <2>1 DEF translateToOutput, Goto, network, status
  <2>2. CASE ~isSocketOpened /\ connectToOutput("load")
    BY <1>3, <2>2, ConnectCases DEF translateToOutput, SocketConnect, network
  <2>3. QED
    BY <1>3, <2>1, <2>2 DEF translateToOutput
<1>4. CASE Connected \/ SizeFetched \/ LoadReset \/ LoadSet \/ SkipLed \/ Sent \/ LoadUpdate
             \/ Flushed
  BY <1>4 DEF Connected, SizeFetched, LoadReset, LoadSet, SkipLed, Sent, LoadUpdate, Flushed,
              MoreLeds, Goto, network, status, TypeOK, ServerTypeOK
<1>5. CASE serverClose \/ Closed
  BY <1>5 DEF serverClose, Closed, Goto, network, status
<1>6. CASE OnSynAck \/ OnAck \/ OnTimer
  BY <1>6, WritableCallback DEF OnSynAck, OnAck, OnTimer, Ticking
<1>7. CASE OnAnswer(answer) \/ SendFin
  BY <1>7, AnswerCallback DEF OnAnswer, SendFin, serverVars, status, TypeOK, ServerTypeOK
<1>8. CASE OnFin \/ OnGiveUp
  <2>1. pc' = pc /\ ~isSocketOpened' /\ link' = "gone"
    BY <1>8, FinCallback DEF OnFin, OnGiveUp
  <2>2. pc # "connect" /\ pc # "start"
    BY <1>8 DEF OnFin, OnGiveUp, Ticking
  <2>3. QED
    BY <2>1, <2>2
<1>9. CASE OnConnectTimeout \/ OnReset
  <2>1. pc' = "exit" /\ link' = "gone"
    BY <1>9, ErrorCallback DEF OnConnectTimeout, OnReset, TypeOK, ServerTypeOK
  <2>2. QED
    BY <2>1
<1>10. QED
  BY <1>1, <1>2, <1>3, <1>4, <1>5, <1>6, <1>7, <1>8, <1>9 DEF Next, Thread, User, Library

\* Every step keeps the thread where a lost connection is not used any more.
LEMMA LostStep ==
    ASSUME TypeOK, LinkInv, LostInv, Next
    PROVE  LostInv'
<1> USE DEF LostInv
<1>1. CASE Output \/ Operator \/ Ended
  <2>1. UNCHANGED <<link, pc, responseFromOutput, bytesToWrite>>
    BY <1>1 DEF Output, Operator, Ended, ControllerUnchanged, vars, network, serverVars, size,
                buffer
  <2>2. QED
    BY <2>1
<1>2. ASSUME NEW after, connectToOutput(after), link = "none" PROVE LostInv'
  BY <1>2, ConnectCases DEF SocketConnect, network
<1>3. CASE getOutputInformations
  BY <1>2, <1>3 DEF getOutputInformations, LinkInv
<1>4. ASSUME NEW leds, translateToOutput(leds) PROVE LostInv'
  <2>1. isSocketOpened /\ link # "gone"
    BY <1>4 DEF translateToOutput, LinkInv, TypeOK, NetworkTypeOK
  <2>2. UNCHANGED network
    BY <1>4, <2>1 DEF translateToOutput
  <2>3. link' \notin {"none", "syn", "gone"}
    BY <1>4, <2>1, <2>2 DEF translateToOutput, network
  <2>4. QED
    BY <2>3
<1>5. CASE Connected \/ SizeFetched \/ LoadReset \/ LoadSet \/ SkipLed \/ Sent \/ LoadUpdate
             \/ Flushed
  <2>1. link' = link /\ link \notin {"none", "syn", "gone"}
    BY <1>5 DEF Connected, SizeFetched, LoadReset, LoadSet, SkipLed, Sent, LoadUpdate, Flushed,
                MoreLeds, network, LinkInv, TypeOK, ServerTypeOK
  <2>2. QED
    BY <2>1
<1>6. CASE serverClose \/ Closed
  BY <1>6 DEF serverClose, Closed, Goto, network
<1>7. CASE OnSynAck \/ OnAck \/ OnTimer \/ OnAnswer(answer) \/ SendFin
  <2>1. link' \in {"open", "closing", "fin"}
    BY <1>7 DEF OnSynAck, OnAck, OnTimer, OnAnswer, SendFin
  <2>2. QED
    BY <2>1
<1>8. CASE OnFin
  <2>1. pc' = pc /\ pc \in {"close", "exit"} /\ link' = "gone"
    BY <1>8, FinCallback DEF OnFin, LinkInv
  <2>2. QED
    BY <2>1
<1>9. CASE OnGiveUp
  <2>1. /\ pc' = pc /\ bytesToWrite' = bytesToWrite /\ responseFromOutput' = responseFromOutput
        /\ link' = "gone"
    BY <1>9, FinCallback DEF OnGiveUp, NothingWritten, size
  <2>2. Ticking /\ isSocketOpened
    BY <1>9 DEF OnGiveUp, LinkInv
  <2>3. QED
    BY <2>1, <2>2 DEF Ticking
<1>10. CASE OnConnectTimeout \/ OnReset
  <2>1. pc' = "exit"
    BY <1>10, ErrorCallback DEF OnConnectTimeout, OnReset, TypeOK, ServerTypeOK
  <2>2. QED
    BY <2>1
<1>11. QED
  BY <1>1, <1>3, <1>4, <1>5, <1>6, <1>7, <1>8, <1>9, <1>10 DEF Next, Thread, User, Library

\* Every step keeps the output from accepting what nobody asked for.
LEMMA SessionStep ==
    ASSUME SessionInv, Next
    PROVE  SessionInv'
<1> USE DEF SessionInv
<1>1. CASE Thread \/ User \/ Library
  <2>1. session' = session
    BY <1>1 DEF Thread, User, Library, OutputUnchanged
  <2>2. link' = "none" => link = "none"
    BY <1>1, ConnectCases DEF Thread, User, Library, getOutputInformations, Connected, SizeFetched,
         LoadReset, LoadSet, SkipLed, Sent, LoadUpdate, Flushed, Closed, translateToOutput,
         serverClose, OnSynAck, OnAck, OnAnswer, OnTimer, SendFin, OnFin, OnReset, OnGiveUp,
         OnConnectTimeout, SocketConnect, network
  <2>3. QED
    BY <2>1, <2>2
<1>2. CASE Output \/ Operator
  <2>1. link' = link
    BY <1>2 DEF Output, Operator, ControllerUnchanged
  <2>2. session' = session \/ session' = "none" \/ link = "syn" \/ session = "open"
    BY <1>2 DEF Output, Operator, OnSyn, OnCommand, OnOutputTimer, OnPeerClose, RefuseSegment,
                StartOutput, initLedGrid, KillOutput
  <2>3. QED
    BY <2>1, <2>2
<1>3. CASE Ended
  BY <1>3 DEF Ended, vars, network
<1>4. QED
  BY <1>1, <1>2, <1>3 DEF Next

\* No step leaves a connection to an output that does not run.
LEMMA SessionNeedsOutputStep ==
    ASSUME SessionNeedsOutput, Next
    PROVE  SessionNeedsOutput'
<1> USE DEF SessionNeedsOutput
<1>1. CASE Thread \/ User \/ Library \/ Ended
  <2>1. UNCHANGED <<session, up>>
    BY <1>1 DEF Thread, User, Library, Ended, OutputUnchanged, vars, outputVars
  <2>2. QED
    BY <2>1
<1>2. CASE OnSyn \/ OnCommand \/ OnOutputTimer
  BY <1>2 DEF OnSyn, OnCommand, OnOutputTimer, Arrives
<1>3. CASE OnPeerClose \/ RefuseSegment
  BY <1>3 DEF OnPeerClose, RefuseSegment
<1>4. CASE Operator
  BY <1>4 DEF Operator, StartOutput, initLedGrid, KillOutput
<1>5. QED
  BY <1>1, <1>2, <1>3, <1>4 DEF Next, Output

-----------------------------------------------------------------------------
(* The buffer *)

\* Whatever does not load the buffer, nor leave the loop that waits for it, keeps its invariant.
LEMMA BufferStays ==
    ASSUME TypeOK, BufferInv, UNCHANGED <<sequence, index, isSocketOpened>>,
           \/ pc' = pc /\ bytesToWrite' = bytesToWrite /\ writeBuffer' = writeBuffer
           \/ pc' = pc /\ bytesToWrite' = 0
           \/ pc' = "exit"
    PROVE  BufferInv'
BY DEF TypeOK, ServerTypeOK, BufferInv, BufferHoldsCurrent, Led, WholeGrid

\* Every step keeps in the buffer what the thread waits for.
LEMMA BufferStep ==
    ASSUME TypeOK, LinkInv, BufferInv, Next
    PROVE  BufferInv'
<1>1. CASE Output \/ Operator \/ Ended \/ SendFin
  BY <1>1, BufferStays DEF Output, Operator, Ended, SendFin, ControllerUnchanged, vars, network,
                           serverVars, status, buffer, translation
<1>2. CASE getOutputInformations
  BY <1>2, ConnectCases DEF getOutputInformations, LinkInv, BufferInv, BufferHoldsCurrent
<1>3. ASSUME NEW leds, translateToOutput(leds) PROVE BufferInv'
  <2>1. bytesToWrite' = 0 /\ pc' \in {"load", "connect", "exit"}
    BY <1>3, ConnectCases DEF translateToOutput, Goto, BufferInv, BufferHoldsCurrent, buffer
  <2>2. QED
    BY <2>1 DEF BufferInv, BufferHoldsCurrent
<1>4. CASE Connected \/ SizeFetched \/ SkipLed \/ Sent \/ Flushed \/ serverClose \/ Closed
  <2>1. bytesToWrite' = 0 /\ pc' \in {"await", "load", "idle", "close", "done"}
    BY <1>4 DEF Connected, SizeFetched, SkipLed, Sent, Flushed, serverClose, Closed, MoreLeds, Goto,
                buffer, BufferInv, BufferHoldsCurrent, TypeOK, ServerTypeOK
  <2>2. QED
    BY <2>1 DEF BufferInv, BufferHoldsCurrent
<1>5. CASE LoadReset \/ LoadSet
  <2>1. /\ pc' = "send" /\ sequence' = sequence /\ index' = index
        /\ writeBuffer'.colour = Led.colour
        /\ bytesToWrite' = (IF WholeGrid(Led) THEN 7 ELSE 9)
    BY <1>5 DEF LoadReset, LoadSet, Load, Goto, translation
  <2>2. index \in DOMAIN sequence
    BY <1>5, LenProperties DEF LoadReset, LoadSet, MoreLeds, TypeOK, ServerTypeOK
  <2>3. Led' = Led
    BY <2>1 DEF Led
  <2>4. QED
    BY <2>1, <2>2, <2>3 DEF BufferInv, BufferHoldsCurrent, WholeGrid
<1>6. CASE LoadUpdate
  BY <1>6 DEF LoadUpdate, Load, Goto, BufferInv, BufferHoldsCurrent
<1>7. CASE OnSynAck
  <2>1. bytesToWrite' = 0 \/ pc' = "exit"
    BY <1>7, WritableCallback DEF OnSynAck, WriteBuffer, NothingWritten
  <2>2. QED
    BY <2>1 DEF BufferInv, BufferHoldsCurrent
<1>8. CASE OnAck \/ OnTimer
  <2>1. bytesToWrite' = 0 \/ pc' = "exit"
    BY <1>8, WritableCallback DEF OnAck, OnTimer, WriteBuffer, NothingWritten
  <2>2. QED
    BY <2>1 DEF BufferInv, BufferHoldsCurrent
<1>9. CASE OnAnswer(answer)
  BY <1>9, AnswerCallback, BufferStays DEF OnAnswer, NothingWritten, translation, TypeOK,
                                           ServerTypeOK
<1>10. CASE OnFin \/ OnGiveUp
  <2>1. /\ pc' = pc /\ sequence' = sequence /\ index' = index /\ bytesToWrite' = bytesToWrite
        /\ writeBuffer' = writeBuffer /\ ~isSocketOpened'
    BY <1>10, FinCallback DEF OnFin, OnGiveUp, NothingWritten, translation
  <2>2. QED
    BY <2>1 DEF BufferInv, BufferHoldsCurrent, Led, WholeGrid
<1>11. CASE OnConnectTimeout \/ OnReset
  <2>1. pc' = "exit"
    BY <1>11, ErrorCallback DEF OnConnectTimeout, OnReset, TypeOK, ServerTypeOK
  <2>2. QED
    BY <2>1 DEF BufferInv, BufferHoldsCurrent
<1>12. QED
  BY <1>1, <1>2, <1>3, <1>4, <1>5, <1>6, <1>7, <1>8, <1>9, <1>10, <1>11
     DEF Next, Thread, User, Library

-----------------------------------------------------------------------------
(* The channel *)

\* What is sent on an empty channel is alone on it.
LEMMA AppendToEmpty == ASSUME NEW e PROVE Append(<<>>, e) = <<e>>
<1>1. <<>> \in Seq({e}) /\ <<e>> \in Seq({e}) /\ e \in {e}
  OBVIOUS
<1>2. /\ Append(<<>>, e) \in Seq({e})
      /\ Len(Append(<<>>, e)) = 1
      /\ Append(<<>>, e)[1] = e
  BY <1>1, AppendProperties
<1>3. QED
  BY <1>1, <1>2, SeqEqual

\* A channel that holds one segment at most, and what a receiver leaves of it: nothing.
LEMMA ShortChannel ==
    ASSUME toOutput \in Seq(Segment), Len(toOutput) <= 1
    PROVE  /\ HasData <=> toOutput # <<>> /\ Head(toOutput).name \in CommandNames
           /\ toOutput # <<>> => Tail(toOutput) = <<>>
<1>1. CASE toOutput = <<>>
  BY <1>1 DEF HasData
<1>2. CASE toOutput # <<>>
  <2>1. Len(toOutput) = 1 /\ DOMAIN toOutput = {1}
    <3>1. Len(toOutput) \in Nat /\ Len(toOutput) # 0
      BY <1>2, EmptySeq, LenProperties
    <3>2. Len(toOutput) = 1
      <4>1. \A n \in Nat : n # 0 /\ n <= 1 => n = 1
        OBVIOUS
      <4>2. QED
        BY <3>1, <4>1
    <3>3. DOMAIN toOutput = 1..1
      BY <3>2, LenProperties
    <3>4. QED
      BY <3>2, <3>3
  <2>2. Head(toOutput) = toOutput[1]
    BY <2>1
  <2>3. Tail(toOutput) \in Seq(Segment) /\ Len(Tail(toOutput)) = 0
    BY <1>2, <2>1, HeadTailProperties
  <2>4. Tail(toOutput) = <<>>
    BY <2>3, EmptySeq
  <2>5. QED
    BY <1>2, <2>1, <2>2, <2>4 DEF HasData
<1>3. QED
  BY <1>1, <1>2

\* The two ways in which a step leaves the channel: empty, or with one segment.
LEMMA NextChannel ==
    /\ toOutput' = <<>> => ~HasData' /\ Len(toOutput') <= 1
    /\ \A segment : toOutput' = <<segment>> =>
          /\ HasData' <=> segment.name \in CommandNames
          /\ Len(toOutput') <= 1
          /\ toOutput' # <<>>
    /\ toOutput' = toOutput => (HasData' <=> HasData)
<1>1. ASSUME toOutput' = <<>> PROVE ~HasData' /\ Len(toOutput') <= 1
  BY <1>1 DEF HasData
<1>2. ASSUME NEW segment, toOutput' = <<segment>>
      PROVE  /\ HasData' <=> segment.name \in CommandNames
             /\ Len(toOutput') <= 1
             /\ toOutput' # <<>>
  <2>1. Len(toOutput') = 1 /\ DOMAIN toOutput' = {1} /\ toOutput'[1] = segment
    BY <1>2
  <2>2. QED
    BY <1>2, <2>1 DEF HasData
<1>3. ASSUME toOutput' = toOutput PROVE HasData' <=> HasData
  BY <1>3 DEF HasData
<1>4. QED
  BY <1>1, <1>2, <1>3

\* Nothing is sent, nothing arrives, and the connection at most comes to its end.
LEMMA ChannelStays ==
    ASSUME ChannelInv, toOutput' = toOutput, toController' \subseteq toController,
           \/ link' = link
           \/ link' = "gone"
           \/ link = "open" /\ link' = "closing"
    PROVE  ChannelInv'
BY NextChannel DEF ChannelInv, OneCommandUnderWay

\* The callback writes only where nothing is under way.
LEMMA ChannelWritten ==
    ASSUME TypeOK, ChannelInv, NEW message, NEW events \in {{"WR"}, {"CONN", "WR"}},
           outputCommunication(events, message),
           toOutput = <<>>, "ack" \notin toController', link' = "open"
    PROVE  ChannelInv'
<1>1. CASE NothingWritten
  BY <1>1, NextChannel DEF NothingWritten, ChannelInv, OneCommandUnderWay
<1>2. CASE WriteBuffer
  <2>1. toOutput' = <<writeBuffer>>
    BY <1>2, AppendToEmpty DEF WriteBuffer, SocketWrite
  <2>2. writeBuffer.name \in CommandNames
    BY CommandFields DEF TypeOK, ServerTypeOK
  <2>3. QED
    BY <2>1, <2>2, NextChannel DEF ChannelInv, OneCommandUnderWay
<1>3. QED
  BY <1>1, <1>2, WritableCallback

\* Every step keeps at most one command under way: each callback that writes comes when the
\* channel is empty.
LEMMA ChannelStep ==
    ASSUME TypeOK, LinkInv, SessionInv, ChannelInv, BufferInv, Next
    PROVE  ChannelInv'
<1>1. toOutput \in Seq(Segment) /\ Len(toOutput) <= 1
  BY DEF TypeOK, NetworkTypeOK, ChannelInv, OneCommandUnderWay
<1>2. ASSUME SocketConnect PROVE ChannelInv'
  <2>1. Plain("syn").name = "syn"
    BY DEF Plain
  <2>2. toOutput' = <<Plain("syn")>> /\ ~HasData' /\ Len(toOutput') <= 1
    BY <1>2, <2>1, NextChannel DEF SocketConnect, CommandNames
  <2>3. QED
    BY <1>2, <2>2 DEF SocketConnect, ChannelInv, OneCommandUnderWay
<1>3. ASSUME NEW after, connectToOutput(after) PROVE ChannelInv'
  BY <1>2, <1>3, ConnectCases, ChannelStays DEF network
<1>4. CASE getOutputInformations
  BY <1>3, <1>4 DEF getOutputInformations
<1>5. ASSUME NEW leds, translateToOutput(leds) PROVE ChannelInv'
  BY <1>3, <1>5, ChannelStays DEF translateToOutput, network
<1>6. CASE Connected \/ SizeFetched \/ LoadReset \/ LoadSet \/ SkipLed \/ Sent \/ LoadUpdate
             \/ Flushed \/ Closed \/ serverClose
  BY <1>6, ChannelStays DEF Connected, SizeFetched, LoadReset, LoadSet, SkipLed, Sent, LoadUpdate,
                            Flushed, Closed, serverClose, network
<1>7. CASE OnSynAck
  <2>1. toOutput = <<>> /\ "ack" \notin toController' /\ link' = "open"
    BY <1>7 DEF OnSynAck, Receive, ChannelInv
  <2>2. QED
    BY <1>7, <2>1, ChannelWritten DEF OnSynAck
<1>8. CASE OnAck /\ link = "open"
  <2>1. toOutput = <<>> /\ "ack" \notin toController' /\ link' = "open"
    BY <1>8 DEF OnAck, Receive, ChannelInv, OneCommandUnderWay
  <2>2. QED
    BY <1>8, <2>1, ChannelWritten DEF OnAck
<1>9. CASE OnAck /\ link = "closing"
  <2>1. pc = "close" /\ bytesToWrite = 0
    BY <1>9 DEF OnAck, Receive, InLoop, LinkInv, BufferInv, BufferHoldsCurrent
  <2>2. toOutput' = toOutput
    BY <1>9, <2>1 DEF OnAck, outputCommunication, ReadFails, WriteBranch, NothingWritten
  <2>3. QED
    BY <1>9, <2>2, ChannelStays DEF OnAck, Receive
<1>10. CASE OnTimer
  <2>1. toOutput = <<>> /\ "ack" \notin toController' /\ link' = "open"
    BY <1>10 DEF OnTimer, QueueEmpty, ChannelInv
  <2>2. QED
    BY <1>10, <2>1, ChannelWritten DEF OnTimer
<1>11. CASE OnAnswer(answer)
  BY <1>11, AnswerCallback, ChannelStays DEF OnAnswer, Receive, NothingWritten, TypeOK, ServerTypeOK
<1>12. CASE SendFin
  <2>1. toOutput = <<>> /\ "ack" \notin toController /\ ~HasData
    BY <1>12 DEF SendFin, QueueEmpty, ChannelInv
  <2>2. toOutput' = <<Plain("fin")>> /\ Plain("fin").name = "fin"
    BY <1>12, <2>1, AppendToEmpty DEF SendFin, Plain
  <2>3. ~HasData' /\ Len(toOutput') <= 1
    BY <2>2, NextChannel DEF CommandNames
  <2>4. QED
    BY <1>12, <2>1, <2>3 DEF SendFin, ChannelInv, OneCommandUnderWay
<1>13. CASE OnFin \/ OnGiveUp
  BY <1>13, FinCallback, ChannelStays DEF OnFin, OnGiveUp, Receive, NothingWritten
<1>14. CASE OnConnectTimeout \/ OnReset
  BY <1>14, ErrorCallback, ChannelStays DEF OnConnectTimeout, OnReset, Receive, NothingWritten,
                                            TypeOK, ServerTypeOK
<1>15. ASSUME NEW name, Arrives(name), ControllerUnchanged
       PROVE  /\ toOutput # <<>> /\ Head(toOutput).name = name
              /\ toOutput' = <<>> /\ ~HasData' /\ Len(toOutput') <= 1
              /\ name \in CommandNames => HasData
              /\ link' = link
  BY <1>1, <1>15, ShortChannel, NextChannel DEF Arrives, ControllerUnchanged
<1>16. CASE Output
  <2>1. CASE OnSyn /\ ControllerUnchanged
    BY <1>15, <2>1 DEF OnSyn, ChannelInv, OneCommandUnderWay
  <2>2. CASE OnCommand /\ ControllerUnchanged
    <3>1. PICK name \in CommandNames : Arrives(name)
      BY <2>2 DEF OnCommand
    <3>2. HasData /\ toOutput' = <<>> /\ ~HasData' /\ Len(toOutput') <= 1 /\ link' = link
      BY <1>15, <2>2, <3>1
    <3>3. link # "none" /\ link # "syn"
      BY <3>1, <3>2 DEF ChannelInv, Arrives
    <3>4. QED
      BY <3>2, <3>3 DEF ChannelInv, OneCommandUnderWay
  <2>3. CASE OnOutputTimer /\ ControllerUnchanged
    BY <2>3, NextChannel DEF OnOutputTimer, WriteAnswer, SendAnswer, ControllerUnchanged,
                             ChannelInv,
                             OneCommandUnderWay, SessionInv
  <2>4. CASE OnPeerClose /\ ControllerUnchanged
    BY <1>15, <2>4 DEF OnPeerClose, ChannelInv, OneCommandUnderWay, Arrives
  <2>5. CASE RefuseSegment /\ ControllerUnchanged
    <3>1. PICK name \in CommandNames \cup {"fin"} : Arrives(name)
      BY <2>5 DEF RefuseSegment
    <3>2. /\ toOutput # <<>> /\ toOutput' = <<>> /\ ~HasData' /\ Len(toOutput') <= 1
          /\ link' = link
      BY <1>15, <2>5, <3>1
    <3>3. toController' = toController \cup {"rst"}
      BY <2>5 DEF RefuseSegment
    <3>4. QED
      BY <3>2, <3>3 DEF ChannelInv, OneCommandUnderWay
  <2>6. QED
    BY <1>16, <2>1, <2>2, <2>3, <2>4, <2>5 DEF Output
<1>17. CASE Operator \/ Ended
  BY <1>17, ChannelStays DEF Operator, StartOutput, initLedGrid, KillOutput, Ended,
                             ControllerUnchanged, vars,
                             network
<1>18. QED
  BY <1>4, <1>5, <1>6, <1>7, <1>8, <1>9, <1>10, <1>11, <1>12, <1>13, <1>14, <1>16, <1>17
     DEF Next, Thread, User, Library, OnAck

-----------------------------------------------------------------------------
(* The wakeups *)

\* Whatever the thread does without the network keeps the next event where it was.
LEMMA WakeupStays ==
    ASSUME WakeupInv, UNCHANGED network,
           link = "open" => \/ pc \in {"idle", "load", "send", "flush"}
                            \/ pc = "await" /\ responseFromOutput
                            \/ pc = "connect" /\ isSocketOpened
                            \/ pc' \in {"exit", "close", "done"}
    PROVE  WakeupInv'
<1>1. /\ link' = link /\ armed' = armed /\ toController' = toController
      /\ toOutput' = toOutput
  BY DEF network
<1>2. HasData' <=> HasData
  BY <1>1, NextChannel
<1>3. QED
  BY <1>1, <1>2 DEF WakeupInv, QueueEmpty

\* Every step keeps a WR event to come.  The one step that uses up the last of them, OnTimer,
\* writes, or finds the thread where no further command follows without an answer first.
LEMMA WakeupStep ==
    ASSUME TypeOK, LinkInv, ChannelInv, BufferInv, WakeupInv, Next
    PROVE  WakeupInv'
<1>1. ASSUME link' # "open" PROVE WakeupInv'
  BY <1>1 DEF WakeupInv
<1>2. ASSUME armed' PROVE WakeupInv'
  BY <1>2 DEF WakeupInv
<1>3. ASSUME pc' = "exit" PROVE WakeupInv'
  BY <1>3 DEF WakeupInv
<1>4. CASE getOutputInformations
  BY <1>1, <1>3, <1>4, ConnectCases DEF getOutputInformations, SocketConnect
<1>5. ASSUME NEW leds, translateToOutput(leds) PROVE WakeupInv'
  <2>1. CASE UNCHANGED network /\ pc = "idle"
    BY <2>1, WakeupStays
  <2>2. CASE connectToOutput("load")
    BY <1>1, <1>3, <2>2, ConnectCases DEF SocketConnect
  <2>3. QED
    BY <1>5, <2>1, <2>2 DEF translateToOutput
<1>6. CASE Connected \/ SizeFetched \/ LoadReset \/ LoadSet \/ SkipLed \/ Sent \/ LoadUpdate
             \/ Flushed
  BY <1>6, WakeupStays DEF Connected, SizeFetched, LoadReset, LoadSet, SkipLed, Sent, LoadUpdate,
                           Flushed, MoreLeds
<1>7. CASE serverClose \/ Closed
  <2>1. pc' \in {"close", "done"}
    BY <1>7 DEF serverClose, Closed, Goto
  <2>2. QED
    BY <2>1 DEF WakeupInv
<1>8. CASE OnSynAck \/ OnAck \/ OnAnswer(answer)
  BY <1>2, <1>8 DEF OnSynAck, OnAck, OnAnswer
<1>9. CASE OnTimer
  <2>1. CASE WriteBuffer
    <3>1. toOutput = <<>>
      BY <1>9 DEF OnTimer, QueueEmpty, ChannelInv
    <3>2. toOutput' = <<writeBuffer>> /\ writeBuffer.name \in CommandNames
      BY <2>1, <3>1, AppendToEmpty, CommandFields DEF WriteBuffer, SocketWrite, TypeOK, ServerTypeOK
    <3>3. HasData'
      BY <3>2, NextChannel
    <3>4. QED
      BY <3>3 DEF WakeupInv, QueueEmpty
  <2>2. CASE bytesToWrite = 0 /\ pc' = pc
    <3>1. /\ responseFromOutput' = responseFromOutput
          /\ isSocketOpened' = isSocketOpened
      BY <1>9, WritableCallback DEF OnTimer, size, TypeOK, ServerTypeOK
    <3>2. /\ pc \in {"connect", "await", "close"}
          /\ pc = "connect" => ~isSocketOpened
          /\ pc = "await" => ~responseFromOutput
      BY <1>9, <2>2 DEF OnTimer, Ticking
    <3>3. QED
      BY <2>2, <3>1, <3>2 DEF WakeupInv
  <2>3. QED
    BY <1>3, <1>9, <2>1, <2>2, WritableCallback DEF OnTimer
<1>10. CASE SendFin \/ OnFin \/ OnGiveUp \/ OnConnectTimeout \/ OnReset
  BY <1>1, <1>10 DEF SendFin, OnFin, OnGiveUp, OnConnectTimeout, OnReset
<1>11. CASE Output
  <2>1. /\ link' = link /\ armed' = armed /\ pc' = pc
        /\ responseFromOutput' = responseFromOutput /\ isSocketOpened' = isSocketOpened
    BY <1>11 DEF Output, ControllerUnchanged, serverVars, size, status
  <2>2. /\ "rst" \in toController => "rst" \in toController'
        /\ \/ toOutput' = toOutput /\ ("ack" \in toController => "ack" \in toController')
           \/ "ack" \in toController' \/ "rst" \in toController'
           \/ link = "syn"
           \/ Arrives("fin")
    BY <1>11 DEF Output, OnSyn, OnCommand, OnOutputTimer, OnPeerClose, RefuseSegment, WriteAnswer,
                SendAnswer
  <2>3. ASSUME Arrives("fin") PROVE link # "open"
    <3>1. toOutput \in Seq(Segment) /\ Len(toOutput) <= 1
      BY DEF TypeOK, NetworkTypeOK, ChannelInv, OneCommandUnderWay
    <3>2. toOutput # <<>> /\ ~HasData
      BY <2>3, <3>1, ShortChannel DEF Arrives, CommandNames
    <3>3. QED
      BY <3>2 DEF ChannelInv
  <2>4. toOutput' = toOutput => (HasData' <=> HasData)
    BY NextChannel
  <2>5. QED
    BY <2>1, <2>2, <2>3, <2>4 DEF WakeupInv, QueueEmpty
<1>12. CASE Operator \/ Ended
  <2>1. UNCHANGED network /\ UNCHANGED serverVars
    BY <1>12 DEF Operator, StartOutput, initLedGrid, KillOutput, Ended, ControllerUnchanged,
                 vars, network
  <2>2. HasData' <=> HasData
    BY <2>1, NextChannel DEF network
  <2>3. QED
    BY <2>1, <2>2 DEF WakeupInv, QueueEmpty, network, serverVars, size, status
<1>13. QED
  BY <1>4, <1>5, <1>6, <1>7, <1>8, <1>9, <1>10, <1>11, <1>12 DEF Next, Thread, User, Library

-----------------------------------------------------------------------------
(* The output's answer, and the size *)

\* Every step keeps an event for the answer that is still to be written.
LEMMA AnswerStep ==
    ASSUME TypeOK, NoLostAnswer, Next
    PROVE  NoLostAnswer'
<1> USE DEF NoLostAnswer, outputVars
<1>1. CASE Thread \/ User \/ Library \/ Ended
  <2>1. UNCHANGED <<session, answerBytes, outputArmed>>
    BY <1>1 DEF Thread, User, Library, Ended, OutputUnchanged, vars
  <2>2. QED
    BY <2>1
<1>2. CASE OnSyn \/ OnCommand
  BY <1>2 DEF OnSyn, OnCommand
<1>3. CASE OnOutputTimer
  BY <1>3 DEF OnOutputTimer, WriteAnswer
<1>4. CASE OnPeerClose \/ RefuseSegment
  BY <1>4 DEF OnPeerClose, RefuseSegment
<1>5. CASE Operator
  BY <1>5 DEF Operator, StartOutput, initLedGrid, KillOutput
<1>6. QED
  BY <1>1, <1>2, <1>3, <1>4, <1>5 DEF Next, Output

\* Every size that may be entered survives the controller's char.
SizesSurvive ==
    \A entered \in Sizes : Survives(CharMax, entered[1]) /\ Survives(CharMax, entered[2])

\* Such a size is understood as it is.
LEMMA SizeUnderstood ==
    ASSUME SizesSurvive, OutputTypeOK, up
    PROVE  /\ DecodeUShort(CharMax, SizeMessage.rows[1], SizeMessage.rows[2]) = rowLength
           /\ DecodeUShort(CharMax, SizeMessage.columns[1], SizeMessage.columns[2]) = columnLength
<1>1. <<rowLength, columnLength>> \in Sizes
  BY DEF OutputTypeOK
<1>2. Survives(CharMax, rowLength) /\ Survives(CharMax, columnLength)
  BY <1>1 DEF SizesSurvive
<1>3. rowLength \in UShort /\ columnLength \in UShort
  BY LengthTypes
<1>4. QED
  BY <1>2, <1>3, ConstantFacts, RoundTrip DEF SizeMessage

\* Steps that tell the controller nothing, on a connection that is not a new one.
LEMMA ToldStays ==
    ASSUME ToldInv, UNCHANGED <<size, session, rowLength, columnLength, answer>>,
           toController' \subseteq toController,
           link' = "syn" => link = "syn" /\ toOutput' = toOutput
    PROVE  ToldInv'
<1>1. SizeMessage' = SizeMessage
  BY DEF SizeMessage
<1>2. UNCHANGED <<responseFromOutput, numberOfRows, numberOfColumns>>
  BY DEF size
<1>3. QED
  BY <1>1, <1>2 DEF ToldInv

\* Every step keeps the controller's size that of the output that accepted its connection.
LEMMA ToldStep ==
    ASSUME SizesSurvive, TypeOK, SystemInv, SessionNeedsOutput, ToldInv, Next
    PROVE  ToldInv'
<1> USE DEF OutputUnchanged, outputVars, gridVars
<1>1. CASE getOutputInformations /\ OutputUnchanged
  <2>1. link = "none" /\ session = "none" /\ session' = session /\ ~responseFromOutput'
    BY <1>1 DEF getOutputInformations, SystemInv, LinkInv, SessionInv
  <2>2. SocketConnect \/ UNCHANGED network
    BY <1>1, ConnectCases DEF getOutputInformations
  <2>3. QED
    BY <2>1, <2>2 DEF ToldInv, SocketConnect, network
<1>2. ASSUME NEW leds, translateToOutput(leds), OutputUnchanged PROVE ToldInv'
  <2>1. isSocketOpened
    BY <1>2 DEF translateToOutput, SystemInv, LinkInv, LostInv, TypeOK, NetworkTypeOK
  <2>2. UNCHANGED network /\ UNCHANGED size
    BY <1>2, <2>1 DEF translateToOutput
  <2>3. QED
    BY <1>2, <2>2, ToldStays DEF network
<1>3. CASE (Connected \/ SizeFetched \/ LoadReset \/ LoadSet \/ SkipLed \/ Sent \/ LoadUpdate
             \/ Flushed \/ Closed \/ serverClose) /\ OutputUnchanged
  <2>1. /\ UNCHANGED <<toOutput, toController>> /\ UNCHANGED size
        /\ link' = "syn" => link = "syn"
    BY <1>3 DEF Connected, SizeFetched, LoadReset, LoadSet, SkipLed, Sent, LoadUpdate, Flushed,
                Closed, serverClose, network
  <2>2. QED
    BY <1>3, <2>1, ToldStays
<1>4. CASE (OnSynAck \/ OnAck \/ OnTimer) /\ OutputUnchanged
  <2>1. UNCHANGED size /\ toController' \subseteq toController /\ link' # "syn"
    BY <1>4, WritableCallback DEF OnSynAck, OnAck, OnTimer, Receive
  <2>2. QED
    BY <1>4, <2>1, ToldStays
<1>5. CASE OnAnswer(answer) /\ OutputUnchanged
  <2>1. /\ link' = "open" /\ "answer" \in toController /\ toController' \subseteq toController
        /\ outputCommunication({"RD"}, answer)
    BY <1>5 DEF OnAnswer, Receive
  <2>2. CASE UNCHANGED size
    BY <1>5, <2>1, <2>2, ToldStays
  <2>3. CASE /\ numberOfRows' = DecodeUShort(CharMax, answer.rows[1], answer.rows[2])
             /\ numberOfColumns' = DecodeUShort(CharMax, answer.columns[1], answer.columns[2])
    <3>1. SizeMessage' = SizeMessage /\ UNCHANGED <<session, rowLength, columnLength, answer>>
      BY <1>5 DEF SizeMessage
    <3>2. session = "open" => answer = SizeMessage /\ up
      BY <2>1 DEF ToldInv, SessionNeedsOutput
    <3>3. session = "open" => numberOfRows' = rowLength /\ numberOfColumns' = columnLength
      BY <2>3, <3>2, SizeUnderstood DEF TypeOK
    <3>4. QED
      BY <2>1, <3>1, <3>2, <3>3 DEF ToldInv
  <2>4. QED
    BY <2>1, <2>2, <2>3, AnswerCallback DEF TypeOK, ServerTypeOK
<1>6. CASE (SendFin \/ OnFin \/ OnGiveUp \/ OnConnectTimeout \/ OnReset) /\ OutputUnchanged
  <2>1. link' # "syn" /\ toController' \subseteq toController
    BY <1>6 DEF SendFin, OnFin, OnGiveUp, OnConnectTimeout, OnReset, Receive
  <2>2. UNCHANGED size
    BY <1>6, FinCallback, ErrorCallback
       DEF SendFin, OnFin, OnGiveUp, OnConnectTimeout, OnReset, serverVars, TypeOK, ServerTypeOK
  <2>3. QED
    BY <1>6, <2>1, <2>2, ToldStays
<1>7. CASE Output
  <2>1. UNCHANGED <<link, responseFromOutput, numberOfRows, numberOfColumns>>
    BY <1>7 DEF Output, ControllerUnchanged, serverVars, size
  <2>2. /\ UNCHANGED <<rowLength, columnLength>> /\ SizeMessage' = SizeMessage
    <3>1. UNCHANGED <<rowLength, columnLength>>
      BY <1>7 DEF Output, OnSyn, OnCommand, processSocketReading, OnOutputTimer, OnPeerClose,
                  RefuseSegment
    <3>2. QED
      BY <3>1 DEF SizeMessage
  <2>3. toOutput \in Seq(Segment) /\ Len(toOutput) <= 1
    BY DEF TypeOK, NetworkTypeOK, SystemInv, ChannelInv, OneCommandUnderWay
  <2>4. CASE OnSyn
    <3>1. toOutput # <<>> /\ toOutput' = <<>> /\ link = "syn"
      BY <2>3, <2>4, ShortChannel DEF OnSyn, Arrives
    <3>2. ~responseFromOutput /\ "answer" \notin toController'
      BY <2>4, <3>1 DEF OnSyn, ToldInv
    <3>3. QED
      BY <2>1, <3>1, <3>2 DEF ToldInv
  <2>5. CASE OnCommand \/ OnPeerClose \/ RefuseSegment
    <3>1. /\ toOutput # <<>> /\ toOutput' = <<>> /\ answer' = answer
          /\ session' = "open" => session = "open"
          /\ "answer" \in toController' => "answer" \in toController
      BY <2>3, <2>5, ShortChannel DEF OnCommand, OnPeerClose, RefuseSegment, Arrives
    <3>2. QED
      BY <2>1, <2>2, <3>1 DEF ToldInv
  <2>6. CASE OnOutputTimer
    <3>1. session = "open" /\ session' = session /\ toOutput' = toOutput
      BY <2>6 DEF OnOutputTimer
    <3>2. \/ answer' = SizeMessage
          \/ answer' = answer /\ toController' = toController
      BY <2>6 DEF OnOutputTimer, WriteAnswer, SendAnswer
    <3>3. QED
      BY <2>1, <2>2, <3>1, <3>2 DEF ToldInv
  <2>7. QED
    BY <1>7, <2>4, <2>5, <2>6 DEF Output
<1>8. CASE Operator
  <2>1. UNCHANGED <<link, responseFromOutput, toOutput, toController>>
    BY <1>8 DEF Operator, StartOutput, initLedGrid, KillOutput, ControllerUnchanged, serverVars,
                size
  <2>2. session' # "open" /\ (session' = session \/ session' = "none")
    BY <1>8 DEF Operator, StartOutput, initLedGrid, KillOutput, SessionNeedsOutput
  <2>3. QED
    BY <2>1, <2>2 DEF ToldInv
<1>9. CASE Ended
  BY <1>9, ToldStays DEF Ended, vars, network, serverVars
<1>10. QED
  BY <1>1, <1>2, <1>3, <1>4, <1>5, <1>6, <1>7, <1>8, <1>9 DEF Next, Thread, User, Library

\* Every step keeps to the order in which the thread learns the size.
LEMMA OrderStep ==
    ASSUME TypeOK, OrderInv, Next
    PROVE  OrderInv'
<1> USE DEF OrderInv
<1>1. ASSUME UNCHANGED size, UNCHANGED resume, pc' \in {pc, "exit", "close", "done"}
      PROVE  OrderInv'
  <2>1. responseFromOutput' = responseFromOutput /\ resume' = resume
    BY <1>1 DEF size
  <2>2. QED
    BY <1>1, <2>1
<1>2. CASE getOutputInformations
  <2>1. ~responseFromOutput'
    BY <1>2 DEF getOutputInformations
  <2>2. \/ pc' = "connect" /\ resume' = "await"
        \/ pc' = "exit"
    BY <1>2, ConnectCases DEF getOutputInformations
  <2>3. QED
    BY <2>1, <2>2
<1>3. ASSUME NEW leds, translateToOutput(leds) PROVE OrderInv'
  <2>1. UNCHANGED size /\ pc = "idle"
    BY <1>3 DEF translateToOutput
  <2>2. QED
    BY <2>1 DEF size
<1>4. CASE Connected \/ SizeFetched
  <2>1. responseFromOutput' = responseFromOutput
    BY <1>4 DEF Connected, SizeFetched, size
  <2>2. \/ pc = "connect" /\ pc' = resume
        \/ responseFromOutput
    BY <1>4 DEF Connected, SizeFetched, Goto
  <2>3. resume \in {"await", "load"}
    BY DEF TypeOK, ServerTypeOK
  <2>4. QED
    BY <2>1, <2>2, <2>3
<1>5. CASE LoadReset \/ LoadSet \/ SkipLed \/ Sent \/ LoadUpdate \/ Flushed
  <2>1. UNCHANGED size /\ pc \in {"load", "send", "flush"}
    BY <1>5 DEF LoadReset, LoadSet, SkipLed, Sent, LoadUpdate, Flushed, MoreLeds
  <2>2. QED
    BY <2>1 DEF size
<1>6. CASE serverClose \/ Closed
  BY <1>1, <1>6 DEF serverClose, Closed, Goto, status
<1>7. CASE OnSynAck \/ OnAck \/ OnTimer
  BY <1>1, <1>7, WritableCallback DEF OnSynAck, OnAck, OnTimer
<1>8. CASE OnAnswer(answer)
  <2>1. CASE UNCHANGED size /\ pc' = "exit"
    BY <1>1, <1>8, <2>1, AnswerCallback DEF OnAnswer, TypeOK, ServerTypeOK
  <2>2. CASE responseFromOutput' = TRUE
    BY <2>2
  <2>3. QED
    BY <1>8, <2>1, <2>2, AnswerCallback DEF OnAnswer, TypeOK, ServerTypeOK
<1>9. CASE SendFin
  BY <1>1, <1>9 DEF SendFin, serverVars, status
<1>10. CASE OnFin \/ OnGiveUp
  BY <1>1, <1>10, FinCallback DEF OnFin, OnGiveUp
<1>11. CASE OnConnectTimeout \/ OnReset
  BY <1>1, <1>11, ErrorCallback DEF OnConnectTimeout, OnReset, TypeOK, ServerTypeOK
<1>12. CASE Output \/ Operator \/ Ended
  BY <1>1, <1>12 DEF Output, Operator, Ended, ControllerUnchanged, vars, serverVars, status
<1>13. QED
  BY <1>2, <1>3, <1>4, <1>5, <1>6, <1>7, <1>8, <1>9, <1>10, <1>11, <1>12
     DEF Next, Thread, User, Library

\* So what the thread computes with is the output's size.
LEMMA SizeStep ==
    ASSUME SizesSurvive, TypeOK, SystemInv, SessionNeedsOutput, SizeInv, Next
    PROVE  SizeInv'
BY ToldStep, OrderStep DEF SizeInv

-----------------------------------------------------------------------------
(* The invariants *)

\* The invariants hold at the start.
LEMMA InvariantsStart == Init => SystemInv /\ NoLostAnswer /\ SizeInv
<1>1. SUFFICES ASSUME Init PROVE SystemInv /\ NoLostAnswer /\ SizeInv
  OBVIOUS
<1>2. /\ link = "none" /\ session = "none" /\ toOutput = <<>> /\ toController = {}
      /\ pc = "start" /\ bytesToWrite = 0
  BY <1>1, Zenon DEF Init, ServerInit
<1>3. ~isSocketOpened /\ ~responseFromOutput
  BY <1>1, Zenon DEF Init, ServerInit
<1>4. ~HasData /\ Len(toOutput) <= 1
  BY <1>2 DEF HasData
<1>5. LinkInv /\ LostInv /\ SessionInv
  BY <1>2, <1>3 DEF LinkInv, LostInv, SessionInv
<1>6. ChannelInv
  BY <1>2, <1>4 DEF ChannelInv, OneCommandUnderWay
<1>7. BufferInv /\ WakeupInv
  BY <1>2 DEF BufferInv, BufferHoldsCurrent, WakeupInv
<1>8. NoLostAnswer /\ SizeInv
  BY <1>2, <1>3 DEF NoLostAnswer, SizeInv, ToldInv, OrderInv
<1>9. QED
  BY <1>5, <1>6, <1>7, <1>8 DEF SystemInv

\* They say nothing of a state but what its variables say.
LEMMA InvariantsStutter ==
    ASSUME UNCHANGED vars
    PROVE  /\ TypeOK /\ SystemInv => SystemInv'
           /\ NoLostAnswer => NoLostAnswer'
           /\ SizeInv => SizeInv'
<1>1. /\ UNCHANGED network /\ UNCHANGED session /\ UNCHANGED outputVars
      /\ UNCHANGED translation /\ UNCHANGED size /\ UNCHANGED buffer /\ UNCHANGED status
      /\ UNCHANGED pc
  BY DEF vars, serverVars
<1>2. LinkInv => LinkInv'
  BY <1>1 DEF network, status, LinkInv
<1>3. SessionInv => SessionInv'
  BY <1>1 DEF network, SessionInv
<1>4. ChannelInv => ChannelInv'
  BY <1>1, ChannelStays DEF network
<1>5. TypeOK /\ BufferInv => BufferInv'
  BY <1>1, BufferStays DEF translation, buffer, status
<1>6. WakeupInv => WakeupInv'
  <2>1. /\ UNCHANGED <<pc, isSocketOpened, responseFromOutput, armed, toController, link>>
        /\ HasData' <=> HasData
    BY <1>1, NextChannel DEF network, size, status
  <2>2. QED
    BY <2>1 DEF WakeupInv, QueueEmpty
<1>7. NoLostAnswer => NoLostAnswer'
  BY <1>1 DEF outputVars, NoLostAnswer
<1>8. SizeInv => SizeInv'
  <2>1. ToldInv => ToldInv'
    BY <1>1, ToldStays DEF network, outputVars, gridVars
  <2>2. OrderInv => OrderInv'
    BY <1>1 DEF size, status, OrderInv
  <2>3. QED
    BY <2>1, <2>2 DEF SizeInv
<1>9. LostInv => LostInv'
  BY <1>1 DEF network, size, buffer, LostInv
<1>10. QED
  BY <1>2, <1>3, <1>4, <1>5, <1>6, <1>7, <1>8, <1>9 DEF SystemInv

\* The inductive invariant holds.
LEMMA SystemInduction == Spec => []SystemInv
<1>1. Init => SystemInv
  BY InvariantsStart
<1>2. TypeOK /\ SystemInv /\ [Next]_vars => SystemInv'
  <2>1. SUFFICES ASSUME TypeOK, SystemInv, [Next]_vars PROVE SystemInv'
    OBVIOUS
  <2>2. CASE Next
    BY <2>1, <2>2, LinkStep, LostStep, SessionStep, ChannelStep, BufferStep, WakeupStep
       DEF SystemInv
  <2>3. CASE UNCHANGED vars
    BY <2>1, <2>3, InvariantsStutter
  <2>4. QED
    BY <2>1, <2>2, <2>3
<1>3. QED
  BY <1>1, <1>2, SystemTypes, PTL DEF Spec

\* No order of segments, acknowledgements, timers and faults brings two commands under way at
\* once: an RD event of the output finds one command (processSocketReading).
THEOREM StopAndWait == Spec => []OneCommandUnderWay
<1>1. SystemInv => OneCommandUnderWay
  BY DEF SystemInv, ChannelInv
<1>2. QED
  BY <1>1, SystemInduction, PTL

\* No loaded command is ever overtaken: what the loop waits for is what is in the buffer
\* (translateToOutput, outputCommunication).
THEOREM BufferIsCurrent == Spec => []BufferHoldsCurrent
<1>1. SystemInv => BufferHoldsCurrent
  BY DEF SystemInv, BufferInv
<1>2. QED
  BY <1>1, SystemInduction, PTL

\* The events that the invariant keeps are those that a loaded command waits for.
LEMMA WakeupNow == TypeOK /\ SystemInv => NoLostWakeup
<1>1. SUFFICES ASSUME TypeOK, SystemInv, link = "open", bytesToWrite > 0, pc # "exit"
               PROVE  armed \/ ~QueueEmpty \/ "rst" \in toController
  BY DEF NoLostWakeup
<1>2. WakeupInv /\ LinkInv /\ BufferInv
  BY <1>1 DEF SystemInv
<1>3. pc \in {"connect", "send", "flush"}
  BY <1>1, <1>2 DEF TypeOK, ServerTypeOK, Places, LinkInv, BufferInv, BufferHoldsCurrent
<1>4. pc # "connect"
  BY <1>1, <1>2 DEF LinkInv, BufferInv
<1>5. QED
  BY <1>1, <1>2, <1>3, <1>4 DEF WakeupInv

\* A command that waits for a WR event on an open connection has one to come, although the
\* callback uses up those that come while nothing is loaded (outputCommunication).
THEOREM WritesAreWoken == Spec => []NoLostWakeup
BY WakeupNow, SystemTypes, SystemInduction, PTL

\* No call of translateToOutput starts on a connection known to be lost: its first branch is never
\* taken.
THEOREM MenuIsConnected == Spec => []ConnectedInMenu
<1>1. TypeOK /\ SystemInv => ConnectedInMenu
  BY DEF TypeOK, NetworkTypeOK, SystemInv, LinkInv, LostInv, ConnectedInMenu
<1>2. QED
  BY <1>1, SystemTypes, SystemInduction, PTL

\* The output's answer has a WR event to come (ledCommunication).
THEOREM AnswersAreWoken == Spec => []NoLostAnswer
<1>1. Init => NoLostAnswer
  BY InvariantsStart
<1>2. TypeOK /\ NoLostAnswer /\ [Next]_vars => NoLostAnswer'
  <2>1. SUFFICES ASSUME TypeOK, NoLostAnswer, [Next]_vars PROVE NoLostAnswer'
    OBVIOUS
  <2>2. CASE Next
    BY <2>1, <2>2, AnswerStep
  <2>3. CASE UNCHANGED vars
    BY <2>1, <2>3, InvariantsStutter
  <2>4. QED
    BY <2>1, <2>2, <2>3
<1>3. QED
  BY <1>1, <1>2, SystemTypes, PTL DEF Spec

\* With sizes whose bytes survive the controller's char, no command is obeyed by a grid of another
\* size than its address was computed with, whatever fails in between, and however often the output
\* dies and is started with another size (getOutputInformations, translateToOutput, initLedGrid).
THEOREM SizeIsKnown ==
    ASSUME SizesSurvive
    PROVE  Spec => []SizeKnown
<1>1. Init => SizeInv /\ SessionNeedsOutput
  <2>1. Init => session = "none"
    BY DEF Init
  <2>2. QED
    BY <2>1, InvariantsStart DEF SessionNeedsOutput
<1>2. TypeOK /\ SystemInv /\ SizeInv /\ SessionNeedsOutput /\ [Next]_vars
         => (SizeInv /\ SessionNeedsOutput)'
  <2>1. SUFFICES ASSUME TypeOK, SystemInv, SizeInv, SessionNeedsOutput, [Next]_vars
                 PROVE  SizeInv' /\ SessionNeedsOutput'
    OBVIOUS
  <2>2. CASE Next
    BY <2>1, <2>2, SizeStep, SessionNeedsOutputStep
  <2>3. CASE UNCHANGED vars
    <3>1. SessionNeedsOutput'
      BY <2>1, <2>3 DEF vars, outputVars, SessionNeedsOutput
    <3>2. QED
      BY <2>1, <2>3, <3>1, InvariantsStutter
  <2>4. QED
    BY <2>1, <2>2, <2>3
<1>3. SizeInv => SizeKnown
  BY DEF SizeInv, ToldInv, OrderInv, SizeKnown
<1>4. QED
  BY <1>1, <1>2, <1>3, SystemTypes, SystemInduction, PTL DEF Spec
=============================================================================
