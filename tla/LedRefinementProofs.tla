------------------------ MODULE LedRefinementProofs ------------------------
(***************************************************************************)
(* LedSystem implements LedDisplay, for every grid whose numbers survive   *)
(* the wire, every sequence and every number of calls and of crashes, as   *)
(* long as no read or write of the controller's socket fails (either ends  *)
(* the program, whatever it still owes).                                   *)
(***************************************************************************)
EXTENDS LedRefinement, LedSystemProofs

\* Every number that is sent is understood: the size by the controller, and each address by the
\* output.
NumbersSurvive ==
    \A entered \in Sizes :
        /\ entered[1] * entered[2] <= UShortMax
        /\ Survives(CharMax, entered[1]) /\ Survives(CharMax, entered[2])
        /\ \A i \in 0..(entered[1] * entered[2] - 1) : Survives(OutputCharMax, i)

\* outputCommunication never meets an error of the socket.
SocketWorks == "read" \notin Faults /\ "write" \notin Faults

\* The output is connected to a controller that runs and that knows of no end of the connection; a
\* connection starts with a dark grid, and with nothing promised.
PeerInv ==
    /\ session = "open" =>
          /\ pc # "exit"
          /\ link \in {"syn", "open", "closing", "fin"}
          /\ "rst" \notin toController /\ "fin" \notin toController
    /\ session = "none" /\ up => outputGrid = Dark
    /\ link = "syn" =>
          /\ pc = "connect" /\ session # "closed"
          /\ toOutput # <<>> => toOutput = <<Plain("syn")>> /\ session = "none"
          /\ "rst" \notin toController /\ "fin" \notin toController
    /\ pc = "connect" /\ bytesToWrite > 0 => writeBuffer.name = "SIZE"

-----------------------------------------------------------------------------
(* The size *)

\* With a size that an unsigned short counts, the indices are those that the loops count to.
LEMMA SizeFacts ==
    ASSUME NumbersSurvive,
           NEW rows, NEW columns, <<rows, columns>> \in Sizes \cup {<<0, 0>>}
    PROVE  /\ rows \in Nat /\ columns \in Nat /\ rows \in UShort /\ columns \in UShort
           /\ rows * columns \in Nat /\ rows * columns <= UShortMax /\ rows * columns \in UShort
           /\ LedCount(rows, columns) = rows * columns
           /\ \A i \in 0..(rows * columns - 1) : i \in UShort /\ Survives(OutputCharMax, i)
<1>0. UShortMax \in Int /\ UShortMax + 1 = 65536
  BY DEF UShortMax
<1>1. rows \in UShort /\ columns \in UShort
  <2>1. CASE <<rows, columns>> \in Sizes
    BY <2>1, ConstantFacts
  <2>2. CASE <<rows, columns>> = <<0, 0>>
    BY <2>2, ConstantFacts
  <2>3. QED
    BY <2>1, <2>2
<1>2. rows \in Nat /\ columns \in Nat
  BY <1>1, UShortRange
<1>3. rows * columns \in Nat
  BY <1>2
<1>4. /\ rows * columns <= UShortMax
      /\ \A i \in 0..(rows * columns - 1) : Survives(OutputCharMax, i)
  <2>1. CASE <<rows, columns>> \in Sizes
    BY <2>1 DEF NumbersSurvive
  <2>2. CASE <<rows, columns>> = <<0, 0>>
    <3>1. rows = 0 /\ columns = 0
      BY <2>2
    <3>2. QED
      BY <1>0, <3>1
  <2>3. QED
    BY <2>1, <2>2
<1>5. rows * columns \in UShort /\ \A i \in 0..(rows * columns - 1) : i \in UShort
  BY <1>0, <1>3, <1>4, UShortRange
<1>6. LedCount(rows, columns) = rows * columns
  BY <1>5, UShortCast DEF LedCount
<1>7. QED
  BY <1>1, <1>2, <1>3, <1>4, <1>5, <1>6

\* And every position has its index.
LEMMA PositionInside ==
    ASSUME NEW rows \in Nat, NEW columns \in Nat,
           NEW p \in (0..(rows - 1)) \X (0..(columns - 1))
    PROVE  /\ p[1] \in Nat /\ p[2] \in Nat /\ p[1] < rows /\ p[2] < columns
           /\ p[1] * columns + p[2] \in 0..(rows * columns - 1)
<1>1. p[1] \in Nat /\ p[2] \in Nat /\ p[1] < rows /\ p[2] < columns
  OBVIOUS
<1>2. p[1] * columns + p[2] < rows * columns
  BY <1>1, AddressInGrid
<1>3. p[1] * columns + p[2] \in Nat /\ rows * columns \in Nat
  BY <1>1
<1>4. QED
  BY <1>1, <1>2, <1>3

\* So it is with the size of the output.
LEMMA CurrentSize ==
    ASSUME NumbersSurvive, OutputTypeOK
    PROVE  /\ rowLength \in Nat /\ columnLength \in Nat
           /\ Indices = 0..(rowLength * columnLength - 1)
           /\ Counted = Indices
           /\ \A i \in Indices : i \in UShort /\ Survives(OutputCharMax, i)
<1>1. <<rowLength, columnLength>> \in Sizes \cup {<<0, 0>>}
  BY DEF OutputTypeOK
<1>2. /\ rowLength \in Nat /\ columnLength \in Nat
      /\ rowLength * columnLength \in Nat /\ rowLength * columnLength <= UShortMax
      /\ LedCount(rowLength, columnLength) = rowLength * columnLength
      /\ \A i \in 0..(rowLength * columnLength - 1) : i \in UShort /\ Survives(OutputCharMax, i)
  BY <1>1, SizeFacts
<1>3. Indices = 0..(rowLength * columnLength - 1)
  BY <1>2 DEF Indices, numberOfLeds
<1>4. Counted = Indices
  <2>1. UShortMax \in Int
    BY DEF UShortMax
  <2>2. ~(rowLength * columnLength > UShortMax)
    BY <1>2, <2>1
  <2>3. QED
    BY <1>3, <2>2 DEF Counted
<1>5. QED
  BY <1>2, <1>3, <1>4

\* What depends on the size alone changes with it alone.
LEMMA GridStays ==
    ASSUME UNCHANGED <<rowLength, columnLength>>
    PROVE  Indices' = Indices /\ Dark' = Dark /\ Positions' = Positions
BY DEF Indices, Dark, Positions, numberOfLeds

\* So do the pictures of the grids that there are,
LEMMA PicturesStay ==
    ASSUME UNCHANGED <<rowLength, columnLength>>
    PROVE  /\ PictureOf(outputGrid)' = PictureOf(outputGrid')
           /\ PictureOf(shown)' = PictureOf(shown')
           /\ PictureOf(Arrived)' = PictureOf(Arrived')
           /\ PictureOf(Finished)' = PictureOf(Finished')
           /\ PictureOf(Dark)' = PictureOf(Dark')
BY GridStays DEF PictureOf

\* and what the commands make of them.
LEMMA CommandsStay ==
    ASSUME UNCHANGED <<rowLength, columnLength>>
    PROVE  /\ Arrived' = IF toOutput' = <<>> THEN outputGrid'
                         ELSE Obey(outputGrid', Head(toOutput'))
           /\ Written' = IF bytesToWrite' = 0 THEN Arrived' ELSE Obey(Arrived', writeBuffer')
BY DEF Arrived, Written, Obey, setLed, initRGBListTo, Accepted, Counted, numberOfLeds

-----------------------------------------------------------------------------
(* The two ends of the connection *)

\* PeerInv after a step of the controller's side that leaves the connection where it was.
LEMMA PeerStays ==
    ASSUME PeerInv, UNCHANGED <<session, up, rowLength, columnLength, outputGrid>>,
           toController' \subseteq toController, link' = link, link = "syn" => toOutput' = toOutput,
           link = "syn" => pc' = pc,
           pc' = "exit" => session # "open",
           \/ pc' # "connect"
           \/ bytesToWrite' = 0
           \/ pc' = pc /\ UNCHANGED buffer
    PROVE  PeerInv'
<1>1. Dark' = Dark
  BY GridStays
<1>2. QED
  BY <1>1 DEF PeerInv, buffer

\* Every step keeps the two ends in agreement.
LEMMA PeerStep ==
    ASSUME SocketWorks, TypeOK, SystemInv, SessionNeedsOutput, PeerInv, Next
    PROVE  PeerInv'
<1> USE DEF SystemInv
<1>1. CASE getOutputInformations /\ OutputUnchanged
  <2>1. link = "none" /\ session = "none"
    BY <1>1 DEF getOutputInformations, LinkInv, SessionInv
  <2>2. bytesToWrite' = 4 /\ writeBuffer'.name = "SIZE"
    BY <1>1 DEF getOutputInformations, Load
  <2>3. UNCHANGED <<session, up, rowLength, columnLength, outputGrid>>
    BY <1>1 DEF OutputUnchanged, outputVars, gridVars
  <2>4. \/ SocketConnect /\ pc' = "connect"
        \/ UNCHANGED network /\ pc' = "exit"
    BY <1>1, ConnectCases DEF getOutputInformations
  <2>5. QED
    BY <2>1, <2>2, <2>3, <2>4, GridStays DEF PeerInv, SocketConnect, network
<1>2. ASSUME NEW leds, translateToOutput(leds), OutputUnchanged PROVE PeerInv'
  <2>1. isSocketOpened
    BY <1>2 DEF translateToOutput, LinkInv, LostInv, TypeOK, NetworkTypeOK
  <2>2. UNCHANGED network /\ UNCHANGED buffer /\ pc' = "load" /\ link # "syn"
    BY <1>2, <2>1 DEF translateToOutput, Goto, PeerInv
  <2>3. QED
    BY <1>2, <2>2, PeerStays DEF OutputUnchanged, outputVars, gridVars, network
<1>3. CASE (Connected \/ SizeFetched) /\ OutputUnchanged
  <2>1. /\ pc' \in {resume, "idle"} /\ pc' # "connect" /\ pc' # "exit"
        /\ UNCHANGED network /\ UNCHANGED buffer /\ link # "syn"
    BY <1>3 DEF Connected, SizeFetched, Goto, TypeOK, ServerTypeOK, LinkInv, PeerInv
  <2>2. QED
    BY <1>3, <2>1, PeerStays DEF OutputUnchanged, outputVars, gridVars, network
<1>4. CASE (LoadReset \/ LoadSet \/ SkipLed \/ Sent \/ LoadUpdate \/ Flushed \/ Closed)
             /\ OutputUnchanged
  <2>1. pc' \in {"send", "load", "flush", "idle", "done"} /\ UNCHANGED network /\ link # "syn"
    BY <1>4 DEF LoadReset, LoadSet, SkipLed, Sent, LoadUpdate, Flushed, Closed, MoreLeds, Goto,
                PeerInv
  <2>2. UNCHANGED <<session, up, rowLength, columnLength, outputGrid>>
    BY <1>4 DEF OutputUnchanged, outputVars, gridVars
  <2>3. QED
    BY <2>1, <2>2, PeerStays DEF network
<1>5. CASE serverClose /\ OutputUnchanged
  BY <1>5, GridStays DEF serverClose, Goto, OutputUnchanged, outputVars, gridVars,
                         PeerInv, LinkInv, LostInv
<1>6. ASSUME NEW events \in {{"WR"}, {"CONN", "WR"}}, NEW message,
             outputCommunication(events, message)
      PROVE  pc' = pc /\ (UNCHANGED buffer \/ bytesToWrite' = 0)
  BY <1>6 DEF SocketWorks, outputCommunication, ReadFails, WriteBranch, WriteBuffer,
              NothingWritten, buffer
<1>7. CASE OnSynAck /\ OutputUnchanged
  BY <1>6, <1>7, GridStays DEF OnSynAck, Receive, OutputUnchanged, outputVars, gridVars, PeerInv,
                               buffer
<1>8. CASE (OnAck \/ OnTimer) /\ OutputUnchanged
  <2>1. /\ pc' = pc /\ (UNCHANGED buffer \/ bytesToWrite' = 0)
        /\ link' = link /\ link # "syn" /\ toController' \subseteq toController
    BY <1>6, <1>8 DEF OnAck, OnTimer, Receive
  <2>2. QED
    BY <1>8, <2>1, PeerStays DEF OutputUnchanged, outputVars, gridVars, PeerInv
<1>9. CASE OnAnswer(answer) /\ OutputUnchanged
  <2>1. pc' = pc /\ UNCHANGED buffer
    BY <1>9 DEF SocketWorks, OnAnswer, outputCommunication, ReadFails, WriteBranch,
                NothingWritten, buffer
  <2>2. link' = link /\ link # "syn" /\ toController' \subseteq toController
    BY <1>9 DEF OnAnswer, Receive
  <2>3. QED
    BY <1>9, <2>1, <2>2, PeerStays DEF OutputUnchanged, outputVars, gridVars, PeerInv
<1>10. CASE SendFin /\ OutputUnchanged
  BY <1>10, GridStays DEF SendFin, OutputUnchanged, outputVars, gridVars, serverVars, buffer,
                          PeerInv
<1>11. CASE (OnFin \/ OnReset) /\ OutputUnchanged
  <2>1. session # "open" /\ link' = "gone" /\ toController' \subseteq toController
    BY <1>11 DEF OnFin, OnReset, Receive, PeerInv
  <2>2. \/ pc' = pc /\ UNCHANGED buffer
        \/ pc' = "exit"
    BY <1>11, FinCallback, ErrorCallback
       DEF OnFin, OnReset, NothingWritten, buffer, TypeOK, ServerTypeOK
  <2>3. QED
    BY <1>11, <2>1, <2>2, GridStays DEF OutputUnchanged, outputVars, gridVars, PeerInv, buffer
<1>12. CASE ~up /\ (OnGiveUp \/ OnConnectTimeout) /\ OutputUnchanged
  <2>1. session # "open" /\ link' = "gone"
    BY <1>12 DEF OnGiveUp, OnConnectTimeout, SessionNeedsOutput
  <2>2. \/ pc' = pc /\ UNCHANGED buffer
        \/ pc' = "exit"
    BY <1>12, FinCallback, ErrorCallback
       DEF OnGiveUp, OnConnectTimeout, NothingWritten, buffer, TypeOK, ServerTypeOK
  <2>3. QED
    BY <1>12, <2>1, <2>2, GridStays DEF OutputUnchanged, outputVars, gridVars, PeerInv, buffer
<1>13. CASE Output
  <2>1. UNCHANGED <<link, pc, bytesToWrite, writeBuffer>> /\ Dark' = Dark
    <3>1. UNCHANGED <<link, pc, bytesToWrite, writeBuffer>>
      BY <1>13 DEF Output, ControllerUnchanged, serverVars, buffer
    <3>2. UNCHANGED <<rowLength, columnLength>>
      BY <1>13 DEF Output, OnSyn, OnCommand, OnOutputTimer, OnPeerClose, RefuseSegment,
                   processSocketReading, outputVars, gridVars
    <3>3. QED
      BY <3>1, <3>2, GridStays
  <2>2. toOutput \in Seq(Segment) /\ Len(toOutput) <= 1
    BY DEF TypeOK, NetworkTypeOK, ChannelInv, OneCommandUnderWay
  <2>3. CASE OnSyn
    BY <2>1, <2>2, <2>3, ShortChannel DEF OnSyn, Arrives, gridVars, PeerInv, LinkInv, LostInv
  <2>4. CASE OnCommand
    <3>1. HasData /\ link # "syn"
      BY <2>2, <2>4, ShortChannel DEF OnCommand, Arrives, ChannelInv
    <3>2. QED
      BY <2>1, <2>4, <3>1 DEF OnCommand, PeerInv
  <2>5. CASE OnOutputTimer
    BY <2>1, <2>5 DEF OnOutputTimer, WriteAnswer, SendAnswer, gridVars, PeerInv
  <2>6. CASE OnPeerClose
    <3>1. link # "syn"
      BY <2>6 DEF OnPeerClose, Arrives, PeerInv
    <3>2. QED
      BY <2>1, <2>6, <3>1 DEF OnPeerClose, outputVars, gridVars, PeerInv
  <2>7. CASE RefuseSegment
    <3>1. link # "syn"
      <4>1. Plain("syn").name = "syn" /\ "syn" \notin CommandNames \cup {"fin"}
        BY DEF Plain, CommandNames
      <4>2. toOutput # <<>> /\ Head(toOutput).name \in CommandNames \cup {"fin"}
        BY <2>7 DEF RefuseSegment, Arrives
      <4>3. link = "syn" => Head(toOutput) = Plain("syn")
        BY <4>2 DEF PeerInv
      <4>4. QED
        BY <4>1, <4>2, <4>3
    <3>2. QED
      BY <2>1, <2>7, <3>1 DEF RefuseSegment, outputVars, gridVars, PeerInv
  <2>8. QED
    BY <1>13, <2>3, <2>4, <2>5, <2>6, <2>7 DEF Output
<1>14. CASE Operator
  <2>1. UNCHANGED <<link, pc, bytesToWrite, writeBuffer, toOutput, toController>>
    BY <1>14 DEF Operator, StartOutput, initLedGrid, KillOutput, ControllerUnchanged, serverVars,
                 buffer
  <2>2. CASE StartOutput
    BY <2>1, <2>2 DEF StartOutput, initLedGrid, PeerInv, SessionNeedsOutput
  <2>3. CASE KillOutput
    BY <2>1, <2>3 DEF KillOutput, PeerInv
  <2>4. QED
    BY <1>14, <2>2, <2>3 DEF Operator
<1>15. CASE Ended
  <2>1. UNCHANGED network /\ UNCHANGED session /\ UNCHANGED outputVars /\ UNCHANGED serverVars
    BY <1>15 DEF Ended, vars
  <2>2. /\ UNCHANGED <<pc, up, rowLength, columnLength, outputGrid, link, toOutput, toController>>
        /\ UNCHANGED buffer
    BY <2>1 DEF network, outputVars, gridVars, serverVars
  <2>3. pc # "exit" \/ session # "open"
    BY DEF PeerInv
  <2>4. QED
    BY <2>1, <2>2, <2>3, PeerStays
<1>16. QED
  BY <1>1, <1>2, <1>3, <1>4, <1>5, <1>7, <1>8, <1>9, <1>10, <1>11, <1>12, <1>13, <1>14, <1>15
     DEF Next, Thread, User, Library

\* The program connects once: its only other call of connectToOutput is never reached.
ConnectsOnce == resume = "await"

\* A controller that starts is the only one that connects: a menu's call finds its socket open.
LEMMA ResumeStep ==
    ASSUME TypeOK, LinkInv, LostInv, ConnectsOnce, Next
    PROVE  ConnectsOnce'
<1> USE DEF ConnectsOnce
<1>1. CASE getOutputInformations
  BY <1>1, ConnectCases DEF getOutputInformations
<1>2. ASSUME NEW leds, translateToOutput(leds) PROVE ConnectsOnce'
  <2>1. isSocketOpened
    BY <1>2 DEF translateToOutput, LinkInv, LostInv, TypeOK, NetworkTypeOK
  <2>2. QED
    BY <1>2, <2>1 DEF translateToOutput, status
<1>3. CASE Connected \/ SizeFetched \/ LoadReset \/ LoadSet \/ SkipLed \/ Sent \/ LoadUpdate
             \/ Flushed \/ Closed \/ serverClose
  <2>1. UNCHANGED status
    BY <1>3 DEF Connected, SizeFetched, LoadReset, LoadSet, SkipLed, Sent, LoadUpdate, Flushed,
                Closed, serverClose
  <2>2. QED
    BY <2>1 DEF status
<1>4. CASE OnSynAck \/ OnAck \/ OnTimer
  BY <1>4, WritableCallback DEF OnSynAck, OnAck, OnTimer
<1>5. CASE OnAnswer(answer) \/ OnFin \/ OnReset \/ OnGiveUp \/ OnConnectTimeout
  BY <1>5, AnswerCallback, FinCallback, ErrorCallback
     DEF OnAnswer, OnFin, OnReset, OnGiveUp, OnConnectTimeout, TypeOK, ServerTypeOK
<1>6. CASE SendFin \/ Output \/ Operator \/ Ended
  <2>1. UNCHANGED serverVars
    BY <1>6 DEF SendFin, Output, Operator, Ended, ControllerUnchanged, vars
  <2>2. QED
    BY <2>1 DEF serverVars, status
<1>7. QED
  BY <1>1, <1>2, <1>3, <1>4, <1>5, <1>6 DEF Next, Thread, User, Library

-----------------------------------------------------------------------------
(* Pictures that follow one another *)

\* A command is printed once, or not at all.
LEMMA PrintedCases ==
    ASSUME NEW prints, NEW grid
    PROVE  /\ prints => Printed(prints, grid) = <<PictureOf(grid)>>
           /\ ~prints => Printed(prints, grid) = <<>>
BY Zenon DEF Printed

\* Either way it is a sequence of pictures.
LEMMA PrintedType ==
    ASSUME NEW prints, NEW grid, NEW S, PictureOf(grid) \in S
    PROVE  Printed(prints, grid) \in Seq(S)
<1>1. <<PictureOf(grid)>> \in Seq(S) /\ <<>> \in Seq(S)
  BY EmptySeq
<1>2. QED
  BY <1>1, PrintedCases, Zenon

\* A sequence that something precedes, and what is left of it without that.
LEMMA HeadOfConcat ==
    ASSUME NEW S, NEW x \in S, NEW s \in Seq(S)
    PROVE  /\ <<x>> \o s # <<>>
           /\ Head(<<x>> \o s) = x
           /\ Tail(<<x>> \o s) = s
<1>1. <<x>> \in Seq(S) /\ Len(<<x>>) = 1 /\ <<x>>[1] = x
  OBVIOUS
<1> DEFINE t == <<x>> \o s
<1>2. /\ t \in Seq(S) /\ Len(t) = 1 + Len(s)
      /\ \A i \in 1..(1 + Len(s)) : t[i] = IF i <= 1 THEN x ELSE s[i - 1]
  BY <1>1, ConcatProperties
<1>3. Len(s) \in Nat
  BY LenProperties
<1> HIDE DEF t
<1>4. t # <<>> /\ t[1] = x
  BY <1>2, <1>3, EmptySeq
<1>5. Head(t) = x
  BY <1>2, <1>4
<1>6. /\ Tail(t) \in Seq(S) /\ Len(Tail(t)) = Len(s)
      /\ \A i \in 1..Len(Tail(t)) : Tail(t)[i] = t[i + 1]
  BY <1>2, <1>3, <1>4, HeadTailProperties
<1>7. \A i \in 1..Len(Tail(t)) : Tail(t)[i] = s[i]
  BY <1>2, <1>3, <1>6
<1>8. Tail(t) = s
  BY <1>6, <1>7, SeqEqual
<1>9. QED
  BY <1>4, <1>5, <1>8 DEF t

\* The slots of Promised.
Carried == toOutput # <<>> /\ Head(toOutput).name = "UPDT"
Buffered == bytesToWrite > 0 /\ writeBuffer.name = "UPDT"

\* A picture that is promised is on the network, in the buffer, or what the rest of the sequence
\* will make.
LEMMA PromisedSlots ==
    /\ Promised = (Printed(Carried, outputGrid) \o Printed(Buffered, Arrived))
                     \o Printed(Translating, Finished)
    /\ Promised' = (Printed(Carried, outputGrid)' \o Printed(Buffered, Arrived)')
                     \o Printed(Translating, Finished)'
BY DEF Promised, Carried, Buffered

\* The same of the slots after a step.
LEMMA NextSlots ==
    /\ Printed(Carried, outputGrid)' = IF Carried' THEN <<PictureOf(outputGrid)'>> ELSE <<>>
    /\ Printed(Buffered, Arrived)' = IF Buffered' THEN <<PictureOf(Arrived)'>> ELSE <<>>
    /\ Printed(Translating, Finished)' = IF Translating' THEN <<PictureOf(Finished)'>> ELSE <<>>
BY DEF Printed

\* What prints the same grids promises the same pictures.
LEMMA PromisedStays ==
    ASSUME UNCHANGED <<rowLength, columnLength, outputGrid>>,
           Arrived' = Arrived, Finished' = Finished,
           Carried' <=> Carried, Buffered' <=> Buffered, Translating' <=> Translating
    PROVE  Promised' = Promised
<1>1. /\ PictureOf(outputGrid)' = PictureOf(outputGrid)
      /\ PictureOf(Arrived)' = PictureOf(Arrived)
      /\ PictureOf(Finished)' = PictureOf(Finished)
  BY PicturesStay
<1>2. /\ Printed(Carried, outputGrid)' = Printed(Carried, outputGrid)
      /\ Printed(Buffered, Arrived)' = Printed(Buffered, Arrived)
      /\ Printed(Translating, Finished)' = Printed(Translating, Finished)
  BY <1>1, NextSlots DEF Printed
<1>3. QED
  BY <1>2, PromisedSlots

-----------------------------------------------------------------------------
(* What the steps leave of the picture *)

\* The rest of the sequence paints what it painted before.
LEMMA FinishedStays ==
    ASSUME UNCHANGED <<rowLength, columnLength>>, Written' = Written, LedsLeft' = LedsLeft,
           LedsLeft = {} \/ UNCHANGED <<sequence, numberOfRows, numberOfColumns>>
    PROVE  Finished' = Finished
<1>1. CASE LedsLeft = {}
  BY <1>1, GridStays DEF Finished, Reaching
<1>2. CASE UNCHANGED <<sequence, numberOfRows, numberOfColumns>>
  <2>1. ASSUME NEW i PROVE Reaching(i)' = Reaching(i)
    BY <1>2 DEF Reaching, Reaches, InGrid, WholeGrid
  <2>2. QED
    BY <1>2, <2>1, GridStays DEF Finished
<1>3. QED
  BY <1>1, <1>2

\* Steps that move none of the commands under way promise nothing, and take nothing back.
LEMMA QuietStep ==
    ASSUME UNCHANGED <<rowLength, columnLength, outputGrid, toOutput, bytesToWrite, writeBuffer>>,
           LedsLeft' = LedsLeft, Translating' = Translating,
           LedsLeft = {} \/ UNCHANGED <<sequence, numberOfRows, numberOfColumns>>
    PROVE  Finished' = Finished /\ Promised' = Promised
<1>1. Arrived' = Arrived /\ Written' = Written
  BY CommandsStay DEF Arrived, Written
<1>2. Finished' = Finished
  BY <1>1, FinishedStays
<1>3. Promised' = Promised
  BY <1>1, <1>2, PromisedStays DEF Carried, Buffered
<1>4. QED
  BY <1>2, <1>3

\* The grids that the commands under way make are grids.
LEMMA GridTypes ==
    ASSUME TypeOK
    PROVE  Arrived \in [Indices -> Colours] /\ Written \in [Indices -> Colours]
<1>1. outputGrid \in [Indices -> Colours] /\ writeBuffer \in Segment /\ toOutput \in Seq(Segment)
  BY Segments DEF TypeOK, OutputTypeOK, ServerTypeOK, NetworkTypeOK
<1>2. toOutput # <<>> => Head(toOutput) \in Segment
  BY <1>1, HeadTailProperties
<1>3. Arrived \in [Indices -> Colours]
  BY <1>1, <1>2, ObeyTypes DEF Arrived
<1>4. QED
  BY <1>1, <1>3, ObeyTypes DEF Written

\* Without a further LED to translate, the picture is the one of the command in the buffer.
LEMMA FinishedIsWritten ==
    ASSUME TypeOK, LedsLeft = {}
    PROVE  Finished = Written
<1>1. Finished = [i \in Indices |-> Written[i]]
  BY DEF Finished, Reaching
<1>2. QED
  BY <1>1, GridTypes

\* The last of a set of positions does not change when an earlier one joins it.
LEMMA LastStaysLast ==
    ASSUME NEW n \in Nat, NEW S, S \subseteq 1..n, NEW k \in 1..n, \A i \in S : i > k
    PROVE  /\ S # {} => Max({k} \cup S) = Max(S)
           /\ Max({k}) = k
<1>1. Max({k}) = k
  BY DEF Max
<1>2. ASSUME S # {} PROVE Max({k} \cup S) = Max(S)
  <2>1. PICK last \in S : \A i \in S : last >= i
    BY <1>2, LastExists
  <2>2. \A x \in S : (\A i \in S : x >= i) => x = last
    BY <2>1
  <2>3. \A x \in {k} \cup S : (\A i \in {k} \cup S : x >= i) => x = last
    BY <2>1
  <2>4. last \in {k} \cup S /\ \A i \in {k} \cup S : last >= i
    BY <2>1
  <2>5. Max(S) = last
    BY <2>1, <2>2 DEF Max
  <2>6. Max({k} \cup S) = last
    BY <2>3, <2>4 DEF Max
  <2>7. QED
    BY <2>5, <2>6
<1>3. QED
  BY <1>1, <1>2

\* The LEDs that a step of the loop over the sequence leaves.
LEMMA OneLedLess ==
    ASSUME TypeOK, MoreLeds, UNCHANGED <<sequence, numberOfRows, numberOfColumns>>,
           \/ pc' = "send" /\ index' = index
           \/ pc' = "load" /\ index' = index + 1
    PROVE  /\ index \in 1..Len(sequence) /\ Len(sequence) \in Nat
           /\ \A i : /\ Reaching(i)' \subseteq (index + 1)..Len(sequence)
                     /\ Reaches(Led, i) => Reaching(i) = {index} \cup Reaching(i)'
                     /\ ~Reaches(Led, i) => Reaching(i) = Reaching(i)'
<1>1. /\ index \in Nat \ {0} /\ Len(sequence) \in Nat
      /\ pc = "load" /\ index <= Len(sequence)
  BY LenProperties DEF TypeOK, ServerTypeOK, MoreLeds
<1>2. LedsLeft = index..Len(sequence) /\ LedsLeft' = (index + 1)..Len(sequence)
  BY <1>1 DEF LedsLeft
<1>3. LedsLeft = {index} \cup LedsLeft'
  BY <1>1, <1>2
<1>4. \A led, i : Reaches(led, i)' <=> Reaches(led, i)
  BY DEF Reaches, WholeGrid, InGrid
<1>5. ASSUME NEW i
      PROVE  Reaching(i)' = {k \in LedsLeft' : Reaches(sequence[k], i)}
  BY <1>4 DEF Reaching
<1>6. ASSUME NEW i
      PROVE  /\ Reaching(i)' \subseteq (index + 1)..Len(sequence)
             /\ Reaches(Led, i) => Reaching(i) = {index} \cup Reaching(i)'
             /\ ~Reaches(Led, i) => Reaching(i) = Reaching(i)'
  <2>1. Reaching(i) = {k \in LedsLeft : Reaches(sequence[k], i)}
    BY DEF Reaching
  <2>2. Reaching(i)' \subseteq (index + 1)..Len(sequence)
    BY <1>2, <1>5
  <2>3. Reaches(Led, i) => Reaching(i) = {index} \cup Reaching(i)'
    BY <1>3, <1>5, <2>1 DEF Led
  <2>4. ~Reaches(Led, i) => Reaching(i) = Reaching(i)'
    BY <1>3, <1>5, <2>1 DEF Led
  <2>5. QED
    BY <2>2, <2>3, <2>4
<1>7. QED
  BY <1>1, <1>6

\* A LED outside the grid changes no picture.
LEMMA SkipStep ==
    ASSUME TypeOK, SkipLed, UNCHANGED outputVars
    PROVE  Finished' = Finished /\ Promised' = Promised
<1>1. /\ MoreLeds /\ pc' = "load" /\ index' = index + 1
      /\ UNCHANGED <<sequence, numberOfRows, numberOfColumns, toOutput>>
      /\ UNCHANGED <<rowLength, columnLength, outputGrid, bytesToWrite, writeBuffer>>
  BY DEF SkipLed, Goto, size, buffer, network, outputVars, gridVars
<1>2. \A i : ~Reaches(Led, i)
  BY DEF SkipLed, Reaches
<1>3. \A i : Reaching(i)' = Reaching(i)
  BY <1>1, <1>2, OneLedLess
<1>4. Arrived' = Arrived /\ Written' = Written
  BY <1>1, CommandsStay DEF Arrived, Written
<1>5. Finished' = Finished
  BY <1>1, <1>3, <1>4, GridStays DEF Finished
<1>6. Translating /\ Translating'
  BY <1>1 DEF Translating, MoreLeds
<1>7. Promised' = Promised
  BY <1>1, <1>4, <1>5, <1>6, PromisedStays DEF Carried, Buffered
<1>8. QED
  BY <1>5, <1>7

\* The command that is made of a LED paints what it reaches, and nothing else.
LEMMA PaintsWhatItReaches ==
    ASSUME NumbersSurvive, TypeOK, bytesToWrite = 0, LoadReset \/ LoadSet, UNCHANGED outputVars
    PROVE  /\ Arrived' = Arrived
           /\ \A i \in Indices :
                 Written'[i] = IF Reaches(Led, i) THEN Led.colour ELSE Written[i]
<1>1. UNCHANGED <<toOutput, rowLength, columnLength, outputGrid>>
  BY DEF LoadReset, LoadSet, network, outputVars, gridVars
<1>2. Arrived' = Arrived /\ Written = Arrived
  BY <1>1, CommandsStay DEF Arrived, Written
<1>3. Arrived \in [Indices -> Colours] /\ Counted = Indices
  BY GridTypes, CurrentSize DEF TypeOK
<1>4. Written' = Obey(Arrived, writeBuffer')
  <2>1. bytesToWrite' # 0
    BY DEF LoadReset, LoadSet, Load
  <2>2. QED
    BY <1>1, <1>2, <2>1, CommandsStay
<1>5. CASE LoadReset
  <2>1. writeBuffer'.name = "RSET" /\ writeBuffer'.colour = Led.colour /\ WholeGrid(Led)
    BY <1>5 DEF LoadReset, Load
  <2>2. Written' = [i \in Indices |-> Led.colour]
    <3>1. Written' = setLed(Arrived, Counted, Led.colour)
      BY <1>4, <2>1 DEF Obey, initRGBListTo
    <3>2. setLed(Arrived, Counted, Led.colour)
             = [i \in Indices |-> IF i \in Counted THEN Led.colour ELSE Arrived[i]]
      BY <1>3, StoredInside
    <3>3. QED
      BY <1>3, <3>1, <3>2
  <2>3. QED
    BY <1>2, <2>1, <2>2 DEF Reaches
<1>6. CASE LoadSet
  <2> DEFINE address == LedAddress(Led.row, Led.column, numberOfColumns)
             reached == DecodeUShort(OutputCharMax, HighByte(address), LowByte(address))
  <2>1. /\ writeBuffer'.name = "SLED" /\ writeBuffer'.colour = Led.colour
        /\ writeBuffer'.high = HighByte(address) /\ writeBuffer'.low = LowByte(address)
        /\ ~WholeGrid(Led) /\ InGrid(Led)
    BY <1>6 DEF LoadSet, Load
  <2>2. Written' = setLed(Arrived, {reached}, Led.colour)
    BY <1>4, <2>1 DEF Obey
  <2>3. \A i : Reaches(Led, i) <=> i = reached
    BY <2>1 DEF Reaches
  <2> HIDE DEF reached
  <2>4. setLed(Arrived, {reached}, Led.colour)
           = [i \in Indices |-> IF i \in {reached} THEN Led.colour ELSE Arrived[i]]
    BY <1>3, StoredInside
  <2>5. QED
    BY <1>2, <2>2, <2>3, <2>4
<1>7. QED
  BY <1>5, <1>6

\* So the picture that was promised stays the one that is promised.
LEMMA PaintStep ==
    ASSUME NumbersSurvive, TypeOK, bytesToWrite = 0, LoadReset \/ LoadSet, UNCHANGED outputVars
    PROVE  Finished' = Finished /\ Promised' = Promised
<1>1. /\ MoreLeds /\ pc' = "send" /\ index' = index
      /\ UNCHANGED <<sequence, numberOfRows, numberOfColumns, toOutput>>
      /\ UNCHANGED <<rowLength, columnLength, outputGrid>>
      /\ writeBuffer'.name # "UPDT"
  BY DEF LoadReset, LoadSet, Load, Goto, size, translation, network, outputVars, gridVars
<1>2. /\ Arrived' = Arrived
      /\ \A i \in Indices : Written'[i] = IF Reaches(Led, i) THEN Led.colour ELSE Written[i]
  BY PaintsWhatItReaches
<1>3. ASSUME NEW i \in Indices
      PROVE  (IF Reaching(i)' = {} THEN Written'[i] ELSE sequence[Max(Reaching(i)')].colour)
               = (IF Reaching(i) = {} THEN Written[i] ELSE sequence[Max(Reaching(i))].colour)
  <2>1. /\ index \in 1..Len(sequence) /\ Len(sequence) \in Nat
        /\ Reaching(i)' \subseteq (index + 1)..Len(sequence)
        /\ Reaches(Led, i) => Reaching(i) = {index} \cup Reaching(i)'
        /\ ~Reaches(Led, i) => Reaching(i) = Reaching(i)'
    BY <1>1, OneLedLess
  <2>2. /\ Reaching(i)' # {} => Max({index} \cup Reaching(i)') = Max(Reaching(i)')
        /\ Max({index}) = index
    <3>1. Reaching(i)' \subseteq 1..Len(sequence) /\ \A k \in Reaching(i)' : k > index
      BY <2>1
    <3>2. QED
      BY <2>1, <3>1, LastStaysLast
  <2>3. CASE Reaches(Led, i)
    BY <1>2, <2>1, <2>2, <2>3 DEF Led
  <2>4. CASE ~Reaches(Led, i)
    BY <1>2, <2>1, <2>4
  <2>5. QED
    BY <2>3, <2>4
<1>4. Finished' = Finished
  BY <1>1, <1>3, GridStays DEF Finished
<1>5. Translating /\ Translating'
  BY <1>1 DEF Translating, MoreLeds
<1>6. ~Buffered /\ ~Buffered' /\ Carried' = Carried
  BY <1>1 DEF Buffered, Carried
<1>7. Promised' = Promised
  <2>1. Printed(Buffered, Arrived) = <<>> /\ Printed(Buffered, Arrived)' = <<>>
    BY <1>6, PrintedCases, NextSlots
  <2>2. Printed(Translating, Finished)' = Printed(Translating, Finished)
    BY <1>1, <1>4, <1>5, PrintedCases, NextSlots, PicturesStay
  <2>3. Printed(Carried, outputGrid)' = Printed(Carried, outputGrid)
    BY <1>1, <1>6, PrintedCases, NextSlots, PicturesStay
  <2>4. QED
    BY <2>1, <2>2, <2>3, PromisedSlots
<1>8. QED
  BY <1>4, <1>7

\* The library takes the command: the picture it will make moves from the buffer to the network.
LEMMA WriteStep ==
    ASSUME WriteBuffer, toOutput = <<>>, bytesToWrite > 0,
           UNCHANGED <<rowLength, columnLength, outputGrid>>, UNCHANGED translation,
           LedsLeft' = LedsLeft, Translating' = Translating,
           UNCHANGED <<numberOfRows, numberOfColumns>>
    PROVE  Finished' = Finished /\ Promised' = Promised
<1>1. toOutput' = <<writeBuffer>> /\ toOutput' # <<>> /\ Head(toOutput') = writeBuffer
  <2>1. toOutput' = <<writeBuffer>>
    BY AppendToEmpty DEF WriteBuffer, SocketWrite
  <2>2. QED
    BY <2>1
<1>2. bytesToWrite' = 0
  BY DEF WriteBuffer
<1>3. Arrived = outputGrid /\ Written = Obey(outputGrid, writeBuffer)
  BY DEF Arrived, Written
<1>4. Arrived' = Obey(outputGrid, writeBuffer) /\ Written' = Arrived'
  BY <1>1, <1>2, CommandsStay
<1>5. Finished' = Finished
  BY <1>3, <1>4, FinishedStays DEF translation
<1>6. ~Carried /\ ~Buffered' /\ (Carried' <=> Buffered)
  BY <1>1, <1>2 DEF Carried, Buffered
<1>7. Promised' = Promised
  <2> DEFINE Q == Printed(Buffered, outputGrid)
             R == Printed(Translating, Finished)
             S == {PictureOf(outputGrid), PictureOf(Finished)}
  <2>1. Q \in Seq(S) /\ R \in Seq(S)
    BY PrintedType
  <2>2. Printed(Carried, outputGrid) = <<>> /\ Printed(Buffered, Arrived)' = <<>>
    BY <1>6, PrintedCases, NextSlots
  <2>3. Printed(Buffered, Arrived) = Q
    BY <1>3
  <2>4. Printed(Carried, outputGrid)' = Q
    BY <1>6, PrintedCases, NextSlots, PicturesStay
  <2>5. Printed(Translating, Finished)' = R
    BY <1>5, PrintedCases, NextSlots, PicturesStay
  <2> HIDE DEF Q, R, S
  <2>6. <<>> \o Q = Q /\ Q \o <<>> = Q
    BY <2>1, ConcatEmptySeq
  <2>7. QED
    BY <2>2, <2>3, <2>4, <2>5, <2>6, PromisedSlots DEF R
<1>8. QED
  BY <1>5, <1>7

\* After the last LED the order to show them is loaded: the picture that the rest of the sequence
\* would make is the one that is there.
LEMMA UpdateStep ==
    ASSUME TypeOK, TypeOK', bytesToWrite = 0, LoadUpdate, UNCHANGED outputVars
    PROVE  Finished' = Finished /\ Promised' = Promised
<1>1. /\ pc = "load" /\ pc' = "flush" /\ index > Len(sequence)
      /\ UNCHANGED <<toOutput, rowLength, columnLength, outputGrid>>
      /\ writeBuffer'.name = "UPDT" /\ bytesToWrite' = 4
  BY DEF LoadUpdate, Load, Goto, network, outputVars, gridVars
<1>2. LedsLeft = {} /\ LedsLeft' = {}
  <2>1. index \in Nat /\ Len(sequence) \in Nat
    BY LenProperties DEF TypeOK, ServerTypeOK
  <2>2. QED
    BY <1>1, <2>1 DEF LedsLeft
<1>3. Arrived' = Arrived /\ Written = Arrived /\ Written' = Arrived
  <2>1. Arrived' = Arrived /\ Written = Arrived
    BY <1>1, CommandsStay DEF Arrived, Written
  <2>2. Obey(Arrived, writeBuffer') = Arrived
    BY <1>1 DEF Obey
  <2>3. QED
    BY <1>1, <2>1, <2>2, CommandsStay
<1>4. Finished = Arrived /\ Finished' = Arrived
  <2>1. Finished' = Finished
    BY <1>1, <1>2, <1>3, FinishedStays
  <2>2. QED
    BY <1>2, <1>3, <2>1, FinishedIsWritten
<1>5. /\ ~Buffered /\ Buffered' /\ Translating /\ ~Translating'
      /\ (Carried' <=> Carried)
  BY <1>1 DEF Buffered, Translating, Carried
<1>6. Promised' = Promised
  <2> DEFINE P == Printed(Carried, outputGrid)
             picture == PictureOf(Arrived)
             S == {PictureOf(outputGrid), picture}
  <2>1. P \in Seq(S) /\ <<picture>> \in Seq(S)
    <3>1. P \in Seq(S)
      BY PrintedType
    <3>2. <<picture>> \in Seq(S)
      OBVIOUS
    <3>3. QED
      BY <3>1, <3>2
  <2>2. Printed(Buffered, Arrived) = <<>> /\ Printed(Translating, Finished)' = <<>>
    BY <1>5, PrintedCases, NextSlots
  <2>3. Printed(Buffered, Arrived)' = <<picture>>
    BY <1>1, <1>3, <1>5, NextSlots, PicturesStay
  <2>4. Printed(Translating, Finished) = <<picture>>
    BY <1>4, <1>5, PrintedCases
  <2>5. Printed(Carried, outputGrid)' = P
    BY <1>1, <1>5, PrintedCases, NextSlots, PicturesStay
  <2> HIDE DEF P, picture, S
  <2>6. P \o <<>> = P /\ P \o <<picture>> \in Seq(S)
    BY <2>1, ConcatEmptySeq, ConcatProperties
  <2>7. (P \o <<picture>>) \o <<>> = P \o <<picture>>
    BY <2>6, ConcatEmptySeq
  <2>8. QED
    BY <2>2, <2>3, <2>4, <2>5, <2>6, <2>7, PromisedSlots DEF P
<1>7. QED
  BY <1>4, <1>6

\* The output obeys the command that arrived: the pictures stay what they were, and if the command
\* was the order to show one, it was the first of those promised.
LEMMA ObeyStep ==
    ASSUME TypeOK, Len(toOutput) <= 1, OnCommand, ControllerUnchanged
    PROVE  /\ Finished' = Finished
           /\ \/ Promised' = Promised /\ shown' = shown
              \/ /\ Promised # <<>>
                 /\ PictureOf(shown)' = Head(Promised) /\ Promised' = Tail(Promised)
<1>1. toOutput # <<>> /\ toOutput' = <<>> /\ processSocketReading(Head(toOutput))
  <2>1. toOutput \in Seq(Segment)
    BY DEF TypeOK, NetworkTypeOK
  <2>2. QED
    BY <2>1, ShortChannel DEF OnCommand, Arrives
<1>2. /\ Arrived = Obey(outputGrid, Head(toOutput)) /\ outputGrid' = Arrived /\ Arrived' = Arrived
      /\ UNCHANGED <<rowLength, columnLength>>
  BY <1>1 DEF Arrived, processSocketReading
<1>3. UNCHANGED <<pc, bytesToWrite, writeBuffer, sequence, index, numberOfRows, numberOfColumns>>
  BY DEF ControllerUnchanged, serverVars, translation, size, buffer
<1>4. Written' = Written /\ LedsLeft' = LedsLeft /\ (Translating' <=> Translating)
  <2>1. Written' = Written
    BY <1>2, <1>3, CommandsStay DEF Written
  <2>2. QED
    BY <1>3, <2>1 DEF LedsLeft, Translating
<1>5. Finished' = Finished
  BY <1>2, <1>3, <1>4, FinishedStays
<1> DEFINE Q == Printed(Buffered, Arrived)
           R == Printed(Translating, Finished)
           S == {PictureOf(outputGrid), PictureOf(Arrived), PictureOf(Finished)}
<1>6. Q \in Seq(S) /\ R \in Seq(S) /\ PictureOf(outputGrid) \in S
  BY PrintedType
<1>7. Printed(Buffered, Arrived)' = Q
  <2>1. Buffered' <=> Buffered
    BY <1>3 DEF Buffered
  <2>2. QED
    BY <1>2, <2>1, PrintedCases, NextSlots, PicturesStay
<1>8. Printed(Translating, Finished)' = R
  BY <1>2, <1>4, <1>5, PrintedCases, NextSlots, PicturesStay
<1>9. ~Carried' /\ Printed(Carried, outputGrid)' = <<>>
  <2>1. ~Carried'
    BY <1>1 DEF Carried
  <2>2. QED
    BY <2>1, NextSlots
<1> HIDE DEF Q, R, S
<1>10. <<>> \o Q = Q /\ Q \o R \in Seq(S)
  BY <1>6, ConcatEmptySeq, ConcatProperties
<1>11. Promised' = Q \o R
  BY <1>7, <1>8, <1>9, <1>10, PromisedSlots
<1>12. CASE Carried
  <2>1. Printed(Carried, outputGrid) = <<PictureOf(outputGrid)>>
    BY <1>12, PrintedCases
  <2>2. Promised = (<<PictureOf(outputGrid)>> \o Q) \o R
    BY <2>1, PromisedSlots DEF Q, R
  <2>3. Promised = <<PictureOf(outputGrid)>> \o (Q \o R)
    <3>1. <<PictureOf(outputGrid)>> \in Seq(S)
      BY <1>6
    <3>2. QED
      BY <1>6, <2>2, <3>1, ConcatAssociative
  <2>4. PictureOf(shown)' = PictureOf(outputGrid)
    BY <1>1, <1>2, <1>12, PicturesStay DEF Carried, processSocketReading
  <2>5. QED
    BY <1>5, <1>6, <1>10, <1>11, <2>3, <2>4, HeadOfConcat
<1>13. CASE ~Carried
  <2>1. Printed(Carried, outputGrid) = <<>>
    BY <1>13, PrintedCases
  <2>2. Promised = Q \o R
    BY <1>10, <2>1, PromisedSlots DEF Q, R
  <2>3. shown' = shown
    BY <1>1, <1>13 DEF Carried, processSocketReading
  <2>4. QED
    BY <1>5, <1>11, <2>2, <2>3
<1>14. QED
  BY <1>12, <1>13

-----------------------------------------------------------------------------
(* What is promised *)

\* Every position of the picture has its index.
LEMMA IndexOfPosition ==
    ASSUME NumbersSurvive, OutputTypeOK, NEW p \in Positions
    PROVE  /\ p[1] \in Nat /\ p[2] \in Nat /\ p[1] < rowLength /\ p[2] < columnLength
           /\ p[1] * columnLength + p[2] \in Indices
BY CurrentSize, PositionInside DEF Positions

\* The command that is made of a LED reaches what the LED names.
LEMMA ReachesWhatItTouches ==
    ASSUME NumbersSurvive, OutputTypeOK,
           numberOfRows = rowLength, numberOfColumns = columnLength,
           NEW led \in Leds, NEW p \in Positions
    PROVE  Reaches(led, p[1] * columnLength + p[2]) <=> Display!Touches(led, p)
<1>1. /\ led.row \in Nat /\ led.column \in Nat
      /\ rowLength \in Nat /\ columnLength \in Nat
  BY ConstantFacts, UShortRange, CurrentSize
<1>2. p[1] \in Nat /\ p[2] \in Nat /\ p[1] < rowLength /\ p[2] < columnLength
  BY IndexOfPosition
<1> DEFINE number == led.row * columnLength + led.column
           address == LedAddress(led.row, led.column, numberOfColumns)
           reached == DecodeUShort(OutputCharMax, HighByte(address), LowByte(address))
<1>3. ASSUME InGrid(led) PROVE reached = number
  <2>1. number < rowLength * columnLength
    BY <1>1, <1>3, AddressInGrid DEF InGrid
  <2>2. number \in Indices
    <3>1. number \in Nat /\ rowLength * columnLength \in Nat
      BY <1>1
    <3>2. QED
      BY <2>1, <3>1, CurrentSize
  <2>3. number \in UShort /\ Survives(OutputCharMax, number)
    BY <2>2, CurrentSize
  <2> HIDE DEF number
  <2>4. address = number
    BY <2>3, UShortCast DEF LedAddress, number
  <2>5. QED
    BY <2>3, <2>4, ConstantFacts, RoundTrip
<1>4. Reaches(led, p[1] * columnLength + p[2]) <=>
        WholeGrid(led) \/ (InGrid(led) /\ p[1] * columnLength + p[2] = reached)
  BY DEF Reaches
<1> HIDE DEF reached
<1>5. ASSUME InGrid(led), p[1] * columnLength + p[2] = number
      PROVE  led.row = p[1] /\ led.column = p[2]
  <2>1. led.column < columnLength
    BY <1>5 DEF InGrid
  <2>2. number \div columnLength = led.row /\ number % columnLength = led.column
    BY <1>1, <2>1, PositionOfAddress
  <2>3. /\ (p[1] * columnLength + p[2]) \div columnLength = p[1]
        /\ (p[1] * columnLength + p[2]) % columnLength = p[2]
    BY <1>1, <1>2, PositionOfAddress
  <2> HIDE DEF number
  <2>4. QED
    BY <1>5, <2>2, <2>3
<1>6. ASSUME led.row = p[1], led.column = p[2]
      PROVE  InGrid(led) /\ p[1] * columnLength + p[2] = number
  BY <1>2, <1>6 DEF InGrid
<1> HIDE DEF number
<1>7. Display!Touches(led, p) <=> WholeGrid(led) \/ (led.row = p[1] /\ led.column = p[2])
  BY DEF Display!Touches, WholeGrid
<1>8. QED
  BY <1>3, <1>4, <1>5, <1>6, <1>7

\* The menu's call: the picture that its commands will make is the one that its LEDs paint over
\* the picture of the call before it, and that is what the call promises.
LEMMA RequestStep ==
    ASSUME NumbersSurvive, TypeOK, SystemInv, SizeInv, session = "open",
           NEW leds \in Requests, translateToOutput(leds), OutputUnchanged
    PROVE  /\ PictureOf(Finished)' = Display!Painted(PictureOf(Finished), leds)
           /\ Promised' = Append(Promised, PictureOf(Finished)')
<1>1. isSocketOpened /\ bytesToWrite = 0 /\ pc = "idle"
  BY DEF SystemInv, LinkInv, LostInv, BufferInv, BufferHoldsCurrent, translateToOutput,
         TypeOK, NetworkTypeOK
<1>2. /\ pc' = "load" /\ index' = 1 /\ sequence' = leds
      /\ UNCHANGED <<numberOfRows, numberOfColumns, bytesToWrite, writeBuffer, toOutput>>
      /\ UNCHANGED <<rowLength, columnLength, outputGrid>>
  BY <1>1 DEF translateToOutput, Goto, size, buffer, network, OutputUnchanged, outputVars, gridVars
<1>3. numberOfRows = rowLength /\ numberOfColumns = columnLength
  BY <1>1 DEF SizeInv, ToldInv, OrderInv
<1>4. leds \in Seq(Leds)
  BY ServerAssumption, SeqDef DEF Requests
<1>5. DOMAIN leds = 1..Len(leds) /\ Len(leds) \in Nat /\ \A k \in DOMAIN leds : leds[k] \in Leds
  BY <1>4, LenProperties, ElementOfSeq
<1>6. LedsLeft = {} /\ LedsLeft' = DOMAIN leds /\ ~Translating /\ Translating'
  BY <1>1, <1>2, <1>5 DEF LedsLeft, Translating
<1>7. Arrived' = Arrived /\ Written' = Written /\ Finished = Written
  BY <1>2, <1>6, FinishedIsWritten, CommandsStay DEF Arrived, Written
<1>8. ASSUME NEW p \in Positions
      PROVE  Finished'[p[1] * columnLength + p[2]]
               = LET touching == {k \in DOMAIN leds : Display!Touches(leds[k], p)}
                 IN  IF touching = {} THEN PictureOf(Finished)[p]
                     ELSE leds[Display!Max(touching)].colour
  <2> DEFINE i == p[1] * columnLength + p[2]
             touching == {k \in DOMAIN leds : Display!Touches(leds[k], p)}
  <2>1. i \in Indices
    BY IndexOfPosition DEF TypeOK
  <2>2. Reaching(i)' = {k \in DOMAIN leds : Reaches(leds[k], i)}
    <3>1. \A led : Reaches(led, i)' <=> Reaches(led, i)
      BY <1>2 DEF Reaches, WholeGrid, InGrid
    <3>2. QED
      BY <1>2, <1>6, <3>1 DEF Reaching
  <2>3. Reaching(i)' = touching
    BY <1>3, <1>5, <2>2, ReachesWhatItTouches DEF TypeOK
  <2>4. PictureOf(Finished)[p] = Written[i]
    BY <1>7 DEF PictureOf
  <2>5. Finished'[i] = IF Reaching(i)' = {} THEN Written'[i] ELSE sequence'[Max(Reaching(i)')].colour
    BY <1>2, <2>1, GridStays DEF Finished
  <2>6. Display!Max(touching) = Max(touching)
    BY DEF Display!Max, Max
  <2> HIDE DEF i, touching
  <2>7. QED
    BY <1>2, <1>7, <2>3, <2>4, <2>5, <2>6 DEF i, touching
<1>9. PictureOf(Finished)' = Display!Painted(PictureOf(Finished), leds)
  <2>1. PictureOf(Finished)' = [p \in Positions |-> Finished'[p[1] * columnLength + p[2]]]
    BY <1>2, GridStays DEF PictureOf
  <2>2. Display!Positions = Positions
    BY DEF Display!Positions, Positions
  <2>3. QED
    BY <1>8, <2>1, <2>2 DEF Display!Painted
<1>10. Promised' = Append(Promised, PictureOf(Finished)')
  <2> DEFINE P == Printed(Carried, outputGrid)
             picture == PictureOf(Finished)'
             S == {PictureOf(outputGrid), picture}
  <2>1. /\ ~Buffered /\ ~Buffered' /\ (Carried' <=> Carried)
    BY <1>1, <1>2 DEF Buffered, Carried
  <2>2. P \in Seq(S) /\ picture \in S
    BY PrintedType
  <2>3. /\ Printed(Buffered, Arrived) = <<>> /\ Printed(Buffered, Arrived)' = <<>>
        /\ Printed(Translating, Finished) = <<>>
    BY <1>6, <2>1, PrintedCases, NextSlots
  <2>4. Printed(Translating, Finished)' = <<picture>>
    BY <1>6, NextSlots
  <2>5. Printed(Carried, outputGrid)' = P
    BY <1>2, <2>1, PrintedCases, NextSlots, PicturesStay
  <2> HIDE DEF P, picture, S
  <2>6. P \o <<>> = P /\ Append(P, picture) = P \o <<picture>>
    BY <2>2, ConcatEmptySeq, AppendIsConcat
  <2>7. QED
    BY <2>3, <2>4, <2>5, <2>6, PromisedSlots DEF P, picture
<1>11. QED
  BY <1>9, <1>10

-----------------------------------------------------------------------------
(* The steps of the display *)

\* What the display shows of the commands under way, when the output is connected.
LEMMA MappedStays ==
    ASSUME UNCHANGED <<up, session, rowLength, columnLength, shown>>,
           session = "open" => Finished' = Finished /\ Promised' = Promised
    PROVE  UNCHANGED Display!vars
<1>1. /\ PictureOf(shown)' = PictureOf(shown) /\ PictureOf(Dark)' = PictureOf(Dark)
      /\ session = "open" => PictureOf(Finished)' = PictureOf(Finished)
  BY PicturesStay, GridStays
<1>2. QED
  BY <1>1 DEF Display!vars, Linked

\* A dark grid is a blank picture, also that of an output that has just been started.
LEMMA DarkIsBlank ==
    ASSUME NumbersSurvive
    PROVE  /\ OutputTypeOK => PictureOf(Dark) = Display!Blank
           /\ OutputTypeOK' => PictureOf(Dark)' = Display!Blank'
<1>1. ASSUME NEW rows, NEW columns, <<rows, columns>> \in Sizes \cup {<<0, 0>>},
             NEW p \in (0..(rows - 1)) \X (0..(columns - 1))
      PROVE  p[1] * columns + p[2] \in 0..(LedCount(rows, columns) - 1)
  BY <1>1, SizeFacts, PositionInside
<1>2. ASSUME OutputTypeOK PROVE PictureOf(Dark) = Display!Blank
  BY <1>1, <1>2 DEF OutputTypeOK, PictureOf, Positions, Dark, Indices, numberOfLeds,
                    Display!Blank, Display!Positions
<1>3. ASSUME OutputTypeOK' PROVE PictureOf(Dark)' = Display!Blank'
  BY <1>1, <1>3 DEF OutputTypeOK, PictureOf, Positions, Dark, Indices, numberOfLeds,
                    Display!Blank, Display!Positions
<1>4. QED
  BY <1>2, <1>3

\* What the display shows while no controller is connected.
LEMMA MappedUnlinked ==
    /\ session # "open" =>
          /\ Linked = FALSE
          /\ (IF Linked THEN PictureOf(Finished) ELSE PictureOf(Dark)) = PictureOf(Dark)
          /\ (IF Linked THEN Promised ELSE <<>>) = <<>>
    /\ session' # "open" =>
          /\ Linked' = FALSE
          /\ (IF Linked THEN PictureOf(Finished) ELSE PictureOf(Dark))' = PictureOf(Dark)'
          /\ (IF Linked THEN Promised ELSE <<>>)' = <<>>
BY DEF Linked

\* The output accepts the connection: nothing is painted yet, and nothing promised.
LEMMA ConnectStep ==
    ASSUME NumbersSurvive, TypeOK, TypeOK', SystemInv, PeerInv, OnSyn, ControllerUnchanged
    PROVE  Display!Connect
<1>1. /\ up /\ link = "syn" /\ toOutput # <<>> /\ toOutput' = Tail(toOutput)
      /\ session' = "open" /\ UNCHANGED <<up, rowLength, columnLength, outputGrid, shown>>
      /\ UNCHANGED <<pc, bytesToWrite, writeBuffer>>
  BY DEF OnSyn, Arrives, ControllerUnchanged, gridVars, serverVars, buffer
<1>2. /\ session = "none" /\ pc = "connect" /\ outputGrid = Dark /\ toOutput' = <<>>
      /\ bytesToWrite > 0 => writeBuffer.name = "SIZE"
  <2>1. toOutput \in Seq(Segment) /\ Len(toOutput) <= 1
    BY DEF TypeOK, NetworkTypeOK, SystemInv, ChannelInv, OneCommandUnderWay
  <2>2. toOutput' = <<>>
    BY <1>1, <2>1, ShortChannel
  <2>3. QED
    BY <1>1, <2>2 DEF PeerInv
<1>3. Arrived' = Dark /\ Written' = Dark
  <2>1. Arrived' = Dark
    BY <1>1, <1>2, CommandsStay
  <2>2. CASE bytesToWrite = 0
    BY <1>1, <2>1, <2>2, CommandsStay
  <2>3. CASE bytesToWrite > 0
    <3>1. writeBuffer'.name = "SIZE"
      BY <1>1, <1>2, <2>3
    <3>2. Written' = Dark
      BY <1>1, <2>1, <2>3, <3>1, CommandsStay DEF Obey
    <3>3. QED
      BY <2>1, <3>2
  <2>4. QED
    BY <2>2, <2>3 DEF TypeOK, ServerTypeOK
<1>4. LedsLeft' = {} /\ ~Translating' /\ ~Carried' /\ ~Buffered'
  BY <1>1, <1>2 DEF LedsLeft, Translating, Carried, Buffered
<1>5. Finished' = Dark
  <2>1. Finished' = [i \in Indices |-> Written'[i]]
    BY <1>1, <1>4, GridStays DEF Finished, Reaching
  <2>2. QED
    BY <1>3, <2>1 DEF Dark
<1>6. Promised' = <<>>
  <2>1. /\ Printed(Carried, outputGrid)' = <<>> /\ Printed(Buffered, Arrived)' = <<>>
        /\ Printed(Translating, Finished)' = <<>>
    BY <1>4, NextSlots
  <2>2. (<<>> \o <<>>) \o <<>> = <<>>
    BY EmptySeq, ConcatEmptySeq
  <2>3. QED
    BY <2>1, <2>2, PromisedSlots
<1>7. Linked' /\ ~Linked /\ Linked' = TRUE
  BY <1>1, <1>2 DEF Linked
<1>8. PictureOf(shown)' = PictureOf(shown) /\ PictureOf(Finished)' = PictureOf(Dark)
  BY <1>1, <1>5, PicturesStay
<1>9. QED
  BY <1>1, <1>6, <1>7, <1>8, Zenon DEF Display!Connect

\* The controller leaves when it has nothing to show any more.
LEMMA DisconnectStep ==
    ASSUME NumbersSurvive, TypeOK, SystemInv, PeerInv, OnPeerClose, ControllerUnchanged
    PROVE  Display!Disconnect
<1>1. /\ toOutput # <<>> /\ Head(toOutput).name = "fin"
      /\ session = "open" /\ session' = "closed"
      /\ UNCHANGED <<up, rowLength, columnLength, shown>>
  BY DEF OnPeerClose, Arrives, outputVars, gridVars
<1>2. pc = "close" /\ bytesToWrite = 0
  <2>1. toOutput \in Seq(Segment) /\ Len(toOutput) <= 1
    BY DEF TypeOK, NetworkTypeOK, SystemInv, ChannelInv, OneCommandUnderWay
  <2>2. ~HasData
    BY <1>1, <2>1, ShortChannel DEF CommandNames
  <2>3. link = "fin"
    BY <1>1, <2>2 DEF PeerInv, SystemInv, ChannelInv
  <2>4. pc = "close"
    BY <1>1, <2>3 DEF PeerInv, SystemInv, LinkInv
  <2>5. QED
    BY <2>4 DEF SystemInv, BufferInv, BufferHoldsCurrent
<1>3. ~Carried /\ ~Buffered /\ ~Translating
  BY <1>1, <1>2 DEF Carried, Buffered, Translating
<1>4. Promised = <<>>
  <2>1. /\ Printed(Carried, outputGrid) = <<>> /\ Printed(Buffered, Arrived) = <<>>
        /\ Printed(Translating, Finished) = <<>>
    BY <1>3, PrintedCases
  <2>2. (<<>> \o <<>>) \o <<>> = <<>>
    BY EmptySeq, ConcatEmptySeq
  <2>3. QED
    BY <2>1, <2>2, PromisedSlots
<1>5. Linked /\ PictureOf(shown)' = PictureOf(shown)
  BY <1>1, PicturesStay DEF Linked
<1>6. /\ Linked' = FALSE
      /\ (IF Linked THEN PictureOf(Finished) ELSE PictureOf(Dark))' = Display!Blank
      /\ (IF Linked THEN Promised ELSE <<>>)' = <<>>
  <2>1. PictureOf(Dark)' = PictureOf(Dark) /\ PictureOf(Dark) = Display!Blank
    BY <1>1, PicturesStay, GridStays, DarkIsBlank DEF TypeOK
  <2>2. QED
    BY <1>1, <2>1, MappedUnlinked
<1>7. (IF Linked THEN Promised ELSE <<>>) = <<>>
  BY <1>4
<1>8. QED
  BY <1>1, <1>5, <1>6, <1>7 DEF Display!Disconnect

\* The output starts, or dies.
LEMMA OperatorSteps ==
    ASSUME NumbersSurvive, TypeOK, TypeOK', SessionNeedsOutput
    PROVE  /\ StartOutput => Display!SwitchOn
           /\ KillOutput => Display!Die
<1>1. ASSUME StartOutput PROVE Display!SwitchOn
  <2>1. /\ ~up /\ up' = TRUE /\ session # "open" /\ session' # "open" /\ shown' = Dark'
        /\ <<rowLength', columnLength'>> \in Sizes
    BY <1>1, ConstantFacts DEF StartOutput, initLedGrid, SessionNeedsOutput
  <2>2. PictureOf(Dark)' = Display!Blank'
    BY DarkIsBlank DEF TypeOK
  <2>3. PictureOf(shown)' = PictureOf(Dark)'
    BY <2>1 DEF PictureOf
  <2>4. /\ UNCHANGED <<Linked, IF Linked THEN Promised ELSE <<>>>>
        /\ (IF Linked THEN PictureOf(Finished) ELSE PictureOf(Dark))' = Display!Blank'
    BY <2>1, <2>2, MappedUnlinked
  <2>5. QED
    BY <2>1, <2>2, <2>3, <2>4 DEF Display!SwitchOn
<1>2. ASSUME KillOutput PROVE Display!Die
  <2>1. /\ up /\ up' = FALSE /\ session' # "open"
        /\ UNCHANGED <<rowLength, columnLength, shown>>
    BY <1>2 DEF KillOutput, gridVars
  <2>2. PictureOf(shown)' = PictureOf(shown) /\ PictureOf(Dark)' = Display!Blank
    BY <2>1, PicturesStay, GridStays, DarkIsBlank DEF TypeOK
  <2>3. /\ Linked' = FALSE
        /\ (IF Linked THEN PictureOf(Finished) ELSE PictureOf(Dark))' = Display!Blank
        /\ (IF Linked THEN Promised ELSE <<>>)' = <<>>
    BY <2>1, <2>2, MappedUnlinked
  <2>4. QED
    BY <2>1, <2>2, <2>3 DEF Display!Die
<1>3. QED
  BY <1>1, <1>2

-----------------------------------------------------------------------------
(* Every step of the system is a step of the display, or none *)

\* A callback that may write, on an open connection.
LEMMA WritableStep ==
    ASSUME SocketWorks, TypeOK, SystemInv, OnSynAck \/ OnAck \/ OnTimer, UNCHANGED outputVars
    PROVE  Finished' = Finished /\ Promised' = Promised
<1>1. \E events \in {{"WR"}, {"CONN", "WR"}} : outputCommunication(events, NoMessage)
  BY DEF OnSynAck, OnAck, OnTimer
<1>2. PICK events \in {{"WR"}, {"CONN", "WR"}} : outputCommunication(events, NoMessage)
  BY <1>1
<1>3. /\ UNCHANGED <<size, translation, resume>> /\ pc' = pc
      /\ NothingWritten \/ (WriteBuffer /\ bytesToWrite > 0)
  BY <1>2 DEF SocketWorks, outputCommunication, ReadFails, ReadBranch, OpenedBranches, WriteBranch
<1>4. /\ UNCHANGED <<pc, sequence, index, numberOfRows, numberOfColumns>>
      /\ UNCHANGED <<rowLength, columnLength, outputGrid>>
      /\ LedsLeft' = LedsLeft /\ Translating' = Translating
  <2>1. UNCHANGED <<pc, sequence, index, numberOfRows, numberOfColumns, rowLength, columnLength,
                    outputGrid>>
    BY <1>3 DEF translation, size, outputVars, gridVars
  <2>2. QED
    BY <2>1 DEF LedsLeft, Translating
<1>5. CASE NothingWritten
  BY <1>4, <1>5, QuietStep DEF NothingWritten
<1>6. CASE WriteBuffer /\ bytesToWrite > 0
  <2>1. CASE toOutput = <<>>
    BY <1>3, <1>4, <1>6, <2>1, WriteStep
  <2>2. CASE toOutput # <<>>
    <3>1. OnAck /\ link = "closing"
      BY <2>2 DEF OnSynAck, OnAck, OnTimer, Receive, QueueEmpty, SystemInv, ChannelInv,
                  OneCommandUnderWay
    <3>2. pc = "close" /\ bytesToWrite = 0
      BY <3>1 DEF OnAck, Receive, InLoop, SystemInv, LinkInv, BufferInv, BufferHoldsCurrent
    <3>3. QED
      BY <1>6, <3>2
  <2>3. QED
    BY <2>1, <2>2
<1>7. QED
  BY <1>3, <1>5, <1>6

\* The FIN follows all that there was to show.
LEMMA FinStep ==
    ASSUME SystemInv, SendFin, UNCHANGED outputVars
    PROVE  Finished' = Finished /\ Promised' = Promised
<1>1. toOutput = <<>>
  BY DEF SendFin, QueueEmpty, SystemInv, ChannelInv
<1>2. /\ toOutput' = <<Plain("fin")>> /\ toOutput' # <<>>
      /\ Head(toOutput') = Plain("fin") /\ Head(toOutput').name = "fin"
  <2>1. toOutput' = <<Plain("fin")>>
    BY <1>1, AppendToEmpty DEF SendFin
  <2>2. Head(<<Plain("fin")>>) = Plain("fin") /\ Plain("fin").name = "fin"
    BY DEF Plain
  <2>3. QED
    BY <2>1, <2>2
<1>3. UNCHANGED <<rowLength, columnLength, outputGrid, pc, bytesToWrite, writeBuffer, sequence,
                  index, numberOfRows, numberOfColumns>>
  BY DEF SendFin, serverVars, translation, size, buffer, outputVars, gridVars
<1>4. Arrived' = Arrived /\ Written' = Written
  <2>1. Arrived = outputGrid /\ Arrived' = outputGrid
    <3>1. Obey(outputGrid, Plain("fin")) = outputGrid
      BY <1>2 DEF Obey, Plain
    <3>2. QED
      BY <1>1, <1>2, <1>3, <3>1, CommandsStay DEF Arrived
  <2>2. QED
    BY <1>3, <2>1, CommandsStay DEF Written
<1>5. LedsLeft' = LedsLeft /\ Translating' = Translating
  BY <1>3 DEF LedsLeft, Translating
<1>6. Finished' = Finished
  BY <1>3, <1>4, <1>5, FinishedStays
<1>7. ~Carried /\ ~Carried' /\ Buffered' = Buffered
  BY <1>1, <1>2, <1>3 DEF Carried, Buffered
<1>8. Promised' = Promised
  BY <1>3, <1>4, <1>5, <1>6, <1>7, PromisedStays
<1>9. QED
  BY <1>6, <1>8

\* The thread, while the output is connected.
LEMMA ThreadStep ==
    ASSUME NumbersSurvive, TypeOK, TypeOK', SystemInv, PeerInv, ConnectsOnce, session = "open",
           Thread
    PROVE  Finished' = Finished /\ Promised' = Promised
<1>1. UNCHANGED outputVars /\ UNCHANGED <<rowLength, columnLength, outputGrid>>
  BY DEF Thread, OutputUnchanged, outputVars, gridVars
<1>2. ~getOutputInformations
  BY DEF getOutputInformations, SystemInv, LinkInv, SessionInv
<1>3. CASE Connected \/ SizeFetched \/ Flushed \/ Closed
  <2>1. /\ pc \in {"connect", "await", "flush", "close"} /\ pc' \in {"await", "idle", "done"}
        /\ UNCHANGED <<toOutput, bytesToWrite, writeBuffer>>
    BY <1>3 DEF Connected, SizeFetched, Flushed, Closed, Goto, network, buffer, ConnectsOnce
  <2>2. LedsLeft = {} /\ LedsLeft' = {} /\ Translating' = Translating
    BY <2>1 DEF LedsLeft, Translating
  <2>3. QED
    BY <1>1, <2>1, <2>2, QuietStep
<1>4. CASE LoadReset \/ LoadSet
  <2>1. bytesToWrite = 0
    BY <1>4 DEF LoadReset, LoadSet, MoreLeds, SystemInv, BufferInv, BufferHoldsCurrent
  <2>2. QED
    BY <1>1, <1>4, <2>1, PaintStep
<1>5. CASE SkipLed
  BY <1>1, <1>5, SkipStep
<1>6. CASE Sent
  <2>1. /\ pc = "send" /\ pc' = "load" /\ index' = index + 1
        /\ UNCHANGED <<sequence, numberOfRows, numberOfColumns, toOutput, bytesToWrite, writeBuffer>>
    BY <1>6 DEF Sent, Goto, network, size, buffer
  <2>2. LedsLeft' = LedsLeft /\ Translating' = Translating
    BY <2>1 DEF LedsLeft, Translating
  <2>3. QED
    BY <1>1, <2>1, <2>2, QuietStep
<1>7. CASE LoadUpdate
  <2>1. bytesToWrite = 0
    BY <1>7 DEF LoadUpdate, SystemInv, BufferInv, BufferHoldsCurrent
  <2>2. QED
    BY <1>1, <1>7, <2>1, UpdateStep
<1>8. QED
  BY <1>2, <1>3, <1>4, <1>5, <1>6, <1>7 DEF Thread

\* The library, while the output is connected.
LEMMA LibraryStep ==
    ASSUME SocketWorks, NumbersSurvive, TypeOK, SystemInv, SizeInv, SessionNeedsOutput, PeerInv,
           session = "open", Library
    PROVE  Finished' = Finished /\ Promised' = Promised
<1>1. UNCHANGED outputVars /\ UNCHANGED <<rowLength, columnLength, outputGrid>>
  BY DEF Library, OutputUnchanged, outputVars, gridVars
<1>2. ~OnFin /\ ~OnReset /\ up
  BY DEF OnFin, OnReset, Receive, PeerInv, SessionNeedsOutput
<1>3. CASE OnAnswer(answer)
  <2>1. /\ UNCHANGED <<translation, toOutput, bytesToWrite, writeBuffer, pc>>
        /\ numberOfRows' = rowLength /\ numberOfColumns' = columnLength
    <3>1. answer = SizeMessage
      BY <1>3 DEF OnAnswer, Receive, SizeInv, ToldInv
    <3>2. pc' = pc /\ ReadBranch({"RD"}, answer) /\ UNCHANGED translation /\ NothingWritten
      BY <1>3 DEF SocketWorks, OnAnswer, outputCommunication, ReadFails, WriteBranch
    <3>3. /\ DecodeUShort(CharMax, answer.rows[1], answer.rows[2]) = rowLength
          /\ DecodeUShort(CharMax, answer.columns[1], answer.columns[2]) = columnLength
      BY <1>2, <3>1, SizeUnderstood DEF NumbersSurvive, SizesSurvive, TypeOK
    <3>4. QED
      BY <3>2, <3>3 DEF ReadBranch, NothingWritten
  <2>2. LedsLeft' = LedsLeft /\ Translating' = Translating /\ UNCHANGED sequence
    BY <2>1 DEF LedsLeft, Translating, translation
  <2>3. LedsLeft # {} => numberOfRows = rowLength /\ numberOfColumns = columnLength
    BY DEF LedsLeft, SizeInv, ToldInv, OrderInv
  <2>4. QED
    BY <1>1, <2>1, <2>2, <2>3, QuietStep
<1>4. CASE OnSynAck \/ OnAck \/ OnTimer
  BY <1>1, <1>4, WritableStep
<1>5. CASE SendFin
  BY <1>1, <1>5, FinStep
<1>6. QED
  BY <1>2, <1>3, <1>4, <1>5 DEF Library

\* The invariant under which the steps are matched.
RefinementInv == SystemInv /\ SizeInv /\ SessionNeedsOutput /\ PeerInv /\ ConnectsOnce

\* Each step is one of the display's, or leaves the display as it is.
LEMMA StepSimulates ==
    ASSUME NumbersSurvive, SocketWorks, TypeOK, TypeOK', RefinementInv, Next
    PROVE  [Display!Next]_(Display!vars)
<1> USE DEF RefinementInv
<1>1. CASE Thread \/ Library \/ (serverClose /\ OutputUnchanged) \/ Ended
  <2>1. UNCHANGED <<up, session, rowLength, columnLength, shown>>
    BY <1>1 DEF Thread, Library, Ended, OutputUnchanged, outputVars, gridVars, vars
  <2>2. ASSUME session = "open" PROVE Finished' = Finished /\ Promised' = Promised
    <3>1. CASE Thread \/ Library
      BY <2>2, <3>1, ThreadStep, LibraryStep
    <3>2. CASE serverClose /\ OutputUnchanged
      <4>1. /\ pc = "idle" /\ pc' = "close"
            /\ UNCHANGED <<rowLength, columnLength, outputGrid, toOutput, bytesToWrite, writeBuffer>>
        BY <3>2 DEF serverClose, Goto, buffer, OutputUnchanged, outputVars, gridVars
      <4>2. LedsLeft = {} /\ LedsLeft' = {} /\ Translating' = Translating
        BY <4>1 DEF LedsLeft, Translating
      <4>3. QED
        BY <4>1, <4>2, QuietStep
    <3>3. CASE Ended
      <4>1. UNCHANGED <<pc, sequence, index, numberOfRows, numberOfColumns, rowLength, columnLength,
                        outputGrid, toOutput, bytesToWrite, writeBuffer>>
        BY <3>3 DEF Ended, vars, network, serverVars, translation, size, buffer, outputVars,
                    gridVars
      <4>2. LedsLeft' = LedsLeft /\ Translating' = Translating
        BY <4>1 DEF LedsLeft, Translating
      <4>3. QED
        BY <4>1, <4>2, QuietStep
    <3>4. QED
      BY <1>1, <3>1, <3>2, <3>3
  <2>3. QED
    BY <2>1, <2>2, MappedStays
<1>2. ASSUME NEW leds \in Requests, translateToOutput(leds), OutputUnchanged
      PROVE  [Display!Next]_(Display!vars)
  <2>1. UNCHANGED <<up, session, rowLength, columnLength, shown>>
    BY <1>2 DEF OutputUnchanged, outputVars, gridVars
  <2>2. CASE session # "open"
    BY <2>1, <2>2, MappedStays
  <2>3. CASE session = "open"
    <3>1. /\ PictureOf(Finished)' = Display!Painted(PictureOf(Finished), leds)
          /\ Promised' = Append(Promised, PictureOf(Finished)')
      BY <1>2, <2>3, RequestStep
    <3>2. Linked /\ Linked' /\ Linked' = Linked /\ PictureOf(shown)' = PictureOf(shown)
      BY <2>1, <2>3, PicturesStay DEF Linked
    <3>3. Display!Request(leds)
      BY <2>1, <3>1, <3>2 DEF Display!Request
    <3>4. QED
      BY <3>3 DEF Display!Next
  <2>4. QED
    BY <2>2, <2>3
<1>3. CASE Output
  <2>1. CASE OnSyn /\ ControllerUnchanged
    BY <2>1, ConnectStep DEF Display!Next
  <2>2. CASE OnCommand /\ ControllerUnchanged
    <3>1. /\ session = "open" /\ UNCHANGED <<up, session, rowLength, columnLength>>
          /\ Len(toOutput) <= 1
      BY <2>2 DEF OnCommand, processSocketReading, SystemInv, ChannelInv, OneCommandUnderWay
    <3>2. /\ Finished' = Finished
          /\ \/ Promised' = Promised /\ shown' = shown
             \/ /\ Promised # <<>>
                /\ PictureOf(shown)' = Head(Promised) /\ Promised' = Tail(Promised)
      BY <2>2, <3>1, ObeyStep
    <3>3. CASE Promised' = Promised /\ shown' = shown
      BY <3>1, <3>2, <3>3, MappedStays
    <3>4. CASE /\ Promised # <<>>
               /\ PictureOf(shown)' = Head(Promised) /\ Promised' = Tail(Promised)
      <4>1. Linked /\ Linked' /\ Linked' = Linked /\ PictureOf(Finished)' = PictureOf(Finished)
        BY <3>1, <3>2, PicturesStay DEF Linked
      <4>2. Display!Show
        BY <3>1, <3>4, <4>1 DEF Display!Show
      <4>3. QED
        BY <4>2 DEF Display!Next
    <3>5. QED
      BY <3>2, <3>3, <3>4
  <2>3. CASE OnOutputTimer /\ ControllerUnchanged
    <3>1. UNCHANGED <<up, session, rowLength, columnLength, shown, outputGrid, toOutput, pc, sequence,
                      index, numberOfRows, numberOfColumns, bytesToWrite, writeBuffer>>
      BY <2>3 DEF OnOutputTimer, ControllerUnchanged, gridVars, serverVars, translation, size,
                  buffer
    <3>2. LedsLeft' = LedsLeft /\ Translating' = Translating
      BY <3>1 DEF LedsLeft, Translating
    <3>3. QED
      BY <3>1, <3>2, QuietStep, MappedStays
  <2>4. CASE OnPeerClose /\ ControllerUnchanged
    BY <2>4, DisconnectStep DEF Display!Next
  <2>5. CASE RefuseSegment /\ ControllerUnchanged
    BY <2>5, MappedStays DEF RefuseSegment, outputVars, gridVars
  <2>6. QED
    BY <1>3, <2>1, <2>2, <2>3, <2>4, <2>5 DEF Output
<1>4. CASE Operator
  BY <1>4, OperatorSteps DEF Operator, Display!Next
<1>5. QED
  BY <1>1, <1>2, <1>3, <1>4 DEF Next, User

\* The first state is the display's.
LEMMA StartSimulates ==
    ASSUME NumbersSurvive, Init
    PROVE  Display!Init
<1>1. up = FALSE /\ session = "none" /\ shown = Dark /\ rowLength = 0 /\ columnLength = 0
  BY Zenon DEF Init, OutputInit
<1>2. Linked = FALSE
  BY <1>1, MappedUnlinked
<1>3. PictureOf(Dark) = Display!Blank
  BY InitialTypes, DarkIsBlank DEF TypeOK
<1>4. /\ (IF Linked THEN PictureOf(Finished) ELSE PictureOf(Dark)) = Display!Blank
      /\ (IF Linked THEN Promised ELSE <<>>) = <<>>
  BY <1>1, <1>3, MappedUnlinked
<1>5. PictureOf(shown) = Display!Blank
  BY <1>1, <1>3
<1>6. QED
  BY <1>1, <1>2, <1>3, <1>4, <1>5 DEF Display!Init

\* The invariant of the refinement holds.
LEMMA RefinementInduction ==
    ASSUME NumbersSurvive, SocketWorks
    PROVE  Spec => []RefinementInv
<1>1. Init => RefinementInv
  <2>1. SUFFICES ASSUME Init PROVE RefinementInv
    OBVIOUS
  <2>2. session = "none" /\ link = "none" /\ pc = "start" /\ resume = "await"
        /\ outputGrid = Dark
    BY <2>1, Zenon DEF Init, ServerInit, OutputInit
  <2>3. PeerInv /\ ConnectsOnce /\ SessionNeedsOutput
    BY <2>2 DEF PeerInv, ConnectsOnce, SessionNeedsOutput
  <2>4. QED
    BY <2>1, <2>3, InvariantsStart DEF RefinementInv
<1>2. TypeOK /\ RefinementInv /\ [Next]_vars => RefinementInv'
  <2>1. SUFFICES ASSUME TypeOK, RefinementInv, [Next]_vars PROVE RefinementInv'
    OBVIOUS
  <2> USE DEF RefinementInv
  <2>2. CASE Next
    <3>1. SystemInv'
      BY <2>1, <2>2, LinkStep, LostStep, SessionStep, ChannelStep, BufferStep, WakeupStep
         DEF SystemInv
    <3>2. SizeInv'
      BY <2>1, <2>2, SizeStep DEF NumbersSurvive, SizesSurvive
    <3>3. SessionNeedsOutput' /\ PeerInv'
      BY <2>1, <2>2, SessionNeedsOutputStep, PeerStep
    <3>4. ConnectsOnce'
      BY <2>1, <2>2, ResumeStep DEF SystemInv
    <3>5. QED
      BY <3>1, <3>2, <3>3, <3>4
  <2>3. CASE UNCHANGED vars
    <3>1. SystemInv' /\ SizeInv'
      BY <2>1, <2>3, InvariantsStutter
    <3>2. /\ UNCHANGED network /\ UNCHANGED session /\ UNCHANGED outputVars
          /\ UNCHANGED buffer /\ UNCHANGED status /\ UNCHANGED pc
      BY <2>3 DEF vars, serverVars
    <3>3. SessionNeedsOutput' /\ ConnectsOnce' /\ PeerInv'
      BY <2>1, <3>2, GridStays DEF network, outputVars, gridVars, buffer, status,
                                   SessionNeedsOutput, ConnectsOnce, PeerInv
    <3>4. QED
      BY <3>1, <3>3
  <2>4. QED
    BY <2>1, <2>2, <2>3
<1>3. QED
  BY <1>1, <1>2, SystemTypes, PTL DEF Spec

-----------------------------------------------------------------------------
(* Theorems *)

\* The controller and the output, with all their segments, callbacks and waiting loops, are one
\* screen on which every picture that a menu asks for appears whole, once and in the order of the
\* calls of translateToOutput; the controller does not leave before the last one; only the death
\* of the output loses any.
THEOREM SystemShowsPictures ==
    ASSUME NumbersSurvive, SocketWorks
    PROVE  Spec => ShowsThePromisedPictures
<1>1. Init => Display!Init
  BY StartSimulates
<1>2. TypeOK /\ TypeOK' /\ RefinementInv /\ [Next]_vars => [Display!Next]_(Display!vars)
  <2>1. SUFFICES ASSUME TypeOK, TypeOK', RefinementInv, [Next]_vars
                 PROVE  [Display!Next]_(Display!vars)
    OBVIOUS
  <2>2. CASE Next
    BY <2>1, <2>2, StepSimulates
  <2>3. CASE UNCHANGED vars
    <3>1. /\ UNCHANGED network /\ UNCHANGED session /\ UNCHANGED outputVars
          /\ UNCHANGED translation /\ UNCHANGED size /\ UNCHANGED buffer /\ UNCHANGED pc
      BY <2>3 DEF vars, serverVars
    <3>2. UNCHANGED <<up, session, rowLength, columnLength, shown, outputGrid, toOutput, pc, sequence,
                      index, numberOfRows, numberOfColumns, bytesToWrite, writeBuffer>>
      BY <3>1 DEF network, outputVars, gridVars, translation, size, buffer
    <3>3. LedsLeft' = LedsLeft /\ Translating' = Translating
      BY <3>2 DEF LedsLeft, Translating
    <3>4. QED
      BY <3>2, <3>3, QuietStep, MappedStays
  <2>4. QED
    BY <2>1, <2>2, <2>3
<1>3. QED
  BY <1>1, <1>2, SystemTypes, RefinementInduction, PTL DEF Spec, ShowsThePromisedPictures,
     Display!Spec
=============================================================================
