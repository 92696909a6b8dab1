-------------------------- MODULE LedRestartProofs --------------------------
(***************************************************************************)
(* LedRestart: the link keeps its safety however often the controller is   *)
(* killed and started again, wherever that happens, and whatever its dead  *)
(* connections still bring to the output.                                  *)
(***************************************************************************)
EXTENDS LedRestart, LedSystemProofs

\* What dead controllers left in the output.
OldTypeOK ==
    /\ restarts \in Nat
    /\ oldSegments \in Seq(Nat \X Segment)
    /\ oldArmed \subseteq Nat

\* None of them left two segments, for one is all that is ever under way.
OldInOrder ==
    /\ \A i \in DOMAIN oldSegments : oldSegments[i][1] < restarts
    /\ \A i, j \in DOMAIN oldSegments : i < j => oldSegments[i][1] < oldSegments[j][1]

\* The FIN of one of the dead is still to come.
Leaves(sender) == \E i \in DOMAIN oldSegments :
    oldSegments[i][1] = sender /\ oldSegments[i][2].name = "fin"

\* AnswerHasEvent, with a socket that does not close before its event comes.
AnswerInv == session = "open" /\ answerBytes > 0 =>
    outputArmed \/ \E sender \in oldArmed : ~Leaves(sender)

-----------------------------------------------------------------------------
(* Types *)

\* A new controller starts as the first one did.
LEMMA NewControllerStarts ==
    ASSUME NewController
    PROVE  /\ ServerTypeOK' /\ NetworkTypeOK'
           /\ SystemInv' /\ SizeInv'
<1>1. Plain("") \in Command /\ 0 \in UShort
  BY Segments, ConstantFacts
<1>2. /\ link' = "none" /\ session' = "none" /\ toOutput' = <<>> /\ toController' = {}
      /\ armed' = FALSE /\ pc' = "start" /\ exitCode' = 0 /\ resume' = "await"
      /\ sequence' = <<>> /\ index' = 1 /\ calls' = 0 /\ bytesToWrite' = 0
      /\ writeBuffer' = Plain("") /\ isSocketOpened' = FALSE
      /\ isCommunicationInitialized' = FALSE /\ responseFromOutput' = FALSE
      /\ numberOfRows' = 0 /\ numberOfColumns' = 0
  BY DEF NewController
<1>3. ServerTypeOK'
  <2>1. /\ isSocketOpened' \in BOOLEAN /\ isCommunicationInitialized' \in BOOLEAN
        /\ responseFromOutput' \in BOOLEAN
    BY <1>2, Zenon
  <2>2. pc' \in Places /\ resume' \in {"await", "load"} /\ sequence' \in Seq(Leds)
    BY <1>2, EmptySeq DEF Places
  <2>3. /\ exitCode' \in 0..8 /\ index' \in Nat \ {0} /\ calls' \in Nat
        /\ bytesToWrite' \in {0, 4, 7, 9}
    <3>1. exitCode' = 0 /\ index' = 1 /\ calls' = 0 /\ bytesToWrite' = 0
      BY <1>2, Zenon
    <3>2. QED
      BY <3>1
  <2>4. writeBuffer' \in Command /\ numberOfRows' \in UShort /\ numberOfColumns' \in UShort
    BY <1>1, <1>2, Zenon
  <2>5. QED
    BY <2>1, <2>2, <2>3, <2>4 DEF ServerTypeOK
<1>4. NetworkTypeOK'
  <2>1. armed' \in BOOLEAN
    BY <1>2, Zenon
  <2>2. link' = "none" /\ session' = "none" /\ toOutput' = <<>> /\ toController' = {}
    BY <1>2, Zenon
  <2>3. QED
    BY <2>1, <2>2, EmptySeq DEF NetworkTypeOK
<1>5. ~HasData' /\ Len(toOutput') <= 1
  BY <1>2, NextChannel
<1>6. LinkInv' /\ LostInv' /\ SessionInv' /\ WakeupInv' /\ SizeInv'
  BY <1>2 DEF LinkInv, LostInv, SessionInv, WakeupInv, SizeInv, ToldInv, OrderInv
<1>7. ChannelInv'
  BY <1>2, <1>5 DEF ChannelInv, OneCommandUnderWay
<1>8. BufferInv'
  BY <1>2 DEF BufferInv, BufferHoldsCurrent
<1>9. QED
  BY <1>3, <1>4, <1>6, <1>7, <1>8 DEF SystemInv

\* A segment of a dead controller does to the grid what any segment does.
LEMMA OldSegmentTypes ==
    ASSUME TypeOK, OldTypeOK, OldSegment
    PROVE  OutputTypeOK' /\ OldTypeOK'
<1> DEFINE sender == Head(oldSegments)[1]
           segment == Head(oldSegments)[2]
<1>1. Head(oldSegments) \in Nat \X Segment /\ Tail(oldSegments) \in Seq(Nat \X Segment)
  BY HeadTailProperties DEF OldTypeOK, OldSegment
<1>2. OldTypeOK'
  BY <1>1 DEF OldSegment, OldTypeOK
<1>3. outputGrid \in [Indices -> Colours] /\ shown \in [Indices -> Colours]
      /\ answerBytes \in {0, 8} /\ crashes \in Nat /\ up \in BOOLEAN /\ outputArmed \in BOOLEAN
  BY DEF TypeOK, OutputTypeOK
<1>4. Obey(outputGrid, segment) \in [Indices -> Colours]
  BY <1>1, <1>3, ObeyTypes
<1>5. /\ outputGrid' \in [Indices -> Colours] /\ shown' \in [Indices -> Colours]
      /\ answerBytes' \in {0, 8}
  BY <1>3, <1>4 DEF OldSegment, processSocketReading, gridVars
<1>6. UNCHANGED <<up, crashes, outputArmed, answer, rowLength, columnLength>>
  BY DEF OldSegment, processSocketReading, gridVars
<1>7. Indices' = Indices
  BY <1>6 DEF Indices, numberOfLeds
<1>8. QED
  BY <1>2, <1>5, <1>6, <1>7 DEF TypeOK, OutputTypeOK

\* What has gone of the old segments leaves the others in order, and brings no FIN.
LEMMA TailInOrder ==
    ASSUME OldTypeOK, oldSegments # <<>>, oldSegments' = Tail(oldSegments), restarts' = restarts
    PROVE  /\ OldInOrder => OldInOrder'
           /\ \A sender : Leaves(sender)' => Leaves(sender)
           /\ OldInOrder => \A sender : sender = Head(oldSegments)[1] => ~Leaves(sender)'
<1>1. /\ Len(oldSegments) \in Nat /\ Len(oldSegments) > 0
      /\ DOMAIN oldSegments = 1..Len(oldSegments)
      /\ DOMAIN oldSegments' = 1..(Len(oldSegments) - 1)
      /\ \A i \in DOMAIN oldSegments' : oldSegments'[i] = oldSegments[i + 1]
      /\ Head(oldSegments) = oldSegments[1]
  BY HeadTailProperties, LenProperties, EmptySeq DEF OldTypeOK
<1>2. \A i \in DOMAIN oldSegments' : i + 1 \in DOMAIN oldSegments /\ i + 1 > 1
  BY <1>1
<1>3. \A i \in DOMAIN oldSegments : oldSegments[i][1] \in Nat
  BY <1>1, ElementOfSeq DEF OldTypeOK
<1>4. ASSUME OldInOrder PROVE OldInOrder'
  <2>1. \A i, j \in DOMAIN oldSegments' : i < j => i + 1 < j + 1
    BY <1>1
  <2>2. QED
    BY <1>1, <1>2, <1>4, <2>1 DEF OldInOrder
<1>5. \A sender : Leaves(sender)' => Leaves(sender)
  BY <1>1, <1>2 DEF Leaves
<1>6. ASSUME OldInOrder, NEW sender, sender = Head(oldSegments)[1] PROVE ~Leaves(sender)'
  <2>1. 1 \in DOMAIN oldSegments
    BY <1>1
  <2>2. \A i \in DOMAIN oldSegments' : oldSegments[1][1] < oldSegments'[i][1]
    BY <1>1, <1>2, <1>6, <2>1 DEF OldInOrder
  <2>3. \A i \in DOMAIN oldSegments' : oldSegments'[i][1] # oldSegments[1][1]
    BY <1>1, <1>2, <1>3, <2>1, <2>2
  <2>4. ~\E i \in DOMAIN oldSegments' : oldSegments'[i][1] = sender
    BY <1>1, <1>6, <2>3
  <2>5. QED
    BY <2>4 DEF Leaves
<1>7. QED
  BY <1>4, <1>5, <1>6

\* What a controller that dies leaves comes behind all that the others left.
LEMMA SignedInOrder ==
    ASSUME TypeOK, OldTypeOK, OldInOrder, Len(toOutput) <= 1, restarts' = restarts + 1,
           oldSegments' \in {oldSegments, oldSegments \o Signed}
    PROVE  oldSegments' \in Seq(Nat \X Segment) /\ OldInOrder'
<1>1. /\ Len(oldSegments) \in Nat /\ DOMAIN oldSegments = 1..Len(oldSegments)
      /\ \A i \in DOMAIN oldSegments : oldSegments[i][1] \in Nat /\ oldSegments[i][1] < restarts
  BY LenProperties, ElementOfSeq DEF OldTypeOK, OldInOrder
<1>2. CASE oldSegments' = oldSegments
  BY <1>1, <1>2 DEF OldTypeOK, OldInOrder
<1>3. CASE oldSegments' = oldSegments \o Signed
  <2> DEFINE k == Len(oldSegments)
             n == Len(toOutput)
  <2>1. toOutput \in Seq(Segment) /\ n \in Nat /\ DOMAIN toOutput = 1..n
    BY LenProperties DEF TypeOK, NetworkTypeOK
  <2>2. \A i \in 1..n : <<restarts, toOutput[i]>> \in Nat \X Segment
    BY <2>1, ElementOfSeq DEF OldTypeOK
  <2>3. Signed \in Seq(Nat \X Segment) /\ Len(Signed) = n /\ \A i \in 1..n : Signed[i][1] = restarts
    <3>1. Signed = [i \in 1..n |-> <<restarts, toOutput[i]>>]
      BY <2>1 DEF Signed
    <3>2. Signed \in [1..n -> Nat \X Segment]
      BY <2>2, <3>1
    <3>3. QED
      BY <2>1, <3>1, <3>2
  <2>7. k \in Nat /\ n \in Nat /\ n <= 1 /\ restarts \in Nat
    BY <1>1, <2>1 DEF OldTypeOK
  <2>4. /\ oldSegments' \in Seq(Nat \X Segment)
        /\ DOMAIN oldSegments' = 1..(k + n)
        /\ \A i \in 1..(k + n) :
              oldSegments'[i] = IF i <= k THEN oldSegments[i] ELSE Signed[i - k]
    <3>1. oldSegments \in Seq(Nat \X Segment)
      BY DEF OldTypeOK
    <3>2. /\ oldSegments' \in Seq(Nat \X Segment) /\ Len(oldSegments') = k + n
          /\ \A i \in 1..(k + n) :
                oldSegments'[i] = IF i <= k THEN oldSegments[i] ELSE Signed[i - k]
      BY <1>3, <2>3, <3>1, ConcatProperties
    <3>3. QED
      BY <3>2, LenProperties
  <2> HIDE DEF n, k
  <2>5. \A i \in 1..(k + n) : ~(i <= k) => i - k \in 1..n
    BY <2>7
  <2>6. \A i \in 1..(k + n) : oldSegments'[i][1] = IF i <= k THEN oldSegments[i][1] ELSE restarts
    BY <2>3, <2>4, <2>5
  <2>8. \A i \in 1..(k + n) : i <= k => i \in DOMAIN oldSegments
    BY <1>1 DEF k
  <2>9. \A i \in 1..(k + n) : oldSegments'[i][1] < restarts + 1
    BY <1>1, <2>6, <2>7, <2>8
  <2>10. ASSUME NEW i \in 1..(k + n), NEW j \in 1..(k + n), i < j
         PROVE  oldSegments'[i][1] < oldSegments'[j][1]
    <3>1. i <= k
      BY <2>7, <2>10
    <3>2. CASE j <= k
      BY <2>6, <2>8, <2>10, <3>1, <3>2 DEF OldInOrder
    <3>3. CASE ~(j <= k)
      BY <1>1, <2>6, <2>8, <2>10, <3>1, <3>3
    <3>4. QED
      BY <3>2, <3>3
  <2>11. QED
    BY <2>4, <2>9, <2>10 DEF OldInOrder
<1>4. QED
  BY <1>2, <1>3

\* What a step of an old socket leaves alone.
LEMMA OldLeavesNew ==
    ASSUME OldSegment \/ OldSegmentLost \/ OldTimer
    PROVE  UNCHANGED <<network, session, serverVars, up, outputArmed, rowLength, columnLength, answer>>
BY DEF OldSegment, OldSegmentLost, OldTimer, processSocketReading, vars, outputVars, gridVars

\* The invariants of the link speak of these only.
LEMMA LinkInvariantsStay ==
    ASSUME TypeOK, UNCHANGED <<network, session, serverVars>>
    PROVE  /\ SystemInv => SystemInv'
           /\ UNCHANGED <<rowLength, columnLength, answer>> /\ SizeInv => SizeInv'
<1>1. /\ UNCHANGED network /\ UNCHANGED session
      /\ UNCHANGED translation /\ UNCHANGED size /\ UNCHANGED buffer /\ UNCHANGED status
      /\ UNCHANGED pc
  BY DEF serverVars
<1>2. LinkInv => LinkInv'
  BY <1>1 DEF network, status, LinkInv
<1>3. SessionInv => SessionInv'
  BY <1>1 DEF network, SessionInv
<1>4. ChannelInv => ChannelInv'
  BY <1>1, ChannelStays DEF network
<1>5. BufferInv => BufferInv'
  BY <1>1, BufferStays DEF translation, buffer, status
<1>6. WakeupInv => WakeupInv'
  <2>1. /\ UNCHANGED <<pc, isSocketOpened, responseFromOutput, armed, toController, link>>
        /\ HasData' <=> HasData
    BY <1>1, NextChannel DEF network, size, status
  <2>2. QED
    BY <2>1 DEF WakeupInv, QueueEmpty
<1>7. UNCHANGED <<rowLength, columnLength, answer>> /\ SizeInv => SizeInv'
  <2>1. UNCHANGED <<rowLength, columnLength, answer>> /\ ToldInv => ToldInv'
    BY <1>1, ToldStays DEF network
  <2>2. OrderInv => OrderInv'
    BY <1>1 DEF size, status, OrderInv
  <2>3. QED
    BY <2>1, <2>2 DEF SizeInv
<1>8. LostInv => LostInv'
  BY <1>1 DEF network, size, buffer, LostInv
<1>9. QED
  BY <1>2, <1>3, <1>4, <1>5, <1>6, <1>7, <1>8 DEF SystemInv

-----------------------------------------------------------------------------
(* The inductive invariant *)

RestartInv == TypeOK /\ OldTypeOK /\ OldInOrder /\ SessionNeedsOutput /\ SystemInv

\* It holds at the start.
LEMMA RestartStarts == RestartInit => RestartInv /\ SizeInv /\ AnswerInv
<1>1. SUFFICES ASSUME RestartInit PROVE RestartInv /\ SizeInv /\ AnswerInv
  OBVIOUS
<1>2. TypeOK /\ SystemInv /\ SizeInv
  BY <1>1, InitialTypes, InvariantsStart DEF RestartInit
<1>3. OldTypeOK /\ OldInOrder
  BY <1>1, EmptySeq DEF RestartInit, OldTypeOK, OldInOrder
<1>4. session # "open"
  BY <1>1, Zenon DEF RestartInit, Init
<1>5. QED
  BY <1>2, <1>3, <1>4 DEF RestartInv, SessionNeedsOutput, AnswerInv

\* A step of the connection that is there.
LEMMA CurrentStep ==
    ASSUME RestartInv, Next, OldForgotten
    PROVE  RestartInv'
<1>1. TypeOK' /\ SessionNeedsOutput'
  BY SystemTypesStep, SessionNeedsOutputStep DEF RestartInv
<1>2. SystemInv'
  BY LinkStep, LostStep, SessionStep, ChannelStep, BufferStep, WakeupStep
     DEF RestartInv, SystemInv
<1>3. OldTypeOK' /\ OldInOrder'
  <2>1. /\ oldSegments' = oldSegments \/ oldSegments' = <<>>
        /\ oldArmed' = oldArmed \/ oldArmed' = {}
        /\ restarts' = restarts
    BY Zenon DEF OldForgotten
  <2>2. oldSegments' \in Seq(Nat \X Segment) /\ oldArmed' \subseteq Nat /\ restarts' \in Nat
    BY <2>1, EmptySeq DEF RestartInv, OldTypeOK
  <2>3. OldInOrder'
    BY <2>1 DEF RestartInv, OldInOrder
  <2>4. QED
    BY <2>2, <2>3 DEF OldTypeOK
<1>4. QED
  BY <1>1, <1>2, <1>3 DEF RestartInv

\* A new controller.
LEMMA StartAgainStep ==
    ASSUME RestartInv, StartAgain
    PROVE  RestartInv' /\ SizeInv' /\ AnswerInv'
<1>1. ServerTypeOK' /\ NetworkTypeOK' /\ SystemInv' /\ SizeInv'
  BY NewControllerStarts DEF StartAgain
<1>2. OutputTypeOK'
  <2>1. UNCHANGED <<up, crashes, rowLength, columnLength, outputGrid, shown, answerBytes, answer>>
        /\ outputArmed' = FALSE
    BY DEF StartAgain, gridVars
  <2>2. Indices' = Indices
    BY <2>1 DEF Indices, numberOfLeds
  <2>3. QED
    BY <2>1, <2>2 DEF RestartInv, TypeOK, OutputTypeOK
<1>3. session' # "open"
  BY DEF StartAgain, NewController
<1>4. OldTypeOK' /\ OldInOrder'
  <2>1. restarts' = restarts + 1 /\ oldSegments' \in {oldSegments, oldSegments \o Signed}
    BY DEF StartAgain
  <2>2. Len(toOutput) <= 1
    BY DEF RestartInv, SystemInv, ChannelInv, OneCommandUnderWay
  <2>3. oldSegments' \in Seq(Nat \X Segment) /\ OldInOrder'
    BY <2>1, <2>2, SignedInOrder DEF RestartInv
  <2>4. oldArmed' \subseteq Nat /\ restarts' \in Nat
    BY <2>1 DEF StartAgain, RestartInv, OldTypeOK
  <2>5. QED
    BY <2>3, <2>4 DEF OldTypeOK
<1>5. QED
  BY <1>1, <1>2, <1>3, <1>4 DEF RestartInv, TypeOK, SessionNeedsOutput, AnswerInv

\* What a dead controller left does to the output alone.
LEMMA OldStep ==
    ASSUME RestartInv, OldSegment \/ OldSegmentLost \/ OldTimer
    PROVE  RestartInv'
<1>1. UNCHANGED <<network, session, serverVars, up, outputArmed>>
  BY OldLeavesNew
<1>2. SystemInv' /\ SessionNeedsOutput'
  BY <1>1, LinkInvariantsStay DEF RestartInv, SessionNeedsOutput
<1>3. ServerTypeOK' /\ NetworkTypeOK'
  <2>1. ServerTypeOK'
    BY <1>1, TypesStay DEF RestartInv, TypeOK
  <2>2. NetworkTypeOK'
    BY <1>1 DEF RestartInv, TypeOK, NetworkTypeOK, network
  <2>3. QED
    BY <2>1, <2>2
<1>4. CASE OldSegment
  <2>1. OldInOrder'
    BY <1>4, TailInOrder DEF OldSegment, RestartInv
  <2>2. QED
    BY <1>2, <1>3, <1>4, <2>1, OldSegmentTypes DEF RestartInv, TypeOK
<1>5. CASE OldSegmentLost
  <2>1. OldInOrder'
    BY <1>5, TailInOrder DEF OldSegmentLost, RestartInv
  <2>2. oldSegments' \in Seq(Nat \X Segment)
    BY <1>5, HeadTailProperties DEF OldSegmentLost, RestartInv, OldTypeOK
  <2>3. OldTypeOK'
    BY <1>5, <2>2 DEF OldSegmentLost, RestartInv, OldTypeOK
  <2>4. UNCHANGED outputVars
    BY <1>5 DEF OldSegmentLost, vars
  <2>5. OutputTypeOK'
    BY <2>4, TypesStay DEF RestartInv, TypeOK
  <2>6. QED
    BY <1>2, <1>3, <2>1, <2>3, <2>5 DEF RestartInv, TypeOK
<1>6. CASE OldTimer
  <2>1. OldTypeOK' /\ OldInOrder'
    BY <1>6 DEF OldTimer, RestartInv, OldTypeOK, OldInOrder
  <2>2. UNCHANGED <<up, crashes, rowLength, columnLength, outputGrid, shown, answer, outputArmed>>
        /\ answerBytes' = 0
    BY <1>6 DEF OldTimer, gridVars
  <2>3. Indices' = Indices
    BY <2>2 DEF Indices, numberOfLeds
  <2>4. OutputTypeOK'
    BY <2>2, <2>3 DEF RestartInv, TypeOK, OutputTypeOK
  <2>5. QED
    BY <1>2, <1>3, <2>1, <2>4 DEF RestartInv, TypeOK
<1>7. QED
  BY <1>4, <1>5, <1>6

\* Nothing else is in the invariant.
LEMMA RestartStutters ==
    ASSUME RestartInv, UNCHANGED restartVars
    PROVE  RestartInv'
<1>1. UNCHANGED vars /\ UNCHANGED oldVars /\ UNCHANGED restarts
  BY DEF restartVars
<1>2. UNCHANGED <<network, session, serverVars, outputVars>>
  BY <1>1 DEF vars
<1>3. TypeOK'
  BY <1>2, TypesStay DEF RestartInv, TypeOK, NetworkTypeOK, network
<1>4. SystemInv'
  BY <1>2, LinkInvariantsStay DEF RestartInv
<1>5. OldTypeOK' /\ OldInOrder' /\ SessionNeedsOutput'
  BY <1>1, <1>2 DEF RestartInv, OldTypeOK, OldInOrder, SessionNeedsOutput, oldVars, outputVars
<1>6. QED
  BY <1>3, <1>4, <1>5 DEF RestartInv

\* The invariant of the link outlives every restart.
LEMMA RestartInduction == RestartSpec => []RestartInv
<1>1. RestartInit => RestartInv
  BY RestartStarts
<1>2. RestartInv /\ [RestartNext]_restartVars => RestartInv'
  BY CurrentStep, StartAgainStep, OldStep, RestartStutters DEF RestartNext
<1>3. QED
  BY <1>1, <1>2, PTL DEF RestartSpec

-----------------------------------------------------------------------------
(* Theorems *)

\* However often controllers die and are started again, the one that runs has at most one command
\* under way (translateToOutput, outputCommunication).
THEOREM RestartStopAndWait == RestartSpec => []OneCommandUnderWay
<1>1. RestartInv => OneCommandUnderWay
  BY DEF RestartInv, SystemInv, ChannelInv
<1>2. QED
  BY <1>1, RestartInduction, PTL

\* And its buffer holds the command that its thread waits for.
THEOREM RestartBufferIsCurrent == RestartSpec => []BufferHoldsCurrent
<1>1. RestartInv => BufferHoldsCurrent
  BY DEF RestartInv, SystemInv, BufferInv
<1>2. QED
  BY <1>1, RestartInduction, PTL

\* And what it has to write has a WR event to come.
THEOREM RestartWritesAreWoken == RestartSpec => []NoLostWakeup
<1>1. RestartInv => NoLostWakeup
  BY WakeupNow DEF RestartInv
<1>2. QED
  BY <1>1, RestartInduction, PTL

\* No command of any of them is obeyed by a grid of another size than its address was computed with,
\* although the output is started with other sizes, and the answer that a controller asked for may
\* have gone to the socket of a dead one (getOutputInformations, initLedGrid).
THEOREM RestartSizeIsKnown ==
    ASSUME SizesSurvive
    PROVE  RestartSpec => []SizeKnown
<1>1. RestartInit => SizeInv
  BY RestartStarts
<1>2. RestartInv /\ SizeInv /\ [RestartNext]_restartVars => SizeInv'
  <2>1. SUFFICES ASSUME RestartInv, SizeInv, [RestartNext]_restartVars PROVE SizeInv'
    OBVIOUS
  <2>2. CASE Next
    BY <2>1, <2>2, SizeStep DEF RestartInv
  <2>3. CASE StartAgain
    BY <2>1, <2>3, StartAgainStep
  <2>4. CASE OldSegment \/ OldSegmentLost \/ OldTimer
    BY <2>1, <2>4, OldLeavesNew, LinkInvariantsStay DEF RestartInv
  <2>5. CASE UNCHANGED restartVars
    BY <2>1, <2>5, LinkInvariantsStay DEF restartVars, vars, outputVars, gridVars, RestartInv
  <2>6. QED
    BY <2>1, <2>2, <2>3, <2>4, <2>5 DEF RestartNext
<1>3. SizeInv => SizeKnown
  BY DEF SizeInv, ToldInv, OrderInv, SizeKnown
<1>4. QED
  BY <1>1, <1>2, <1>3, RestartInduction, PTL DEF RestartSpec

\* A step of a dead controller's socket leaves an event for the answer.
LEMMA OldAnswerStep ==
    ASSUME RestartInv, AnswerInv, OldSegment \/ OldSegmentLost \/ OldTimer
    PROVE  AnswerInv'
<1>1. session' = session /\ outputArmed' = outputArmed
  BY OldLeavesNew
<1>2. CASE OldTimer
  BY <1>2 DEF OldTimer, AnswerInv
<1>3. CASE OldSegmentLost
  <2>1. \A sender : Leaves(sender)' => Leaves(sender)
    BY <1>3, TailInOrder DEF OldSegmentLost, RestartInv
  <2>2. answerBytes' = answerBytes /\ oldArmed' = oldArmed
    BY <1>3 DEF OldSegmentLost, vars, outputVars
  <2>3. QED
    BY <1>1, <2>1, <2>2 DEF AnswerInv
<1>4. CASE OldSegment
  <2>0. PICK sender : sender = Head(oldSegments)[1]
    OBVIOUS
  <2> DEFINE segment == Head(oldSegments)[2]
  <2>1. /\ \A other : Leaves(other)' => Leaves(other)
        /\ ~Leaves(sender)'
    BY <1>4, <2>0, TailInOrder DEF OldSegment, RestartInv
  <2>2. oldArmed' = IF segment.name = "fin" THEN oldArmed \ {sender} ELSE oldArmed \cup {sender}
    BY <1>4, <2>0 DEF OldSegment
  <2>3. CASE segment.name = "SIZE"
    <3>1. sender \in oldArmed'
      BY <2>2, <2>3
    <3>2. QED
      BY <2>1, <3>1 DEF AnswerInv
  <2>4. CASE segment.name # "SIZE"
    <3>1. answerBytes' = answerBytes
      BY <1>4, <2>4 DEF OldSegment, processSocketReading
    <3>2. segment.name = "fin" => Leaves(sender)
      <4>1. 1 \in DOMAIN oldSegments /\ Head(oldSegments) = oldSegments[1]
        BY <1>4, LenProperties, EmptySeq DEF OldSegment, RestartInv, OldTypeOK
      <4>2. QED
        BY <2>0, <4>1 DEF Leaves
    <3> HIDE DEF segment
    <3>3. \A other \in oldArmed : ~Leaves(other) => other \in oldArmed' /\ ~Leaves(other)'
      BY <2>1, <2>2, <3>2
    <3>4. QED
      BY <1>1, <3>1, <3>3 DEF AnswerInv
  <2>5. QED
    BY <2>3, <2>4
<1>5. QED
  BY <1>2, <1>3, <1>4

\* An answer in the output that a connected controller waits for never stays for want of an event,
\* although bytesToWrite is one for all the sockets (ledCommunication, processSocketReading).
THEOREM RestartAnswersAreWoken == RestartSpec => []AnswerHasEvent
<1>1. RestartInit => AnswerInv
  BY RestartStarts
<1>2. RestartInv /\ RestartInv' /\ AnswerInv /\ [RestartNext]_restartVars => AnswerInv'
  <2>1. SUFFICES ASSUME RestartInv, RestartInv', AnswerInv, [RestartNext]_restartVars
                 PROVE  AnswerInv'
    OBVIOUS
  <2>2. CASE Next /\ OldForgotten
    <3>1. CASE \E sender \in oldArmed : ~Leaves(sender)
      <4>1. session' = "open" => up'
        BY <2>1 DEF RestartInv, SessionNeedsOutput
      <4>2. up' => oldArmed' = oldArmed /\ oldSegments' = oldSegments
        BY <2>2 DEF OldForgotten
      <4>3. QED
        BY <3>1, <4>1, <4>2 DEF AnswerInv, Leaves
    <3>2. CASE ~\E sender \in oldArmed : ~Leaves(sender)
      <4>1. NoLostAnswer
        BY <2>1, <3>2 DEF AnswerInv, NoLostAnswer
      <4>2. NoLostAnswer'
        BY <2>1, <2>2, <4>1, AnswerStep DEF RestartInv
      <4>3. QED
        BY <4>2 DEF AnswerInv, NoLostAnswer
    <3>3. QED
      BY <3>1, <3>2
  <2>3. CASE StartAgain
    BY <2>1, <2>3, StartAgainStep
  <2>4. CASE OldSegment \/ OldSegmentLost \/ OldTimer
    BY <2>1, <2>4, OldAnswerStep
  <2>5. CASE UNCHANGED restartVars
    BY <2>1, <2>5 DEF restartVars, oldVars, vars, outputVars, AnswerInv, Leaves
  <2>6. QED
    BY <2>1, <2>2, <2>3, <2>4, <2>5 DEF RestartNext
<1>3. AnswerInv => AnswerHasEvent
  BY DEF AnswerInv, AnswerHasEvent
<1>4. QED
  BY <1>1, <1>2, <1>3, RestartInduction, PTL DEF RestartSpec
=============================================================================
