--------------------------- MODULE LEDInputProofs ---------------------------
(***************************************************************************)
(* LEDInput for every grid, every set of files and of answers, and every   *)
(* number of visits.                                                       *)
(***************************************************************************)
EXTENDS LEDInput, JSONToLedsProofs

-----------------------------------------------------------------------------
(* The menus and the parser *)

\* Every step of the menus is a step of the parser, or leaves its state alone.
LEMMA StepOfParser ==
    ASSUME Next
    PROVE  [JsonNext]_jsonVars
<1>1. CASE Asks /\ ~Path
  BY <1>1 DEF Asks, chooseInput, chooseAgain, exampleMenu, NoPath, AskNumberOfLoops
<1>2. CASE Path \/ Open \/ PlayDone
  BY <1>2 DEF Path, Open, PlayDone, JsonNext
<1>3. CASE Extract
  BY <1>3 DEF Extract, JsonNext
<1>4. CASE Works /\ ~Open /\ ~PlayDone /\ ~Extract
  BY <1>4 DEF Works, printBlinkingExample, printCyclingExample, printRandomFillingExample,
              ExampleDone, ExtractReturns, PlaySequence, PlayAgain, Crash
<1>5. CASE Ended
  BY <1>5 DEF Ended, vars
<1>6. QED
  BY <1>1, <1>2, <1>3, <1>4, <1>5 DEF Next, Works, Asks

\* The menus use the parser as JsonSpec lets any caller use it.
THEOREM MenusUseTheParser == Spec => JsonSpec
<1>1. Init => JsonInit
  BY DEF Init
<1>2. [Next]_vars => [JsonNext]_jsonVars
  BY StepOfParser DEF vars
<1>3. QED
  BY <1>1, <1>2, PTL DEF Spec, JsonSpec

-----------------------------------------------------------------------------
(* Painting *)

RGB == Byte \X Byte \X Byte

\* Of finitely many positions, one is the last.
LEMMA LastOfSome ==
    ASSUME NEW n \in Nat, NEW S, S \subseteq 1..n, S # {}
    PROVE  Display!Max(S) \in S /\ \A i \in S : Display!Max(S) >= i
BY LastExists DEF Display!Max

\* A picture that is painted over stays a picture.
LEMMA PaintedType ==
    ASSUME NEW n \in Nat, NEW leds, DOMAIN leds = 1..n,
           \A i \in 1..n : leds[i].colour \in RGB,
           picture \in [Display!Positions -> RGB]
    PROVE  Display!Painted(picture, leds) \in [Display!Positions -> RGB]
<1>1. ASSUME NEW p \in Display!Positions
      PROVE  LET touching == {i \in DOMAIN leds : Display!Touches(leds[i], p)}
             IN  (IF touching = {} THEN picture[p] ELSE leds[Display!Max(touching)].colour) \in RGB
  <2> DEFINE touching == {i \in DOMAIN leds : Display!Touches(leds[i], p)}
  <2>1. touching \subseteq 1..n
    OBVIOUS
  <2> HIDE DEF touching
  <2>2. touching # {} => Display!Max(touching) \in 1..n
    BY <2>1, LastOfSome
  <2>3. (IF touching = {} THEN picture[p] ELSE leds[Display!Max(touching)].colour) \in RGB
    BY <2>2
  <2>4. QED
    BY <2>3 DEF touching
<1>2. QED
  BY <1>1 DEF Display!Painted

-----------------------------------------------------------------------------
(* The file that is played *)

\* What extractRGBFromFile has just returned.
Returned == menu = "extract" /\ walk = "idle" /\ result = 0 => outSequences \in {"list", "null"}

\* The walk ends well in one way only, and that hands something out.
LEMMA WalkEnds ==
    ASSUME WalkStep, walk' = "idle", result' = 0
    PROVE  outSequences' \in {"list", "null"}
BY DEF WalkStep, TopToken, SequenceRefused, SequenceAdded, SequenceWithoutLeds,
       SequenceNotAllocated, SequencesDone, LedRefused, LedAdded, LedNotAllocated, LedLost,
       LedsDone, Extracted, Return, INVALID_JSON, ALLOCATION_ERROR

\* A call that found nothing to walk says so; one that began is not idle.
LEMMA FileOpened ==
    ASSUME NEW file, extractRGBFromFile(file), walk' = "idle"
    PROVE  result' # 0
BY DEF extractRGBFromFile, NothingToWalk, Refused, BeginWalk, OPEN_FILE_ERROR, CLOSE_FILE_ERROR,
       ALLOCATION_ERROR, INVALID_JSON, LEDSEQUENCES_NOT_INITIALIZED

\* A menu is in one place of the program, which its name says.
LEMMA OtherMenus ==
    ASSUME \/ chooseInput \/ chooseAgain \/ exampleMenu \/ NoPath \/ Path
           \/ printBlinkingExample \/ printCyclingExample \/ printRandomFillingExample
           \/ ExampleDone \/ PlayDone \/ Crash
    PROVE  menu' \notin {"extract", "times", "play"}
BY DEF chooseInput, chooseAgain, Chosen, exampleMenu, Example, NoPath, Path, printBlinkingExample,
       printCyclingExample, printRandomFillingExample, ExampleDone, PlayDone, Crash

\* While a file is played, the thread is between PlaySequence and PlayDone.
LEMMA LiveListStep ==
    ASSUME PlaysLiveList, Returned, Next
    PROVE  PlaysLiveList' /\ Returned'
<1> USE DEF PlaysLiveList, Returned
<1>1. CASE \/ chooseInput \/ chooseAgain \/ exampleMenu \/ NoPath \/ Path
           \/ printBlinkingExample \/ printCyclingExample \/ printRandomFillingExample
           \/ ExampleDone \/ PlayDone \/ Crash
  BY <1>1, OtherMenus
<1>2. CASE Open
  BY <1>2, FileOpened DEF Open
<1>3. CASE Extract
  <2>1. menu' = "extract"
    BY <1>3 DEF Extract, menuVars
  <2>2. QED
    BY <1>3, <2>1, WalkEnds DEF Extract
<1>4. CASE ExtractReturns
  BY <1>4 DEF ExtractReturns, jsonVars
<1>5. CASE AskNumberOfLoops
  BY <1>5 DEF AskNumberOfLoops, jsonVars
<1>6. CASE PlaySequence \/ PlayAgain
  BY <1>6 DEF PlaySequence, PlayAgain, jsonVars
<1>7. CASE Ended
  BY <1>7 DEF Ended, vars, menuVars, jsonVars
<1>8. QED
  BY <1>1, <1>2, <1>3, <1>4, <1>5, <1>6, <1>7 DEF Next, Works, Asks

\* The list is not freed before the last loop over it has ended.
THEOREM ListStaysLive == Spec => []PlaysLiveList
<1>1. Init => PlaysLiveList /\ Returned
  BY DEF Init, PlaysLiveList, Returned
<1>2. PlaysLiveList /\ Returned /\ [Next]_vars => (PlaysLiveList /\ Returned)'
  <2>1. SUFFICES ASSUME PlaysLiveList, Returned, [Next]_vars PROVE PlaysLiveList' /\ Returned'
    OBVIOUS
  <2>2. CASE Next
    BY <2>1, <2>2, LiveListStep
  <2>3. CASE UNCHANGED vars
    BY <2>1, <2>3 DEF vars, menuVars, jsonVars, PlaysLiveList, Returned
  <2>4. QED
    BY <2>1, <2>2, <2>3
<1>3. QED
  BY <1>1, <1>2, PTL DEF Spec

-----------------------------------------------------------------------------
(* Types *)

MenuTypeOK ==
    /\ menu \in Menus
    /\ inputChoice \in Answers \cup {0}
    /\ loop \in Nat /\ index \in Nat /\ remaining \in UShort
    /\ randomColor \in RGB
    /\ numberOfLoops \in Int /\ firstSequence \in BOOLEAN /\ pause \in UShort
    /\ picture \in [Display!Positions -> RGB]
    /\ visits \in Nat

\* What holds besides, for the sequence that is played to be one of the list.
PlayIndex == menu = "play" => index >= 1

\* An LED of an example.
LEMMA SmallNumbers ==
    /\ 0 \in UShort /\ 0 \in Byte /\ 255 \in Byte /\ 100 \in Byte /\ 165 \in Byte /\ 242 \in Byte
    /\ 243 \in Byte /\ 15 \in Byte
    /\ Off \in RGB
<1>1. 0 \in UShort
  BY UShortRange
<1>2. /\ 0 \in Byte /\ 255 \in Byte /\ 100 \in Byte /\ 165 \in Byte /\ 242 \in Byte
      /\ 243 \in Byte /\ 15 \in Byte
  BY ByteRange
<1>3. QED
  BY <1>1, <1>2 DEF Off, RGB

\* The sequence that is next is one of the list.
LEMMA SequenceType ==
    ASSUME JsonInv, index \in Nat, index >= 1,
           outSequences = "list", index <= Len(extractedSequences)
    PROVE  Sequence \in LEDSequence /\ Sequence.sequenceLength = Len(Sequence.ledToChange)
<1>1. extractedSequences # NULL /\ extractedSequences \in Seq(LEDSequence)
  BY DEF JsonInv, HandedOut, ListOK
<1>2. index \in 1..Len(extractedSequences)
  BY <1>1
<1>3. Sequence \in LEDSequence
  BY <1>1, <1>2, ElementOfSeq DEF Sequence
<1>4. QED
  BY <1>1, <1>2, <1>3 DEF Sequence, JsonInv, ListOK, CountersAgree

\* However long nanosleep took, it is a number of milliseconds that fits.
LEMMA SleepType ==
    ASSUME NEW delay \in UShort
    PROVE  Sleeps(delay) \subseteq UShort
<1> DEFINE product == (delay * 15625) % 67108864
<1>1. delay \in Int
  BY UShortRange
<1>2. product \in Int /\ 0 <= product
  BY <1>1
<1> HIDE DEF product
<1>3. product < 33554432 => product \div 15625 \in Int /\ 0 <= product \div 15625 /\ product \div 15625 < 65536
  BY <1>2
<1>4. Slept(delay) \in UShort
  BY <1>3, SmallNumbers, UShortRange DEF Slept, product
<1>5. QED
  BY <1>4 DEF Sleeps

\* Painting keeps the picture a picture.
LEMMA PictureStep ==
    ASSUME MenuTypeOK, JsonInv, PlayIndex,
           \/ printBlinkingExample \/ printCyclingExample \/ printRandomFillingExample
           \/ PlaySequence
    PROVE  picture' \in [Display!Positions -> RGB]
<1> USE DEF translateToOutput
<1>1. picture \in [Display!Positions -> RGB] /\ index \in Nat /\ randomColor \in RGB
  BY DEF MenuTypeOK
<1>2. CASE printBlinkingExample
  <2> DEFINE leds == <<[row |-> 0, column |-> 1,
                        colour |-> IF index % 2 = 0 THEN <<255, 100, 0>> ELSE Off]>>
  <2>1. DOMAIN leds = 1..1 /\ \A i \in 1..1 : leds[i].colour \in RGB
    BY SmallNumbers DEF RGB
  <2>2. picture' = Display!Painted(picture, leds)
    BY <1>2 DEF printBlinkingExample
  <2> HIDE DEF leds
  <2>3. QED
    BY <1>1, <2>1, <2>2, PaintedType
<1>3. CASE printCyclingExample
  <2> DEFINE leds == <<Colour(CyclePrevious(index), Off, 5), Colour(index, <<165, 242, 243>>, 5)>>
  <2>1. DOMAIN leds = 1..2 /\ \A i \in 1..2 : leds[i].colour \in RGB
    BY SmallNumbers DEF RGB, Colour
  <2>2. picture' = Display!Painted(picture, leds)
    BY <1>3 DEF printCyclingExample
  <2> HIDE DEF leds
  <2>3. QED
    BY <1>1, <2>1, <2>2, PaintedType
<1>4. CASE printRandomFillingExample
  <2> DEFINE previous == IF index = 0 THEN 0 ELSE index - 1
             leds == <<Colour(previous, Off, Columns), Colour(index, Brightened(randomColor), Columns)>>
  <2>1. Brightened(randomColor) \in RGB
    BY <1>1, SmallNumbers DEF Brightened, RGB
  <2>2. DOMAIN leds = 1..2 /\ \A i \in 1..2 : leds[i].colour \in RGB
    BY <2>1, SmallNumbers DEF Colour
  <2>3. picture' = Display!Painted(picture, leds)
    BY <1>4 DEF printRandomFillingExample
  <2> HIDE DEF leds
  <2>4. QED
    BY <1>1, <2>2, <2>3, PaintedType
<1>5. CASE PlaySequence
  <2> DEFINE leds == SubSeq(Sequence.ledToChange, 1, Sequence.sequenceLength)
  <2>1. Sequence \in LEDSequence /\ Sequence.sequenceLength = Len(Sequence.ledToChange)
    BY <1>1, <1>5, SequenceType DEF PlaySequence, PlayIndex
  <2>2. Sequence.ledToChange \in Seq(AddressableLED)
    BY <2>1 DEF LEDSequence
  <2>3. leds = Sequence.ledToChange
    BY <2>1, <2>2, SubSeqFull
  <2>4. DOMAIN leds = 1..Len(leds) /\ Len(leds) \in Nat
    <3> DEFINE all == Sequence.ledToChange
    <3>1. all \in Seq(AddressableLED) /\ leds = all
      BY <2>2, <2>3
    <3> HIDE DEF all
    <3>2. DOMAIN all = 1..Len(all) /\ Len(all) \in Nat
      BY <3>1, LenProperties
    <3> HIDE DEF leds
    <3>3. QED
      BY <3>1, <3>2
  <2>5. \A i \in 1..Len(leds) : leds[i].colour \in RGB
    <3>1. TAKE i \in 1..Len(leds)
    <3>2. leds[i] \in AddressableLED
      BY <2>2, <2>3, ElementOfSeq
    <3>3. QED
      BY <3>2 DEF AddressableLED, RGB
  <2>6. picture' = Display!Painted(picture, leds)
    BY <1>5 DEF PlaySequence
  <2> HIDE DEF leds
  <2>7. QED
    BY <1>1, <2>4, <2>5, <2>6, PaintedType
<1>6. QED
  BY <1>2, <1>3, <1>4, <1>5

\* One step of the menus keeps the types.
LEMMA MenuTypesStep ==
    ASSUME MenuTypeOK, JsonInv, PlayIndex, Next
    PROVE  MenuTypeOK' /\ PlayIndex'
<1>1. /\ Off \in RGB /\ 0 \in UShort /\ RandomColours \subseteq RGB
      /\ Answers \cup {0} \subseteq Int /\ Rows \in Int /\ Columns \in Int
  BY SmallNumbers, InputAssumption, UShortRange DEF RGB
<1>2. CASE chooseInput \/ chooseAgain \/ NoPath \/ Path \/ Open \/ ExtractReturns \/ Crash
  <2>1. menu' \in Menus \ {"play"}
    BY <1>2 DEF chooseInput, chooseAgain, Chosen, NoPath, Path, Open, ExtractReturns, Crash, Menus
  <2>2. UNCHANGED <<loops, playing, picture>> /\ inputChoice' \in {0, inputChoice}
    BY <1>2 DEF chooseInput, chooseAgain, NoPath, Path, Open, ExtractReturns, Crash
  <2>3. visits' \in {visits, visits + 1}
    BY <1>2 DEF chooseInput, chooseAgain, NoPath, Path, Open, ExtractReturns, Crash
  <2>4. firstSequence' \in BOOLEAN
    BY <2>2, Zenon DEF playing, MenuTypeOK
  <2>5. QED
    BY <2>1, <2>2, <2>3, <2>4 DEF MenuTypeOK, PlayIndex, loops, playing
<1>3. CASE exampleMenu
  <2>1. /\ inputChoice' \in Answers \cup {0}
        /\ loop' = 0 /\ index' = 0
        /\ UNCHANGED <<playing, picture>>
    BY <1>3, <1>1 DEF exampleMenu, Parsed, MenuTypeOK
  <2>2. menu' \in Menus \ {"play"}
    BY <1>3 DEF exampleMenu, Example, Menus
  <2>3. remaining' \in UShort
    <3>1. ToUShort(Rows * Columns) \in UShort
      BY <1>1, UShortCast
    <3>2. QED
      BY <1>1, <1>3, <3>1 DEF exampleMenu
  <2>4. randomColor' \in RGB
    BY <1>1, <1>3 DEF exampleMenu, MenuTypeOK
  <2>5. visits' \in {visits, visits + 1}
    BY <1>3 DEF exampleMenu
  <2>6. firstSequence' \in BOOLEAN
    BY <2>1, Zenon DEF playing, MenuTypeOK
  <2>7. QED
    BY <2>1, <2>2, <2>3, <2>4, <2>5, <2>6 DEF MenuTypeOK, PlayIndex, playing
<1>4. CASE printBlinkingExample \/ printCyclingExample
  <2>1. /\ menu' \in {"blink", "cycle"} /\ UNCHANGED <<inputChoice, remaining, randomColor, playing, visits>>
    BY <1>4 DEF printBlinkingExample, printCyclingExample
  <2>2. index' \in Nat /\ loop' \in Nat
    <3>1. index \in Nat /\ loop \in Nat /\ (index + 1) % 10 \in Nat
      BY DEF MenuTypeOK
    <3>2. QED
      BY <1>4, <3>1 DEF printBlinkingExample, printCyclingExample
  <2>3. firstSequence' \in BOOLEAN
    BY <2>1, Zenon DEF playing, MenuTypeOK
  <2>4. QED
    BY <1>4, <2>1, <2>2, <2>3, PictureStep DEF MenuTypeOK, PlayIndex, playing, Menus
<1>5. CASE printRandomFillingExample
  <2>1. menu' = "fill" /\ UNCHANGED <<inputChoice, loop, playing, visits>>
    BY <1>5 DEF printRandomFillingExample
  <2>2. index' \in Nat /\ remaining' \in UShort
    <3>1. index \in Nat /\ remaining \in UShort /\ remaining > 0
      BY <1>5 DEF MenuTypeOK, printRandomFillingExample
    <3>2. remaining - 1 \in UShort
      BY <3>1, UShortRange
    <3>3. QED
      BY <1>5, <3>1, <3>2 DEF printRandomFillingExample, OneLess
  <2>3. randomColor' \in RGB
    BY <1>1, <1>5 DEF printRandomFillingExample, MenuTypeOK
  <2>4. firstSequence' \in BOOLEAN
    BY <2>1, Zenon DEF playing, MenuTypeOK
  <2>5. QED
    BY <1>5, <2>1, <2>2, <2>3, <2>4, PictureStep DEF MenuTypeOK, PlayIndex, playing, Menus
<1>6. CASE ExampleDone
  <2>1. /\ menu' = "examples" /\ loop' = 0 /\ index' = 0 /\ remaining' = 0 /\ randomColor' = Off
        /\ UNCHANGED <<inputChoice, playing, picture, visits>>
    BY <1>6 DEF ExampleDone, LoopsOver
  <2>2. firstSequence' \in BOOLEAN
    BY <2>1, Zenon DEF playing, MenuTypeOK
  <2>3. QED
    BY <1>1, <2>1, <2>2 DEF MenuTypeOK, PlayIndex, playing, Menus
<1>7. CASE Extract \/ Ended
  <2>1. UNCHANGED menuVars
    BY <1>7 DEF Extract, Ended, vars
  <2>2. firstSequence' \in BOOLEAN
    BY <2>1, Zenon DEF menuVars, playing, MenuTypeOK
  <2>3. QED
    BY <2>1, <2>2 DEF MenuTypeOK, PlayIndex, menuVars, playing, loops
<1>8. CASE AskNumberOfLoops
  <2>1. /\ menu' = "play" /\ numberOfLoops' \in Answers \cup {0}
        /\ loop' = 0 /\ index' = 1 /\ pause' = 0
        /\ UNCHANGED <<inputChoice, remaining, randomColor, picture, visits>>
    BY <1>8 DEF AskNumberOfLoops, Parsed
  <2>2. firstSequence' \in BOOLEAN
    BY <1>8, Zenon DEF AskNumberOfLoops
  <2>3. QED
    BY <1>1, <2>1, <2>2 DEF MenuTypeOK, PlayIndex, Menus
<1>9. CASE PlaySequence
  <2>1. /\ menu' = "play" /\ index' = index + 1
        /\ UNCHANGED <<inputChoice, loop, remaining, randomColor, numberOfLoops, visits>>
    BY <1>9 DEF PlaySequence
  <2>2. pause' \in UShort
    <3>1. Sequence \in LEDSequence
      BY <1>9, SequenceType DEF PlaySequence, PlayIndex, MenuTypeOK
    <3>2. Sequence.delay \in UShort
      BY <3>1 DEF LEDSequence
    <3>3. Sleeps(Sequence.delay) \subseteq UShort
      BY <3>2, SleepType
    <3>4. QED
      BY <1>9, <3>3 DEF PlaySequence, BeforeSequence, MenuTypeOK
  <2>3. firstSequence' \in BOOLEAN
    BY <1>9, Zenon DEF PlaySequence
  <2>4. index' \in Nat /\ index' >= 1
    BY <2>1 DEF MenuTypeOK
  <2>5. QED
    BY <1>9, <2>1, <2>2, <2>3, <2>4, PictureStep DEF MenuTypeOK, PlayIndex, Menus
<1>10. CASE PlayAgain
  <2>1. /\ menu' = "play" /\ loop' = loop + 1 /\ index' = 1
        /\ UNCHANGED <<inputChoice, remaining, randomColor, playing, picture, visits>>
    BY <1>10 DEF PlayAgain
  <2>2. firstSequence' \in BOOLEAN
    BY <2>1, Zenon DEF playing, MenuTypeOK
  <2>3. QED
    BY <2>1, <2>2 DEF MenuTypeOK, PlayIndex, playing, Menus
<1>11. CASE PlayDone
  <2>1. /\ menu' = "main" /\ loop' = 0 /\ index' = 0 /\ remaining' = 0 /\ randomColor' = Off
        /\ numberOfLoops' = 0 /\ pause' = 0
        /\ UNCHANGED <<inputChoice, picture, visits>>
    BY <1>11 DEF PlayDone, LoopsOver
  <2>2. firstSequence' \in BOOLEAN
    BY <1>11, Zenon DEF PlayDone
  <2>3. QED
    BY <1>1, <2>1, <2>2 DEF MenuTypeOK, PlayIndex, Menus
<1>12. QED
  BY <1>2, <1>3, <1>4, <1>5, <1>6, <1>7, <1>8, <1>9, <1>10, <1>11 DEF Next, Works, Asks

LEMMA MenuTypesInduction == Spec => [](MenuTypeOK /\ PlayIndex)
<1>1. Init => MenuTypeOK /\ PlayIndex
  <2>1. SUFFICES ASSUME Init PROVE MenuTypeOK /\ PlayIndex
    OBVIOUS
  <2>2. firstSequence \in BOOLEAN
    BY <2>1, Zenon DEF Init
  <2>3. picture \in [Display!Positions -> RGB]
    BY <2>1, SmallNumbers DEF Init, Display!Blank
  <2>4. QED
    BY <2>1, <2>2, <2>3, SmallNumbers DEF Init, MenuTypeOK, PlayIndex, Menus
<1>2. MenuTypeOK /\ PlayIndex /\ JsonInv /\ [Next]_vars => (MenuTypeOK /\ PlayIndex)'
  <2>1. SUFFICES ASSUME MenuTypeOK, PlayIndex, JsonInv, [Next]_vars PROVE MenuTypeOK' /\ PlayIndex'
    OBVIOUS
  <2>2. CASE Next
    BY <2>1, <2>2, MenuTypesStep
  <2>3. CASE UNCHANGED vars
    <3>1. firstSequence' \in BOOLEAN
      BY <2>1, <2>3, Zenon DEF vars, menuVars, playing, MenuTypeOK
    <3>2. QED
      BY <2>1, <2>3, <3>1 DEF vars, menuVars, playing, loops, MenuTypeOK, PlayIndex
  <2>4. QED
    BY <2>1, <2>2, <2>3
<1>3. Spec => []JsonInv
  BY MenusUseTheParser, JsonInduction, PTL
<1>4. QED
  BY <1>1, <1>2, <1>3, PTL DEF Spec

\* Type correctness of the menus, the examples and the playback.
THEOREM InputTypes == Spec => []TypeOK
<1>1. MenuTypeOK /\ JsonTypeOK => TypeOK
  BY DEF MenuTypeOK, TypeOK, RGB
<1>2. Spec => []JsonTypeOK
  BY MenusUseTheParser, JsonTypes, PTL
<1>3. QED
  BY <1>1, <1>2, MenuTypesInduction, PTL

\* The parser's promises, for the menus as its caller.
THEOREM MenusUnderstandFiles == Spec => []DocumentsUnderstood
BY MenusUseTheParser, FilesAreUnderstood, PTL

THEOREM MenusReadInside == Spec => []ReadsInsideDocuments
BY MenusUseTheParser, ReadingStaysInside, PTL

THEOREM MenusKeepCounters == Spec => []CountersAgree
BY MenusUseTheParser, CountersKept, PTL

THEOREM MenusLoseNothing == Spec => []NothingLost
BY MenusUseTheParser, NothingIsLost, PTL

-----------------------------------------------------------------------------
(* The examples *)

\* Two LEDs are painted: the second over the first.
LEMMA PaintTwo ==
    ASSUME NEW a, NEW b, NEW p \in Display!Positions
    PROVE  Display!Painted(picture, <<a, b>>)[p] =
               IF Display!Touches(b, p) THEN b.colour
               ELSE IF Display!Touches(a, p) THEN a.colour ELSE picture[p]
<1> DEFINE leds == <<a, b>>
           touching == {i \in DOMAIN leds : Display!Touches(leds[i], p)}
<1>1. /\ touching \subseteq 1..2
      /\ 1 \in touching <=> Display!Touches(a, p)
      /\ 2 \in touching <=> Display!Touches(b, p)
      /\ leds[1] = a /\ leds[2] = b
  OBVIOUS
<1>2. Display!Painted(picture, leds)[p] =
          IF touching = {} THEN picture[p] ELSE leds[Display!Max(touching)].colour
  BY DEF Display!Painted
<1> HIDE DEF touching, leds
<1>3. touching # {} => Display!Max(touching) \in touching /\ \A i \in touching : Display!Max(touching) >= i
  BY <1>1, LastOfSome
<1>4. CASE Display!Touches(b, p)
  <2>1. Display!Max(touching) = 2
    <3> DEFINE last == Display!Max(touching)
    <3>1. last \in 1..2 /\ last >= 2
      BY <1>1, <1>3, <1>4
    <3> HIDE DEF last
    <3>2. last = 2
      BY <3>1
    <3>3. QED
      BY <3>2 DEF last
  <2>2. QED
    BY <1>1, <1>2, <1>4, <2>1 DEF leds
<1>5. CASE ~Display!Touches(b, p) /\ Display!Touches(a, p)
  <2>1. Display!Max(touching) = 1
    <3> DEFINE last == Display!Max(touching)
    <3>1. last \in 1..2 /\ last # 2
      BY <1>1, <1>3, <1>5
    <3> HIDE DEF last
    <3>2. last = 1
      BY <3>1
    <3>3. QED
      BY <3>2 DEF last
  <2>2. QED
    BY <1>1, <1>2, <1>5, <2>1 DEF leds
<1>6. CASE ~Display!Touches(b, p) /\ ~Display!Touches(a, p)
  <2>1. touching = {}
    BY <1>1, <1>6
  <2>2. QED
    BY <1>2, <1>6, <2>1 DEF leds
<1>7. QED
  BY <1>4, <1>5, <1>6

\* Of two positions in lines of the same length, an LED for one touches the other only when
\* they are the same.
LEMMA TouchesItself ==
    ASSUME NEW columns \in Nat \ {0}, columns <= UShortMax,
           NEW i \in Nat, NEW p \in Nat, NEW colour
    PROVE  Display!Touches(Colour(i, colour, columns), <<p \div columns, p % columns>>) <=> i = p
<1> DEFINE led == Colour(i, colour, columns)
<1>1. /\ i = (i \div columns) * columns + (i % columns)
      /\ p = (p \div columns) * columns + (p % columns)
      /\ i % columns \in Nat /\ i % columns < columns
  OBVIOUS
<1>2. led.row = i \div columns /\ led.column = i % columns
  BY DEF Colour
<1>3. led.column # UShortMax
  BY <1>1, <1>2, UShortRange DEF UShortMax
<1> HIDE DEF led
<1>4. Display!Touches(led, <<p \div columns, p % columns>>)
          <=> i \div columns = p \div columns /\ i % columns = p % columns
  BY <1>2, <1>3 DEF Display!Touches
<1>5. i \div columns = p \div columns /\ i % columns = p % columns => i = p
  BY <1>1
<1>6. QED
  BY <1>4, <1>5 DEF led

\* The size of the grid, as numbers.
LEMMA SizeOfGrid ==
    /\ Rows \in Nat \ {0} /\ Columns \in Nat \ {0} /\ Columns <= UShortMax
    /\ Rows * Columns \in Nat
<1>1. Rows \in Nat \ {0} /\ Columns \in Nat \ {0} /\ Columns <= UShortMax
  BY InputAssumption, UShortRange DEF UShortMax
<1>2. QED
  BY <1>1

\* FillsTheGrid, with where the pass is.
FillInv ==
    menu = "fill" /\ Rows * Columns <= UShortMax =>
        /\ remaining <= Rows * Columns
        /\ remaining = 0 \/ index < remaining
        /\ \A p \in remaining..(Rows * Columns - 1) : Lit(p, Columns)

\* A colour that the filling uses can be seen.
LEMMA BrightIsLit ==
    ASSUME randomColor \in RGB
    PROVE  Brightened(randomColor) # Off
BY ByteRange DEF Brightened, Off, RGB

\* One step of the filling: the LED that runs is lit, the one behind it is dark, and no other
\* changes.
LEMMA FillStep ==
    ASSUME MenuTypeOK, FillInv, printRandomFillingExample
    PROVE  FillInv'
<1> DEFINE N == Rows * Columns
           previous == IF index = 0 THEN 0 ELSE index - 1
           dark == Colour(previous, Off, Columns)
           bright == Colour(index, Brightened(randomColor), Columns)
<1>1. SUFFICES ASSUME N <= UShortMax PROVE FillInv'
  BY DEF FillInv
<1>2. /\ menu = "fill" /\ remaining > 0 /\ index \in Nat /\ remaining \in Nat
      /\ remaining <= N /\ index < remaining /\ N \in Nat
      /\ \A p \in remaining..(N - 1) : Lit(p, Columns)
  BY <1>1, SizeOfGrid, UShortRange DEF FillInv, MenuTypeOK, printRandomFillingExample
<1>3. picture' = Display!Painted(picture, <<dark, bright>>)
  BY DEF printRandomFillingExample, translateToOutput
<1>4. previous \in Nat /\ previous <= index
  BY <1>2
<1> HIDE DEF previous
<1>5. ASSUME NEW p \in index..(N - 1), p = index \/ Lit(p, Columns)
      PROVE  Lit(p, Columns)'
  <2> DEFINE place == <<p \div Columns, p % Columns>>
  <2>1. p \in Nat /\ p < N
    BY <1>2, <1>5
  <2>2. place \in Display!Positions
    BY <2>1, SizeOfGrid, PositionInGrid DEF Display!Positions
  <2>3. /\ Display!Touches(bright, place) <=> index = p
        /\ Display!Touches(dark, place) <=> previous = p
    BY <1>2, <1>4, <2>1, SizeOfGrid, TouchesItself
  <2>4. bright.colour # Off
    BY BrightIsLit DEF Colour, MenuTypeOK
  <2> HIDE DEF place, bright, dark
  <2>5. picture'[place] = IF Display!Touches(bright, place) THEN bright.colour
                          ELSE IF Display!Touches(dark, place) THEN dark.colour ELSE picture[place]
    BY <1>3, <2>2, PaintTwo
  <2>6. index # p => previous # p /\ picture[place] # Off
    BY <1>2, <1>4, <1>5 DEF Lit, place
  <2>7. picture'[place] # Off
    BY <2>3, <2>4, <2>5, <2>6
  <2>8. QED
    BY <2>7 DEF Lit, place
<1>6. CASE index + 1 = remaining
  <2>1. index' = 0 /\ remaining' = remaining - 1
    BY <1>6 DEF printRandomFillingExample, OneLess
  <2>2. \A p \in remaining'..(N - 1) : Lit(p, Columns)'
    <3>1. TAKE p \in remaining'..(N - 1)
    <3>2. p \in index..(N - 1) /\ (p = index \/ p \in remaining..(N - 1))
      BY <1>2, <1>6, <2>1, <3>1
    <3>3. QED
      BY <1>2, <1>5, <3>2
  <2>3. remaining' <= N /\ (remaining' = 0 \/ index' < remaining')
    BY <1>2, <2>1
  <2>4. QED
    BY <2>2, <2>3 DEF FillInv
<1>7. CASE index + 1 # remaining
  <2>1. index' = index + 1 /\ remaining' = remaining
    BY <1>7 DEF printRandomFillingExample
  <2>2. \A p \in remaining'..(N - 1) : Lit(p, Columns)'
    <3>1. TAKE p \in remaining'..(N - 1)
    <3>2. p \in index..(N - 1) /\ p \in remaining..(N - 1)
      BY <1>2, <2>1, <3>1
    <3>3. QED
      BY <1>2, <1>5, <3>2
  <2>3. remaining' <= N /\ index' < remaining'
    BY <1>2, <1>7, <2>1
  <2>4. QED
    BY <2>2, <2>3 DEF FillInv
<1>8. QED
  BY <1>6, <1>7

\* The other steps: one begins a filling, with no position lit yet; the rest are elsewhere.
LEMMA FillKept ==
    ASSUME MenuTypeOK, FillInv, [Next]_vars, ~printRandomFillingExample
    PROVE  FillInv'
<1>1. CASE exampleMenu
  <2>1. SUFFICES ASSUME menu' = "fill", Rows * Columns <= UShortMax PROVE FillInv'
    BY DEF FillInv
  <2>2. index' = 0 /\ remaining' = ToUShort(Rows * Columns)
    <3>1. inputChoice' = 2
      BY <1>1, <2>1 DEF exampleMenu, Example
    <3>2. QED
      BY <1>1, <3>1 DEF exampleMenu
  <2>3. Rows * Columns \in UShort
    BY <2>1, SizeOfGrid, UShortRange DEF UShortMax
  <2>4. remaining' = Rows * Columns
    BY <2>2, <2>3, UShortCast
  <2>5. remaining' \in Nat /\ remaining'..(Rows * Columns - 1) = {}
    BY <2>4, SizeOfGrid
  <2>6. remaining' <= Rows * Columns /\ (remaining' = 0 \/ index' < remaining')
    BY <2>2, <2>4, <2>5
  <2>7. QED
    BY <2>5, <2>6 DEF FillInv
<1>2. CASE Extract \/ Ended \/ UNCHANGED vars
  BY <1>2 DEF FillInv, Lit, Extract, Ended, vars, menuVars, loops
<1>3. CASE Next /\ ~exampleMenu /\ ~Extract /\ ~Ended
  <2>1. menu' # "fill"
    BY <1>3 DEF Next, Works, Asks, chooseInput, chooseAgain, Chosen, NoPath, Path,
                AskNumberOfLoops, printBlinkingExample, printCyclingExample, ExampleDone, Open,
                ExtractReturns, PlaySequence, PlayAgain, PlayDone, Crash
  <2>2. QED
    BY <2>1 DEF FillInv
<1>4. QED
  BY <1>1, <1>2, <1>3

\* Every LED that the random filling has passed for the last time stays lit, on every grid that
\* an unsigned short counts, whatever rand gives.
THEOREM FillingStays == Spec => []FillsTheGrid
<1>1. Init => FillInv
  BY DEF Init, FillInv
<1>2. MenuTypeOK /\ FillInv /\ [Next]_vars => FillInv'
  BY FillStep, FillKept
<1>3. FillInv => FillsTheGrid
  BY DEF FillInv, FillsTheGrid
<1>4. QED
  BY <1>1, <1>2, <1>3, MenuTypesInduction, PTL DEF Spec

\* OneLedWalks, with the position that comes next.
CycleInv == (menu = "cycle" => index \in 0..9) /\ OneLedWalks

\* One step of the cycling: the LED before the new one goes dark.
LEMMA CycleStep ==
    ASSUME MenuTypeOK, CycleInv, printCyclingExample
    PROVE  CycleInv'
<1> DEFINE previous == CyclePrevious(index)
           colour == <<165, 242, 243>>
           dark == Colour(previous, Off, 5)
           bright == Colour(index, colour, 5)
<1>1. /\ menu = "cycle" /\ index \in 0..9 /\ loop \in Nat
      /\ index' = (index + 1) % 10
      /\ loop' = IF index = 9 THEN loop + 1 ELSE loop
      /\ picture' = Display!Painted(picture, <<dark, bright>>)
  BY DEF CycleInv, MenuTypeOK, printCyclingExample, translateToOutput
<1>2. /\ previous \in 0..9 /\ previous # index
      /\ previous = IF index = 0 THEN 9 ELSE index - 1
  BY <1>1 DEF CyclePrevious
<1>3. index' \in 0..9 /\ index = IF index' = 0 THEN 9 ELSE index' - 1
  BY <1>1
<1>4. 5 \in Nat \ {0} /\ 5 <= UShortMax /\ 5 # 0
  BY DEF UShortMax
<1>5. dark.colour = Off /\ bright.colour # Off
  BY DEF Colour, Off
<1> HIDE DEF previous, colour
<1>6. ASSUME NEW p \in 0..9, Shown(p, 5)
      PROVE  Lit(p, 5)' <=> p = index \/ (p # previous /\ Lit(p, 5))
  <2> DEFINE place == <<p \div 5, p % 5>>
  <2>1. p \in Nat /\ p \div 5 \in Nat /\ p % 5 \in Nat
    OBVIOUS
  <2>2. place \in Display!Positions
    BY <1>6, <2>1, SizeOfGrid DEF Display!Positions, Shown
  <2>3. /\ Display!Touches(bright, place) <=> index = p
        /\ Display!Touches(dark, place) <=> previous = p
    <3>1. index \in Nat /\ previous \in Nat
      BY <1>1, <1>2
    <3>2. QED
      BY <1>4, <2>1, <3>1, TouchesItself, Zenon
  <2> HIDE DEF place, bright, dark
  <2>4. picture'[place] = IF Display!Touches(bright, place) THEN bright.colour
                          ELSE IF Display!Touches(dark, place) THEN dark.colour ELSE picture[place]
    BY <1>1, <2>2, PaintTwo
  <2>5. picture'[place] # Off <=> p = index \/ (p # previous /\ picture[place] # Off)
    BY <1>5, <2>3, <2>4
  <2>6. QED
    BY <2>5 DEF Lit, place
<1>7. ASSUME NEW p \in 0..9, Shown(p, 5), p <= index \/ loop' > 0
      PROVE  Lit(p, 5)' <=> p = index
  <2>1. CASE p = index \/ p = previous
    BY <1>2, <1>6, <1>7, <2>1
  <2>2. CASE p # index /\ p # previous
    <3>1. (index > 0 \/ loop > 0) /\ (p <= previous \/ loop > 0)
      BY <1>1, <1>2, <1>7, <2>2
    <3>2. ~Lit(p, 5)
      BY <1>1, <1>2, <1>7, <2>2, <3>1 DEF CycleInv, OneLedWalks
    <3>3. QED
      BY <1>6, <1>7, <2>2, <3>2
  <2>3. QED
    BY <2>1, <2>2
<1>8. OneLedWalks'
  BY <1>3, <1>7 DEF OneLedWalks, Shown
<1>9. QED
  BY <1>3, <1>8 DEF CycleInv

\* The other steps: one begins the walk.
LEMMA CycleKept ==
    ASSUME CycleInv, [Next]_vars, ~printCyclingExample
    PROVE  CycleInv'
<1>1. CASE exampleMenu
  BY <1>1 DEF exampleMenu, CycleInv, OneLedWalks
<1>2. CASE Extract \/ Ended \/ UNCHANGED vars
  BY <1>2 DEF CycleInv, OneLedWalks, Lit, Shown, Extract, Ended, vars, menuVars, loops
<1>3. CASE Next /\ ~exampleMenu /\ ~Extract /\ ~Ended
  <2>1. menu' # "cycle"
    BY <1>3 DEF Next, Works, Asks, chooseInput, chooseAgain, Chosen, NoPath, Path,
                AskNumberOfLoops, printBlinkingExample, printRandomFillingExample, ExampleDone,
                Open, ExtractReturns, PlaySequence, PlayAgain, PlayDone, Crash
  <2>2. QED
    BY <2>1 DEF CycleInv, OneLedWalks
<1>4. QED
  BY <1>1, <1>2, <1>3

\* One LED walks over the two lines, on a grid of any size.
THEOREM OneLedOnly == Spec => []OneLedWalks
<1>1. Init => CycleInv
  BY DEF Init, CycleInv, OneLedWalks
<1>2. MenuTypeOK /\ CycleInv /\ [Next]_vars => CycleInv'
  BY CycleStep, CycleKept
<1>3. CycleInv => OneLedWalks
  BY DEF CycleInv
<1>4. QED
  BY <1>1, <1>2, <1>3, MenuTypesInduction, PTL DEF Spec
-----------------------------------------------------------------------------
(* The sleep between two sequences *)

\* Every delay that the walk may take from a file, or from the memory behind its tokens, fits
\* into the int that fileMenu computes from it: it is at most 2147 ms.
FirstNumber(token) == IF token.numbers = <<>> THEN 0 ELSE token.numbers[1]
ShortDelays ==
    \A file \in Files, memory \in Behind :
        LET all == file \o memory
        IN  \A i \in 1..(Len(all) - 1) :
                Spells(all[i], "Delay") /\ all[i + 1].type = "primitive" =>
                    ToUShort(FirstNumber(all[i + 1])) <= 2147

\* What is walked over is a file; what is in the list has a short delay.
WalksFile == walk # "idle" => tokens \in Files /\ behind \in Behind
ListIsShort ==
    extractedSequences # NULL =>
        \A k \in DOMAIN extractedSequences : extractedSequences[k].delay <= 2147

\* Only the first sequence of all is shown without a sleep before it.
FirstOnly ==
    menu = "play" /\ outSequences = "list" /\ (loop > 0 \/ index > 1)
        /\ Len(extractedSequences) > 0 => firstSequence = FALSE

SleepInv == WalksFile /\ ListIsShort /\ FirstOnly /\ SleepsBetweenSequences

\* A delay that the walk takes is one of those.
LEMMA DelayRead ==
    ASSUME ShortDelays, PlacesOK, tokens \in Files, behind \in Behind,
           NEW i \in Nat, Reads(i, "Delay"), Tok(i + 1).type = "primitive"
    PROVE  ToUShort(Atoi(i + 1)) <= 2147
<1> DEFINE all == tokens \o behind
<1>1. tokens \in Seq(Token) /\ behind \in Seq(Token)
  BY JsonAssumption DEF PlacesOK
<1>2. /\ all \in Seq(Token) /\ Len(all) = Len(tokens) + Len(behind)
      /\ \A k \in 1..Len(tokens) : all[k] = tokens[k]
      /\ \A k \in 1..Len(behind) : all[Len(tokens) + k] = behind[k]
  BY <1>1, ConcatProperties
<1>3. \A k \in 1..(Len(all) - 1) :
          Spells(all[k], "Delay") /\ all[k + 1].type = "primitive" =>
              ToUShort(FirstNumber(all[k + 1])) <= 2147
  BY DEF ShortDelays
<1> HIDE DEF all
<1>4. Len(tokens) \in Nat /\ Len(behind) \in Nat
  BY <1>1, LenProperties
<1>5. ASSUME NEW k \in Nat, Tok(k).type # "undefined"
      PROVE  k < Len(all) /\ Tok(k) = all[k + 1]
  <2>1. CASE k < Len(tokens)
    <3>1. k + 1 \in 1..Len(tokens) /\ k < Len(all)
      BY <1>2, <1>4, <2>1
    <3>2. QED
      BY <1>2, <2>1, <3>1 DEF Tok
  <2>2. CASE ~(k < Len(tokens)) /\ k - Len(tokens) < Len(behind)
    <3>1. /\ k - Len(tokens) + 1 \in 1..Len(behind)
          /\ Len(tokens) + (k - Len(tokens) + 1) = k + 1
          /\ k < Len(all)
      BY <1>2, <1>4, <2>2
    <3>2. all[k + 1] = behind[k - Len(tokens) + 1]
      BY <1>2, <3>1
    <3>3. QED
      BY <2>2, <3>1, <3>2 DEF Tok
  <2>3. CASE ~(k < Len(tokens)) /\ ~(k - Len(tokens) < Len(behind))
    BY <1>5, <2>3 DEF Tok, NoToken
  <2>4. QED
    BY <2>1, <2>2, <2>3
<1>6. Tok(i) = all[i + 1]
  BY <1>5 DEF Reads
<1>7. i + 1 < Len(all) /\ Tok(i + 1) = all[i + 1 + 1]
  BY <1>5
<1>8. i + 1 \in 1..(Len(all) - 1)
  BY <1>2, <1>4, <1>7
<1>9. ToUShort(FirstNumber(all[i + 1 + 1])) <= 2147
  BY <1>3, <1>6, <1>7, <1>8 DEF Spells, Reads
<1>10. QED
  BY <1>7, <1>9 DEF Atoi, FirstNumber

\* A step of the parser keeps what it walks over, and adds no long delay.
LEMMA WalksFileStep ==
    ASSUME WalksFile, JsonNext
    PROVE  WalksFile'
<1>1. CASE (\E allocated \in BOOLEAN : initLEDSequences(allocated)) \/ freeLEDSequences
  BY <1>1 DEF WalksFile, initLEDSequences, freeLEDSequences
<1>2. CASE \E file \in Files : extractRGBFromFile(file)
  BY <1>2 DEF WalksFile, extractRGBFromFile, NothingToWalk, Refused, BeginWalk
<1>3. CASE WalkStep
  BY <1>3 DEF WalksFile, WalkStep, TopToken, SequenceRefused, SequenceAdded, SequenceWithoutLeds,
              SequenceNotAllocated, SequencesDone, LedRefused, LedAdded, LedNotAllocated, LedLost,
              LedsDone, Extracted, Return, cursor
<1>4. QED
  BY <1>1, <1>2, <1>3 DEF JsonNext

LEMMA ListIsShortStep ==
    ASSUME ShortDelays, JsonInv, WalksFile, ListIsShort, JsonNext
    PROVE  ListIsShort'
<1>1. CASE \E allocated \in BOOLEAN : initLEDSequences(allocated)
  <2>1. extractedSequences' \in {<<>>, NULL}
    BY <1>1 DEF initLEDSequences
  <2>2. DOMAIN <<>> = {}
    OBVIOUS
  <2>3. QED
    BY <2>1, <2>2 DEF ListIsShort
<1>2. CASE \/ freeLEDSequences
           \/ SequenceRefused \/ SequenceWithoutLeds \/ SequenceNotAllocated
           \/ LedRefused \/ LedNotAllocated
  BY <1>2 DEF ListIsShort, freeLEDSequences, SequenceRefused, SequenceWithoutLeds, AddFails,
              SequenceNotAllocated, LedRefused, LedNotAllocated, Release
<1>3. CASE \/ \E file \in Files : extractRGBFromFile(file)
           \/ TopToken \/ SequencesDone \/ LedLost \/ LedsDone \/ Extracted
  BY <1>3 DEF ListIsShort, extractRGBFromFile, NothingToWalk, Refused, BeginWalk, TopToken,
              SequencesDone, LedLost, LedsDone, Extracted, statics
<1>4. CASE SequenceAdded
  <2> DEFINE list == IF extractedSequences = NULL THEN <<>> ELSE extractedSequences
             new == [delay |-> ToUShort(Atoi(tokenIndex + 3)), sequenceLength |-> 0,
                     ledToChange |-> <<>>]
  <2>1. ToUShort(Atoi(tokenIndex + 3)) <= 2147
    <3>1. tokenIndex + 2 \in Nat /\ tokenIndex + 2 + 1 = tokenIndex + 3
      BY DEF JsonInv, PlacesOK
    <3>2. Reads(tokenIndex + 2, "Delay") /\ Tok(tokenIndex + 2 + 1).type = "primitive"
      BY <1>4, <3>1 DEF SequenceAdded, SequenceAt
    <3>3. tokens \in Files /\ behind \in Behind /\ PlacesOK
      BY <1>4 DEF SequenceAdded, WalksFile, JsonInv
    <3>4. QED
      BY <3>1, <3>2, <3>3, DelayRead
  <2>2. extractedSequences' = Append(list, new)
    BY <1>4 DEF SequenceAdded, addNewSequence, Grown
  <2>3. list \in Seq(LEDSequence) /\ \A k \in 1..Len(list) : list[k].delay <= 2147
    <3>1. CASE extractedSequences = NULL
      BY <3>1, EmptySeq
    <3>2. CASE extractedSequences # NULL
      BY <3>2 DEF ListIsShort, JsonInv, ListOK
    <3>3. QED
      BY <3>1, <3>2
  <2>4. new.delay <= 2147
    BY <2>1
  <2> HIDE DEF list, new
  <2>5. /\ DOMAIN Append(list, new) = 1..(Len(list) + 1) /\ Len(list) \in Nat
        /\ \A k \in 1..Len(list) : Append(list, new)[k] = list[k]
        /\ Append(list, new)[Len(list) + 1] = new
    BY <2>3
  <2>6. \A k \in 1..(Len(list) + 1) : Append(list, new)[k].delay <= 2147
    BY <2>3, <2>4, <2>5
  <2>7. QED
    BY <2>2, <2>5, <2>6 DEF ListIsShort
<1>5. CASE LedAdded
  <2> DEFINE list == extractedSequences
             c == numberOfSequences
             led == LedOf(tokenIndex + 2)
             longer == [list[c] EXCEPT !.sequenceLength = @ + 1, !.ledToChange = Append(@, led)]
  <2>1. list \in Seq(LEDSequence) /\ list # NULL /\ c \in 1..Len(list)
    BY <1>5 DEF LedAdded, JsonInv, HasSequence, ListOK, CountersAgree
  <2>2. list[c] \in LEDSequence
    BY <2>1, ElementOfSeq
  <2>3. longer.delay = list[c].delay
    BY <2>2 DEF LEDSequence
  <2>4. extractedSequences' = [list EXCEPT ![c] = longer]
    BY <1>5 DEF LedAdded, appendToCurrentSequence, CurrentSequence
  <2> HIDE DEF longer
  <2>5. \A k \in DOMAIN list : list[k].delay <= 2147
    BY <2>1 DEF ListIsShort
  <2>6. QED
    BY <2>1, <2>3, <2>4, <2>5 DEF ListIsShort
<1>6. QED
  BY <1>1, <1>2, <1>3, <1>4, <1>5 DEF JsonNext, WalkStep

\* Up to 2147 ms, nanosleep is asked for the delay itself, and takes that long.
LEMMA SequenceShown ==
    ASSUME MenuTypeOK, JsonInv, PlayIndex, ListIsShort, FirstOnly, PlaySequence
    PROVE  FirstOnly' /\ SleepsBetweenSequences'
<1>1. /\ menu = "play" /\ outSequences = "list" /\ index \in Nat /\ index >= 1 /\ loop \in Nat
      /\ index <= Len(extractedSequences)
      /\ index' = index + 1 /\ loop' = loop /\ extractedSequences' = extractedSequences
  BY DEF PlaySequence, PlayIndex, MenuTypeOK, jsonVars, statics
<1>2. firstSequence' = FALSE
  BY Zenon DEF PlaySequence
<1>3. FirstOnly'
  BY <1>2, Zenon DEF FirstOnly
<1>4. extractedSequences # NULL /\ extractedSequences \in Seq(LEDSequence)
  BY <1>1 DEF JsonInv, HandedOut, ListOK
<1>5. Sequence.delay <= 2147
  <2>1. index \in DOMAIN extractedSequences
    BY <1>1, <1>4
  <2>2. QED
    BY <1>4, <2>1 DEF ListIsShort, Sequence
<1>6. ASSUME loop' + index' > 2
      PROVE  pause' = Sequence.delay
  <2>1. (loop > 0 \/ index > 1) /\ Len(extractedSequences) > 0
    BY <1>1, <1>4, <1>6
  <2>2. firstSequence = FALSE
    BY <1>1, <2>1, Zenon DEF FirstOnly
  <2>3. BeforeSequence
    BY DEF PlaySequence
  <2>4. pause' \in Sleeps(Sequence.delay)
    BY <2>2, <2>3, Zenon DEF BeforeSequence
  <2>5. QED
    BY <1>5, <2>4 DEF Sleeps
<1>7. index' - 1 = index
  BY <1>1
<1>8. SleepsBetweenSequences'
  BY <1>1, <1>6, <1>7 DEF SleepsBetweenSequences, Sequence
<1>9. QED
  BY <1>3, <1>8

\* The playback starts over, with what is in the list already shown once; nobody else is in it.
LEMMA PlaybackStep ==
    ASSUME MenuTypeOK, JsonInv, PlayIndex, FirstOnly, SleepsBetweenSequences,
           [Next]_vars, ~PlaySequence
    PROVE  FirstOnly' /\ SleepsBetweenSequences'
<1>1. CASE PlayAgain
  <2>1. /\ menu = "play" /\ outSequences = "list" /\ index > Len(extractedSequences)
        /\ index' = 1 /\ extractedSequences' = extractedSequences
        /\ firstSequence' = firstSequence
    BY <1>1, Zenon DEF PlayAgain, jsonVars, statics, playing
  <2>2. Len(extractedSequences) > 0 => index > 1
    BY <2>1 DEF MenuTypeOK, JsonInv, HandedOut, ListOK
  <2>3. FirstOnly'
    BY <2>1, <2>2, Zenon DEF FirstOnly
  <2>4. ~(index' > 1)
    BY <2>1
  <2>5. QED
    BY <2>3, <2>4, Zenon DEF SleepsBetweenSequences
<1>2. CASE AskNumberOfLoops
  <2>1. ~(loop' > 0) /\ ~(index' > 1)
    BY <1>2 DEF AskNumberOfLoops
  <2>2. QED
    BY <2>1, Zenon DEF FirstOnly, SleepsBetweenSequences
<1>3. CASE Ended \/ UNCHANGED vars
  BY <1>3, Zenon DEF Ended, vars, jsonVars, statics, menuVars, loops, playing, FirstOnly,
                     SleepsBetweenSequences
<1>4. CASE Next /\ ~PlayAgain /\ ~AskNumberOfLoops /\ ~Ended
  <2>1. menu' # "play"
    BY <1>4 DEF Next, Works, Asks, chooseInput, chooseAgain, Chosen, exampleMenu, Example, NoPath,
                Path, printBlinkingExample, printCyclingExample, printRandomFillingExample,
                ExampleDone, Open, Extract, menuVars, ExtractReturns, PlayDone, Crash
  <2>2. QED
    BY <2>1, Zenon DEF FirstOnly, SleepsBetweenSequences
<1>5. QED
  BY <1>1, <1>2, <1>3, <1>4

\* Between two sequences the program sleeps for the delay of the second, in every loop, when no
\* file asks for more than 2147 ms: the product that fileMenu computes is an int.
THEOREM ShortSleepsAreKept ==
    ASSUME ShortDelays
    PROVE  Spec => []SleepsBetweenSequences
<1>1. Init => SleepInv
  BY DEF Init, JsonInit, SleepInv, WalksFile, ListIsShort, FirstOnly, SleepsBetweenSequences
<1>2. MenuTypeOK /\ PlayIndex /\ JsonInv /\ SleepInv /\ [Next]_vars => SleepInv'
  <2>1. SUFFICES ASSUME MenuTypeOK, PlayIndex, JsonInv, SleepInv, [Next]_vars PROVE SleepInv'
    OBVIOUS
  <2>2. WalksFile' /\ ListIsShort'
    <3>1. CASE JsonNext
      BY <2>1, <3>1, WalksFileStep, ListIsShortStep DEF SleepInv
    <3>2. CASE UNCHANGED jsonVars
      BY <2>1, <3>2 DEF SleepInv, WalksFile, ListIsShort, jsonVars, statics, cursor
    <3>3. [JsonNext]_jsonVars
      BY <2>1, StepOfParser DEF vars
    <3>4. QED
      BY <3>1, <3>2, <3>3
  <2>3. FirstOnly' /\ SleepsBetweenSequences'
    BY <2>1, SequenceShown, PlaybackStep DEF SleepInv
  <2>4. QED
    BY <2>2, <2>3 DEF SleepInv
<1>3. SleepInv => SleepsBetweenSequences
  BY DEF SleepInv
<1>4. Spec => []JsonInv
  BY MenusUseTheParser, JsonInduction, PTL
<1>5. QED
  BY <1>1, <1>2, <1>3, <1>4, MenuTypesInduction, PTL DEF Spec
=============================================================================
