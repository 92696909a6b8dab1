------------------------------ MODULE LEDInput ------------------------------
(***************************************************************************)
(* LEDInput.c: the menus, the three examples and the playback of a JSON    *)
(* file.  What translateToOutput does with a sequence is taken from        *)
(* LedDisplay, which LedSystem implements; the file is read by JSONToLeds. *)
(*                                                                         *)
(* fgets is never checked: at the end of the input a buffer keeps the line *)
(* that was typed last, or was never written, so that a step that reads a  *)
(* line covers that too.                                                   *)
(***************************************************************************)
EXTENDS JSONToLeds

CONSTANTS
    Rows, Columns,     \* what getRowSize and getColumnSize return
    Answers,           \* the numbers that users type
    RandomColours,     \* what rand may give
    VisitBound         \* bound: examples and files started

ASSUME InputAssumption ==
    /\ Rows \in UShort \ {0} /\ Columns \in UShort \ {0}
    /\ Answers \subseteq Int
    /\ RandomColours \subseteq Byte \X Byte \X Byte
    /\ VisitBound \in Nat

VARIABLES
    menu,              \* where the program is
    inputChoice,       \* of exampleMenu: the example to run
    loop, index,       \* the counters of the loops that show something
    remaining,         \* nbrOfLEDsToGenerate
    randomColor,
    numberOfLoops,     \* of fileMenu
    firstSequence,
    pause,             \* how long the last nanosleep of the playback took, in ms
    picture,           \* what the LEDs show
    visits

loops == <<loop, index, remaining, randomColor>>
playing == <<numberOfLoops, firstSequence, pause>>
menuVars == <<menu, inputChoice, loops, playing, picture, visits>>
vars == <<jsonVars, menuVars>>

Off == <<0, 0, 0>>

Display == INSTANCE LedDisplay WITH
    Black <- Off, Colours <- Byte \X Byte \X Byte, Anywhere <- UShortMax, Requests <- {},
    Sizes <- {<<Rows, Columns>>}, rows <- Rows, columns <- Columns,
    on <- TRUE, linked <- TRUE, promised <- <<>>, shown <- picture

translateToOutput(leds) == picture' = Display!Painted(picture, leds)

Colour(position, colour, columns) ==
    [row |-> position \div columns, column |-> position % columns, colour |-> colour]

-----------------------------------------------------------------------------
(* Menus *)

\* sscanf("%d") into a variable: a line without a number leaves it as it was.
Parsed(old) == Answers \cup {old}

\* The switch of beginConsoleInput; manual and network input do nothing yet, and a number
\* above the last entry is asked for again.
Chosen(choice) ==
    CASE choice < 0  -> "left"
      [] choice = 0  -> "examples"
      [] choice = 2  -> "path"
      [] choice > 3  -> "again"
      [] OTHER       -> "main"

\* chooseInput starts from 0 ...
chooseInput ==
    /\ menu = "main"
    /\ \E choice \in Parsed(0) : menu' = Chosen(choice)
    /\ inputChoice' = 0
    /\ UNCHANGED <<jsonVars, loops, playing, picture, visits>>

\* ... and asks until the number is small enough; a line without a number leaves it too large.
chooseAgain ==
    /\ menu = "again"
    /\ \E choice \in Answers : menu' = Chosen(choice)
    /\ UNCHANGED <<jsonVars, inputChoice, loops, playing, picture, visits>>

Example(choice) ==
    CASE choice = 0 -> "blink" [] choice = 1 -> "cycle" [] choice = 2 -> "fill"

\* One turn of exampleMenu, up to the call of the example.  A line without a number runs the
\* example of the line before again.
exampleMenu ==
    /\ menu = "examples"
    /\ inputChoice' \in Parsed(inputChoice)
    /\ IF inputChoice' \in 0..2
         THEN /\ visits < VisitBound
              /\ visits' = visits + 1
              /\ menu' = Example(inputChoice')
         ELSE /\ menu' = IF inputChoice' < 0 THEN "main" ELSE "examples"
              /\ UNCHANGED visits
    /\ loop' = 0 /\ index' = 0
    /\ remaining' = IF inputChoice' = 2 THEN ToUShort(Rows * Columns) ELSE 0
    /\ IF inputChoice' = 2 THEN randomColor' \in RandomColours ELSE UNCHANGED randomColor
    /\ UNCHANGED <<jsonVars, playing, picture>>

-----------------------------------------------------------------------------
(* Examples.  Every turn of a loop ends with translateToOutput and nanosleep. *)

\* printBlinkingExample: the second LED of the first line, on and off ten times.
printBlinkingExample ==
    /\ menu = "blink" /\ index < 20
    /\ translateToOutput(<<[row |-> 0, column |-> 1,
                            colour |-> IF index % 2 = 0 THEN <<255, 100, 0>> ELSE Off]>>)
    /\ index' = index + 1
    /\ UNCHANGED <<jsonVars, menu, inputChoice, loop, remaining, randomColor, playing, visits>>

\* Of the two loops over positions: the LED before the one that is lit.  A slip (mutant):
\* nobody turns off the last LED when the loop starts again.
CycleNoWrap(position) == IF position = 0 THEN 0 ELSE position - 1
CyclePrevious(position) == IF position = 0 THEN 9 ELSE position - 1

\* printCyclingExample: one LED walks five times over two lines of five.
printCyclingExample ==
    /\ menu = "cycle" /\ loop < 5
    /\ translateToOutput(<<Colour(CyclePrevious(index), Off, 5), Colour(index, <<165, 242, 243>>, 5)>>)
    /\ index' = (index + 1) % 10
    /\ loop' = IF index = 9 THEN loop + 1 ELSE loop
    /\ UNCHANGED <<jsonVars, menu, inputChoice, remaining, randomColor, playing, visits>>

\* The colour of a pass, bright enough to be seen, and how many positions the next pass has;
\* a slip for each.
AsDrawn(colour) == colour
Brightened(colour) == IF colour[1] + colour[2] + colour[3] < 30 THEN <<15, 15, 15>> ELSE colour

SameAgain(positions) == positions
OneLess(positions) == positions - 1

\* printRandomFillingExample: an LED runs to the last dark position and stays there, until
\* every position is lit.
printRandomFillingExample ==
    /\ menu = "fill" /\ remaining > 0
    /\ LET previous == IF index = 0 THEN 0 ELSE index - 1
       IN  translateToOutput(<<Colour(previous, Off, Columns),
                               Colour(index, Brightened(randomColor), Columns)>>)
    /\ IF index + 1 = remaining
         THEN /\ index' = 0 /\ remaining' = OneLess(remaining)
              /\ randomColor' \in RandomColours
         ELSE /\ index' = index + 1
              /\ UNCHANGED <<remaining, randomColor>>
    /\ UNCHANGED <<jsonVars, menu, inputChoice, loop, playing, visits>>

ExampleOver ==
    \/ menu = "blink" /\ index = 20
    \/ menu = "cycle" /\ loop = 5
    \/ menu = "fill" /\ remaining = 0

\* The locals of a function that is not running are as they were at the start.
LoopsOver == loop' = 0 /\ index' = 0 /\ remaining' = 0 /\ randomColor' = Off

ExampleDone ==
    /\ ExampleOver
    /\ menu' = "examples"
    /\ LoopsOver
    /\ UNCHANGED <<jsonVars, inputChoice, playing, picture, visits>>

-----------------------------------------------------------------------------
(* fileMenu *)

\* The user enters nothing, or there is no memory for the path.  (filePath is then a block
\* that nobody wrote: if it happens not to be empty, it is a path like any other.)
NoPath ==
    /\ menu = "path"
    /\ menu' = "main"
    /\ UNCHANGED <<jsonVars, inputChoice, loops, playing, picture, visits>>

Path ==
    /\ menu = "path"
    /\ visits < VisitBound
    /\ visits' = visits + 1
    /\ \E allocated \in BOOLEAN : initLEDSequences(allocated)
    /\ menu' = "open"
    /\ UNCHANGED <<inputChoice, loops, playing, picture>>

Open ==
    /\ menu = "open"
    /\ \E file \in Files : extractRGBFromFile(file)
    /\ menu' = "extract"
    /\ UNCHANGED <<inputChoice, loops, playing, picture, visits>>

Extract ==
    /\ menu = "extract"
    /\ WalkStep
    /\ UNCHANGED menuVars

\* extractRGBFromFile has returned; sequencesToShow is only looked at when it returned 0.
ExtractReturns ==
    /\ menu = "extract" /\ walk = "idle"
    /\ menu' = IF result = 0 THEN "times" ELSE "main"
    /\ UNCHANGED <<jsonVars, inputChoice, loops, playing, picture, visits>>

AskNumberOfLoops ==
    /\ menu = "times"
    /\ numberOfLoops' \in Parsed(0)
    /\ firstSequence' = TRUE
    /\ loop' = 0 /\ index' = 1
    /\ pause' = 0
    /\ menu' = "play"
    /\ UNCHANGED <<jsonVars, inputChoice, remaining, randomColor, picture, visits>>

\* delay * 1000000 is an int: above 2147 it overflows.  The processor's product has 32 bits and
\* a sign, nanosleep refuses a negative one and does not sleep; a compiler may also compute it
\* in the long that it is stored in.  In units of 64 ns, so that TLC's integers hold it.
Slept(delay) ==
    LET product == (delay * 15625) % 67108864
    IN  IF product < 33554432 THEN product \div 15625 ELSE 0
Sleeps(delay) == IF delay <= 2147 THEN {delay} ELSE {delay, Slept(delay)}

Sequence == extractedSequences[index]

\* The sleep before it: none before the first of all.  A slip: none in the second loop either.
SleepOnlyInFirstLoop == IF firstSequence \/ loop > 0 THEN pause' = pause ELSE pause' \in Sleeps(Sequence.delay)
BeforeSequence == IF firstSequence THEN pause' = pause ELSE pause' \in Sleeps(Sequence.delay)

\* One sequence of the list is shown, after the sleep before it.
PlaySequence ==
    /\ menu = "play" /\ loop < numberOfLoops
    /\ outSequences = "list" /\ index <= Len(extractedSequences)
    /\ BeforeSequence
    /\ firstSequence' = FALSE
    /\ translateToOutput(SubSeq(Sequence.ledToChange, 1, Sequence.sequenceLength))
    /\ index' = index + 1
    /\ UNCHANGED <<jsonVars, menu, inputChoice, loop, remaining, randomColor, numberOfLoops, visits>>

\* The list is played again; a slip: it is freed first.
FreeAndPlayAgain ==
    /\ menu = "play" /\ loop < numberOfLoops
    /\ outSequences = "list" /\ index > Len(extractedSequences)
    /\ loop' = loop + 1 /\ index' = 1
    /\ freeLEDSequences
    /\ UNCHANGED <<menu, inputChoice, remaining, randomColor, playing, picture, visits>>

PlayAgain ==
    /\ menu = "play" /\ loop < numberOfLoops
    /\ outSequences = "list" /\ index > Len(extractedSequences)
    /\ loop' = loop + 1 /\ index' = 1
    /\ UNCHANGED <<jsonVars, menu, inputChoice, remaining, randomColor, playing, picture, visits>>

PlayDone ==
    /\ menu = "play" /\ loop >= numberOfLoops
    /\ freeLEDSequences
    /\ menu' = "main"
    /\ LoopsOver
    /\ numberOfLoops' = 0 /\ firstSequence' = TRUE /\ pause' = 0
    /\ UNCHANGED <<inputChoice, picture, visits>>

\* sequencesToShow[0] is read through a NULL pointer, or extractRGBFromString went astray: the
\* program is at the end of what C defines.
Crash ==
    /\ \/ menu = "extract" /\ walk = "undefined"
       \/ menu = "play" /\ loop < numberOfLoops /\ outSequences = "null"
    /\ menu' = "crashed"
    /\ UNCHANGED <<jsonVars, inputChoice, loops, playing, picture, visits>>

-----------------------------------------------------------------------------

Init ==
    /\ JsonInit
    /\ menu = "main"
    /\ inputChoice = 0
    /\ loop = 0 /\ index = 0 /\ remaining = 0 /\ randomColor = Off
    /\ numberOfLoops = 0 /\ firstSequence = TRUE /\ pause = 0
    /\ picture = Display!Blank
    /\ visits = 0

\* What the program does by itself; the others wait for a line.
Works ==
    \/ printBlinkingExample \/ printCyclingExample \/ printRandomFillingExample \/ ExampleDone
    \/ Open \/ Extract \/ ExtractReturns
    \/ PlaySequence \/ PlayAgain \/ PlayDone \/ Crash

Asks == chooseInput \/ chooseAgain \/ exampleMenu \/ NoPath \/ Path \/ AskNumberOfLoops

Ended == menu \in {"left", "crashed"} /\ UNCHANGED vars

Next == Works \/ Asks \/ Ended

Spec == Init /\ [][Next]_vars

\* Whatever does not wait for the user goes on by itself.
FairSpec == Spec /\ WF_vars(Works)

-----------------------------------------------------------------------------
(* Properties *)

Menus == {"main", "again", "examples", "blink", "cycle", "fill", "path", "open", "extract",
          "times", "play", "left", "crashed"}

TypeOK ==
    /\ JsonTypeOK
    /\ menu \in Menus
    /\ inputChoice \in Answers \cup {0}
    /\ loop \in Nat /\ index \in Nat /\ remaining \in UShort
    /\ randomColor \in Byte \X Byte \X Byte
    /\ numberOfLoops \in Int /\ firstSequence \in BOOLEAN /\ pause \in UShort
    /\ picture \in [Display!Positions -> Byte \X Byte \X Byte]
    /\ visits \in Nat

\* The file that is played is still in memory: nothing frees it between the moment
\* extractRGBFromFile hands it out and the end of the last loop (fileMenu).
PlaysLiveList == menu \in {"times", "play"} => outSequences \in {"list", "null"} /\ walk = "idle"

Lit(position, columns) == picture[<<position \div columns, position % columns>>] # Off
Shown(position, columns) == position \div columns < Rows /\ position % columns < Columns

\* In the cycling example the LED that was lit last is the only one of those the loop has
\* passed: behind it the line is dark, and from the second loop on the line ahead of it too,
\* on a grid of any size (printCyclingExample).
OneLedWalks ==
    menu = "cycle" /\ (index > 0 \/ loop > 0) =>
        LET last == IF index = 0 THEN 9 ELSE index - 1
        IN  \A p \in 0..9 :
                Shown(p, 5) /\ (p <= last \/ loop > 0) => (Lit(p, 5) <=> p = last)

\* The random filling never gives up a position it has filled, and ends with every LED of the
\* grid lit, whatever was shown before and whatever rand gives (printRandomFillingExample);
\* on grids whose LEDs an unsigned short counts.
FillsTheGrid ==
    menu = "fill" /\ Rows * Columns <= UShortMax =>
        \A p \in remaining..(Rows * Columns - 1) : Lit(p, Columns)

\* "The delay value will be used to put some sleep between different sequences"
\* (LedRGB.h:51): between two sequences the program sleeps for the delay of the second.
SleepsBetweenSequences ==
    menu = "play" /\ outSequences = "list" /\ loop + index > 2 /\ index > 1 =>
        pause = extractedSequences[index - 1].delay

\* Every example, the reading of every file and its playback come to an end: the user is asked
\* again, or the program has crashed (the loops of the examples, of extractRGBFromString and of
\* fileMenu).
MenuComesBack ==
    menu \in {"blink", "cycle", "fill", "open", "play"} ~>
        menu \in {"main", "examples", "times", "crashed"}
=============================================================================
