----------------------------- MODULE JSONToLeds -----------------------------
(***************************************************************************)
(* JSONToLeds.c: from the tokens of a JSON file to a list of sequences.    *)
(* The list, whether it is initialised, and how long it is are statics     *)
(* that live from call to call; the walk over the tokens is one action per *)
(* turn of each of its three loops.  Indices into the token list count     *)
(* from 0, as in the code.                                                 *)
(***************************************************************************)
EXTENDS JsonFormat, FiniteSets

CONSTANTS
    NULL,
    Documents,     \* well-formed files
    OtherFiles,    \* the token lists of other files that jsmn accepts
    Behind,        \* what may lie in memory behind a token list: sequences of tokens
    MallocFails    \* whether malloc and realloc may fail

ASSUME JsonAssumption ==
    /\ NULL \notin Seq(LEDSequence)
    /\ Documents \subseteq Document
    /\ \A d \in Documents : WellFormed(d)
    /\ OtherFiles \subseteq Seq(Token)
    /\ Behind \subseteq Seq(Token) /\ Behind # {}
    /\ MallocFails \in BOOLEAN
    /\ LengthMax \in Nat \ {0}

OPEN_FILE_ERROR == -1
CLOSE_FILE_ERROR == -2
ALLOCATION_ERROR == -3
INVALID_JSON == -4
LEDSEQUENCES_NOT_INITIALIZED == -5

VARIABLES
    extractedSequences, isInitialized, numberOfSequences,   \* the statics
    lists, arrays,     \* blocks allocated: for extractedSequences, and for ledToChange
    walk,              \* the loop that extractRGBFromString is in; "idle" when nobody is in it;
                       \* "undefined" once it did what C does not define
    tokens, behind,    \* tokenList, kept until the next call, and the memory that follows it
    tokenIndex,
    seqLeft, ledLeft,  \* turns left of the loops over seqIndex and ledIndex
    result,            \* what the last call returned
    outSequences       \* what the caller's pointer is: untouched, the list, null, or dangling

statics == <<extractedSequences, isInitialized, numberOfSequences, lists, arrays>>
places == <<tokenIndex, seqLeft, ledLeft>>
cursor == <<tokens, behind, places>>
jsonVars == <<statics, cursor, walk, result, outSequences>>

-----------------------------------------------------------------------------
(* Reading a token.  Whatever follows the list in memory is read as a token too. *)

NoToken == [type |-> "undefined", text |-> "other", numbers |-> <<0>>, size |-> 0]

Tok(i) ==
    IF i < Len(tokens) THEN tokens[i + 1]
    ELSE IF i - Len(tokens) < Len(behind) THEN behind[i - Len(tokens) + 1]
    ELSE NoToken

\* strTokenCompare: the token is the string text.
Reads(i, text) == Tok(i).type = "string" /\ Tok(i).text = text

Atoi(i) == IF Tok(i).numbers = <<>> THEN 0 ELSE Tok(i).numbers[1]

\* The object of an LED, whose first key is token i: Addr, R, G and B in this order.
LedAt(i) ==
    /\ Reads(i, "Addr") /\ Tok(i + 1).type = "string"
    /\ Reads(i + 2, "R") /\ Tok(i + 3).type = "primitive"
    /\ Reads(i + 4, "G") /\ Tok(i + 5).type = "primitive"
    /\ Reads(i + 6, "B") /\ Tok(i + 7).type = "primitive"

\* Its address is ALL, or two pieces.
AddressAt(i) == Tok(i).text = "ALL" \/ Len(Tok(i).numbers) >= 2

\* A slip (mutant): the casts are missing.
LedWithoutCasts(i) ==
    LET address == Tok(i + 1)
    IN  [row    |-> IF address.text = "ALL" THEN UShortMax ELSE address.numbers[1],
         column |-> IF address.text = "ALL" THEN UShortMax ELSE address.numbers[2],
         colour |-> <<LowByte(Atoi(i + 3)), LowByte(Atoi(i + 5)), LowByte(Atoi(i + 7))>>]

\* The AddressableLED it describes: ALL is the address that names every LED, (Byte) atoi(...)
\* keeps the low byte, (unsigned short) atoi(...) the low two.
LedOf(i) ==
    LET address == Tok(i + 1)
        all == address.text = "ALL"
    IN  [row    |-> IF all THEN UShortMax ELSE ToUShort(address.numbers[1]),
         column |-> IF all THEN UShortMax ELSE ToUShort(address.numbers[2]),
         colour |-> <<LowByte(Atoi(i + 3)), LowByte(Atoi(i + 5)), LowByte(Atoi(i + 7))>>]

-----------------------------------------------------------------------------
(* The list *)

WithArray(list) == {i \in DOMAIN list : list[i].ledToChange # <<>>}
Blocks(list) == IF list = NULL THEN 0 ELSE 1
ArrayBlocks(list) == IF list = NULL THEN 0 ELSE Cardinality(WithArray(list))

\* Two slips (mutants): numberOfSequences is not reset, the arrays are not freed.
ReleaseKeepingCount ==
    /\ extractedSequences' = NULL
    /\ numberOfSequences' = numberOfSequences
    /\ lists' = lists - Blocks(extractedSequences)
    /\ arrays' = arrays - ArrayBlocks(extractedSequences)
ReleaseListOnly ==
    /\ extractedSequences' = NULL
    /\ numberOfSequences' = 0
    /\ lists' = lists - Blocks(extractedSequences)
    /\ arrays' = arrays

\* What freeLEDSequences does to the statics: the arrays and the list go back to the heap,
\* isInitialized stays.  (The LEDSequences and the AddressableLEDs stay allocated for ever.)
Release ==
    /\ extractedSequences' = NULL
    /\ numberOfSequences' = 0
    /\ lists' = lists - Blocks(extractedSequences)
    /\ arrays' = arrays - ArrayBlocks(extractedSequences)

\* What that does to the pointer of a caller that holds the list.
Dangle == outSequences' = IF outSequences = "list" THEN "dangling" ELSE outSequences

freeLEDSequences ==
    /\ walk = "idle"
    /\ Release /\ Dangle
    /\ UNCHANGED <<isInitialized, cursor, walk, result>>

\* The old list is freed, and a new one is made that holds only the NULL at its end.
initLEDSequences(allocated) ==
    /\ walk = "idle"
    /\ allocated \/ MallocFails
    /\ Dangle
    /\ arrays' = arrays - ArrayBlocks(extractedSequences)
    /\ numberOfSequences' = 0
    /\ IF allocated
         THEN /\ extractedSequences' = <<>>
              /\ lists' = lists - Blocks(extractedSequences) + 1
              /\ isInitialized' = TRUE
         ELSE /\ extractedSequences' = NULL
              /\ lists' = lists - Blocks(extractedSequences)
              /\ UNCHANGED isInitialized
    /\ UNCHANGED <<cursor, walk, result>>

\* The list grows by one.  After an initLEDSequences that found no memory there is none to
\* grow: realloc of NULL then makes one.
Grown(sequence) ==
    Append(IF extractedSequences = NULL THEN <<>> ELSE extractedSequences, sequence)

addNewSequence(delay) ==
    /\ isInitialized' = FALSE
    /\ numberOfSequences' = numberOfSequences + 1
    /\ extractedSequences' =
           Grown([delay |-> ToUShort(delay), sequenceLength |-> 0, ledToChange |-> <<>>])
    /\ lists' = lists - Blocks(extractedSequences) + 1
    /\ UNCHANGED arrays

\* The same without memory: everything is freed.
AddFails == MallocFails /\ isInitialized' = FALSE /\ Release

\* The sequence that was added last; a slip: the first one.
FirstSequence == 1
CurrentSequence == numberOfSequences

\* The LED goes to its end.
appendToCurrentSequence(led) ==
    LET sequence == extractedSequences[CurrentSequence]
        longer == [sequence EXCEPT !.sequenceLength = @ + 1, !.ledToChange = Append(@, led)]
    IN  /\ extractedSequences' = [extractedSequences EXCEPT ![CurrentSequence] = longer]
        /\ arrays' = IF sequence.ledToChange = <<>> THEN arrays + 1 ELSE arrays
        /\ UNCHANGED <<isInitialized, numberOfSequences, lists>>

\* sequenceLength is an unsigned short: after LengthMax LEDs it becomes 0, and the LED would be
\* written in front of an array shrunk to one pointer.
LengthWraps == extractedSequences[CurrentSequence].sequenceLength = LengthMax

-----------------------------------------------------------------------------
(* extractRGBFromFile and extractRGBFromString, up to the walk *)

\* The calls that return before they have tokens.
Refused(code) ==
    /\ result' = code
    /\ tokens' = <<>>
    /\ UNCHANGED <<statics, behind, places, walk>>

\* The file cannot be opened, read into memory or closed; the list is not initialised; the
\* text is no JSON, has no token, or does not start with an object.
NothingToWalk ==
    \/ Refused(OPEN_FILE_ERROR)
    \/ Refused(CLOSE_FILE_ERROR)
    \/ MallocFails /\ Refused(ALLOCATION_ERROR)
    \/ ~isInitialized /\ Refused(LEDSEQUENCES_NOT_INITIALIZED)
    \/ isInitialized /\ Refused(INVALID_JSON)

\* The walk begins behind the outermost object.  The token list is used as malloc returns it,
\* NULL included.
BeginWalk(file) ==
    /\ isInitialized
    /\ file # <<>> /\ file[1].type = "object"
    /\ tokens' = file
    /\ behind' \in Behind
    /\ tokenIndex' = 1
    /\ seqLeft' = 0 /\ ledLeft' = 0
    /\ walk' = "top" \/ (MallocFails /\ walk' = "undefined")
    /\ UNCHANGED <<statics, result>>

Files == {d.tokens : d \in Documents} \cup OtherFiles

\* The caller passes a pointer that is still NULL.
extractRGBFromFile(file) ==
    /\ walk = "idle"
    /\ outSequences' = "untouched"
    /\ NothingToWalk \/ BeginWalk(file)

-----------------------------------------------------------------------------
(* The walk *)

\* The function returns, and its locals are gone.
Return(code) ==
    /\ walk' = "idle"
    /\ result' = code
    /\ behind' = <<>>
    /\ tokenIndex' = 0 /\ seqLeft' = 0 /\ ledLeft' = 0
    /\ UNCHANGED tokens

\* One token of the outer object: the value of Name and of Size is skipped, an array behind
\* Seq is entered, anything else is passed over token by token.
TopToken ==
    /\ walk = "top"
    /\ tokenIndex < Len(tokens)
    /\ LET list == Reads(tokenIndex, "Seq") /\ Tok(tokenIndex + 1).type = "array"
           skipped == Reads(tokenIndex, "Name") \/ Reads(tokenIndex, "Size")
       IN  /\ tokenIndex' = tokenIndex + (IF skipped THEN 2 ELSE 1)
           /\ walk' = IF list THEN "sequences" ELSE "top"
           /\ seqLeft' = IF list THEN Tok(tokenIndex + 1).size ELSE 0
    /\ UNCHANGED <<statics, tokens, behind, ledLeft, result, outSequences>>

\* The element of Seq behind token i starts as it should.
SequenceAt(i) ==
    /\ Tok(i + 1).type = "object"
    /\ Reads(i + 2, "Delay") /\ Tok(i + 3).type = "primitive"

LedsAt(i) == Reads(i + 4, "Led") /\ Tok(i + 5).type = "array"

SequenceRefused ==
    /\ walk = "sequences" /\ seqLeft > 0
    /\ ~SequenceAt(tokenIndex)
    /\ Release /\ UNCHANGED isInitialized
    /\ Return(INVALID_JSON)
    /\ UNCHANGED outSequences

SequenceAdded ==
    /\ walk = "sequences" /\ seqLeft > 0
    /\ SequenceAt(tokenIndex) /\ LedsAt(tokenIndex)
    /\ addNewSequence(Atoi(tokenIndex + 3))
    /\ walk' = "leds"
    /\ tokenIndex' = tokenIndex + 5
    /\ seqLeft' = seqLeft - 1
    /\ ledLeft' = Tok(tokenIndex + 5).size
    /\ UNCHANGED <<tokens, behind, result, outSequences>>

\* The sequence was added, and then no array of LEDs followed: all that was read is freed.
SequenceWithoutLeds ==
    /\ walk = "sequences" /\ seqLeft > 0
    /\ SequenceAt(tokenIndex) /\ ~LedsAt(tokenIndex)
    /\ Release /\ isInitialized' = FALSE
    /\ Return(INVALID_JSON)
    /\ UNCHANGED outSequences

SequenceNotAllocated ==
    /\ walk = "sequences" /\ seqLeft > 0
    /\ SequenceAt(tokenIndex)
    /\ AddFails
    /\ Return(ALLOCATION_ERROR)
    /\ UNCHANGED outSequences

SequencesDone ==
    /\ walk = "sequences" /\ seqLeft = 0
    /\ walk' = "top"
    /\ tokenIndex' = tokenIndex + 1
    /\ UNCHANGED <<statics, tokens, behind, seqLeft, ledLeft, result, outSequences>>

\* The element of Led behind token i.
GoodLed(i) == Tok(i + 1).type = "object" /\ LedAt(i + 2) /\ AddressAt(i + 3)

\* The last token of that element: two steps to Addr, seven to the value of B.  A slip: eight.
TooFarBehindLed(i) == i + 2 + 8
BehindLed(i) == i + 2 + 7

LedRefused ==
    /\ walk = "leds" /\ ledLeft > 0
    /\ ~GoodLed(tokenIndex)
    /\ Release /\ UNCHANGED isInitialized
    /\ Return(INVALID_JSON)
    /\ UNCHANGED outSequences

LedAdded ==
    /\ walk = "leds" /\ ledLeft > 0
    /\ GoodLed(tokenIndex) /\ ~LengthWraps
    /\ appendToCurrentSequence(LedOf(tokenIndex + 2))
    /\ tokenIndex' = BehindLed(tokenIndex)
    /\ ledLeft' = ledLeft - 1
    /\ UNCHANGED <<tokens, behind, seqLeft, walk, result, outSequences>>

LedNotAllocated ==
    /\ walk = "leds" /\ ledLeft > 0
    /\ GoodLed(tokenIndex)
    /\ MallocFails /\ Release /\ UNCHANGED isInitialized
    /\ Return(ALLOCATION_ERROR)
    /\ UNCHANGED outSequences

LedLost ==
    /\ walk = "leds" /\ ledLeft > 0
    /\ GoodLed(tokenIndex) /\ LengthWraps
    /\ walk' = "undefined"
    /\ UNCHANGED <<statics, cursor, result, outSequences>>

LedsDone ==
    /\ walk = "leds" /\ ledLeft = 0
    /\ walk' = "sequences"
    /\ UNCHANGED <<statics, cursor, result, outSequences>>

Extracted ==
    /\ walk = "top" /\ tokenIndex >= Len(tokens)
    /\ Return(0)
    /\ outSequences' = IF extractedSequences = NULL THEN "null" ELSE "list"
    /\ isInitialized' = FALSE
    /\ UNCHANGED <<extractedSequences, numberOfSequences, lists, arrays>>

WalkStep ==
    \/ TopToken
    \/ SequenceRefused \/ SequenceAdded \/ SequenceWithoutLeds \/ SequenceNotAllocated
    \/ SequencesDone
    \/ LedRefused \/ LedAdded \/ LedNotAllocated \/ LedLost \/ LedsDone
    \/ Extracted

-----------------------------------------------------------------------------
(* The module on its own, with a caller that calls what it likes in any order. *)

JsonInit ==
    /\ extractedSequences = NULL /\ isInitialized = FALSE /\ numberOfSequences = 0
    /\ lists = 0 /\ arrays = 0
    /\ walk = "idle"
    /\ tokens = <<>> /\ behind = <<>> /\ tokenIndex = 0
    /\ seqLeft = 0 /\ ledLeft = 0
    /\ result = 0
    /\ outSequences = "untouched"

JsonNext ==
    \/ \E allocated \in BOOLEAN : initLEDSequences(allocated)
    \/ freeLEDSequences
    \/ \E file \in Files : extractRGBFromFile(file)
    \/ WalkStep

JsonSpec == JsonInit /\ [][JsonNext]_jsonVars

-----------------------------------------------------------------------------
(* Properties *)

JsonTypeOK ==
    /\ extractedSequences \in Seq(LEDSequence) \cup {NULL}
    /\ isInitialized \in BOOLEAN
    /\ numberOfSequences \in Nat
    /\ lists \in Int /\ arrays \in Int
    /\ walk \in {"idle", "top", "sequences", "leds", "undefined"}
    /\ tokens \in Seq(Token) /\ behind \in Behind \cup {<<>>}
    /\ tokenIndex \in Nat /\ seqLeft \in Nat /\ ledLeft \in Nat
    /\ result \in -5..0
    /\ outSequences \in {"untouched", "list", "null", "dangling"}

\* The counters agree with the list they count, whatever calls failed before: the next sequence
\* and the next LED are stored behind the last one, never over it or behind a gap, and a
\* sequence is as long as it says (addNewSequence, appendToCurrentSequence, freeLEDSequences).
CountersAgree ==
    /\ numberOfSequences = IF extractedSequences = NULL THEN 0 ELSE Len(extractedSequences)
    /\ extractedSequences # NULL =>
          \A i \in DOMAIN extractedSequences :
              extractedSequences[i].sequenceLength = Len(extractedSequences[i].ledToChange)

\* The list and the arrays of LEDs are freed exactly once: at every moment those allocated are
\* those that extractedSequences still reaches, on every path out of the walk
\* (freeLEDSequences, incorrectJSONHandler).
NothingLost ==
    /\ lists = Blocks(extractedSequences)
    /\ arrays = ArrayBlocks(extractedSequences)

\* While an LED is being read there is a sequence to append it to.
HasSequence == walk = "leds" => numberOfSequences > 0

\* A well-formed file is never refused, and what comes out is what was written into it: the
\* walk is the inverse of the format (extractRGBFromString).
DocumentsUnderstood ==
    \A d \in Documents :
        walk = "idle" /\ tokens = d.tokens =>
            /\ result \in {0, ALLOCATION_ERROR}
            /\ result = 0 /\ outSequences = "list" => extractedSequences = d.sequences

\* The walk looks up to nine tokens ahead without a test; in a well-formed file it still never
\* leaves the list (extractRGBFromString).
ReadsInsideDocuments ==
    \A d \in Documents :
        tokens = d.tokens =>
            /\ walk = "top" => tokenIndex <= Len(tokens)
            /\ walk = "sequences" /\ seqLeft > 0 => tokenIndex + 5 < Len(tokens)
            /\ walk = "leds" /\ ledLeft > 0 => tokenIndex + 9 < Len(tokens)

\* "The sequences array will be and has to be terminated with a null pointer"
\* (JSONToLeds.h:29): a caller that is told of success has an array to walk.
ArrayForCaller == walk = "idle" /\ result = 0 => outSequences # "null"
=============================================================================
