-------------------------- MODULE JSONToLedsProofs --------------------------
(***************************************************************************)
(* JSONToLeds for every set of files, whatever lies behind a token list,   *)
(* every length that sequenceLength can hold, every choice of the          *)
(* allocations that fail, and a caller that calls in any order.            *)
(***************************************************************************)
EXTENDS JSONToLeds, LedWireProofs, SequenceTheorems, FiniteSetTheorems

\* What is said of the list, and what of the rest.
ListOK ==
    /\ extractedSequences \in Seq(LEDSequence) \cup {NULL}
    /\ lists \in Int /\ arrays \in Int
    /\ CountersAgree
    /\ NothingLost

PlacesOK ==
    /\ walk \in {"idle", "top", "sequences", "leds", "undefined"}
    /\ tokens \in Seq(Token) /\ behind \in Behind \cup {<<>>}
    /\ tokenIndex \in Nat /\ seqLeft \in Nat /\ ledLeft \in Nat

ResultsOK ==
    /\ result \in -5..0
    /\ outSequences \in {"untouched", "list", "null", "dangling"}

\* The caller has the list only while nobody is working on it, and the list is there.
HandedOut ==
    /\ outSequences \in {"list", "null"} => walk = "idle"
    /\ outSequences = "list" => extractedSequences # NULL

\* The inductive invariant: between a sequence and its last LED there is a sequence to append to.
JsonInv ==
    ListOK /\ PlacesOK /\ ResultsOK /\ isInitialized \in BOOLEAN /\ HasSequence /\ HandedOut

-----------------------------------------------------------------------------
(* What the walk reads *)

\* Every index is answered by a token, in the list or behind it.
LEMMA TokenRead ==
    ASSUME PlacesOK, NEW i \in Nat
    PROVE  Tok(i) \in Token
<1>1. tokens \in Seq(Token) /\ behind \in Seq(Token)
  <2>1. behind \in Seq(Token)
    BY JsonAssumption, EmptySeq DEF PlacesOK
  <2>2. QED
    BY <2>1 DEF PlacesOK
<1>2. NoToken \in Token
  <2>1. <<0>> \in Seq(Int)
    OBVIOUS
  <2>2. QED
    BY <2>1 DEF NoToken, Token, TokenType, Text
<1>3. CASE i < Len(tokens)
  <2>1. i + 1 \in 1..Len(tokens)
    BY <1>1, <1>3
  <2>2. tokens[i + 1] \in Token
    BY <1>1, <2>1, ElementOfSeq
  <2>3. QED
    BY <1>3, <2>2 DEF Tok
<1>4. CASE ~(i < Len(tokens)) /\ i - Len(tokens) < Len(behind)
  <2>1. i - Len(tokens) + 1 \in 1..Len(behind)
    BY <1>1, <1>4
  <2>2. behind[i - Len(tokens) + 1] \in Token
    BY <1>1, <2>1, ElementOfSeq
  <2>3. QED
    BY <1>4, <2>2 DEF Tok
<1>5. CASE ~(i < Len(tokens)) /\ ~(i - Len(tokens) < Len(behind))
  BY <1>2, <1>5 DEF Tok
<1>6. QED
  BY <1>3, <1>4, <1>5

\* Numbers and sizes are numbers.
LEMMA NumberRead ==
    ASSUME PlacesOK, NEW i \in Nat
    PROVE  /\ Atoi(i) \in Int
           /\ Tok(i).size \in Nat
           /\ Tok(i).numbers \in Seq(Int)
<1>1. Tok(i).numbers \in Seq(Int) /\ Tok(i).size \in Nat
  BY TokenRead DEF Token
<1>2. CASE Tok(i).numbers = <<>>
  BY <1>1, <1>2 DEF Atoi
<1>3. CASE Tok(i).numbers # <<>>
  <2>1. 1 \in 1..Len(Tok(i).numbers)
    BY <1>1, <1>3
  <2>2. Tok(i).numbers[1] \in Int
    BY <1>1, <2>1, ElementOfSeq
  <2>3. QED
    BY <1>1, <1>3, <2>2 DEF Atoi
<1>4. QED
  BY <1>2, <1>3

\* The casts make an AddressableLED of whatever numbers an LED is written with.
LEMMA LedRead ==
    ASSUME PlacesOK, NEW i \in Nat, AddressAt(i + 1)
    PROVE  LedOf(i) \in AddressableLED
<1> DEFINE address == Tok(i + 1)
<1>1. \A n \in Int : ToUShort(n) \in UShort
  BY UShortCast
<1>2. \A n \in Int : LowByte(n) \in Byte
  <2>1. \A n \in Int : n % 256 \in Int /\ 0 <= n % 256 /\ n % 256 < 256
    OBVIOUS
  <2>2. QED
    BY <2>1, ByteRange DEF LowByte
<1>3. UShortMax \in UShort
  BY UShortRange DEF UShortMax
<1>4. i + 1 \in Nat /\ i + 3 \in Nat /\ i + 5 \in Nat /\ i + 7 \in Nat
  OBVIOUS
<1>5. /\ LowByte(Atoi(i + 3)) \in Byte
      /\ LowByte(Atoi(i + 5)) \in Byte
      /\ LowByte(Atoi(i + 7)) \in Byte
  BY <1>2, <1>4, NumberRead
<1>6. address.text # "ALL" =>
        ToUShort(address.numbers[1]) \in UShort /\ ToUShort(address.numbers[2]) \in UShort
  <2>1. HAVE address.text # "ALL"
  <2>2. address.numbers \in Seq(Int) /\ Len(address.numbers) >= 2
    BY <1>4, <2>1, NumberRead DEF AddressAt
  <2>3. 1 \in 1..Len(address.numbers) /\ 2 \in 1..Len(address.numbers)
    BY <2>2
  <2>4. address.numbers[1] \in Int /\ address.numbers[2] \in Int
    BY <2>2, <2>3, ElementOfSeq
  <2>5. QED
    BY <1>1, <2>4
<1>7. QED
  BY <1>3, <1>5, <1>6 DEF LedOf, AddressableLED

-----------------------------------------------------------------------------
(* What is done to the list *)

\* The sequences that have an array can be counted.
LEMMA ArraysFinite ==
    ASSUME NEW list \in Seq(LEDSequence)
    PROVE  IsFiniteSet(WithArray(list)) /\ Cardinality(WithArray(list)) \in Nat
<1>1. IsFiniteSet(1..Len(list)) /\ WithArray(list) \subseteq 1..Len(list)
  BY FS_Interval DEF WithArray
<1>2. QED
  BY <1>1, FS_Subset, FS_CardinalityType

\* Who leaves the list alone leaves it in order.
LEMMA ListStays ==
    ASSUME ListOK, UNCHANGED <<extractedSequences, numberOfSequences, lists, arrays>>
    PROVE  ListOK'
BY DEF ListOK, CountersAgree, NothingLost, Blocks, ArrayBlocks, WithArray

\* freeLEDSequences leaves nothing.
LEMMA ReleaseLeavesNothing ==
    ASSUME ListOK, Release
    PROVE  ListOK'
<1>1. extractedSequences' = NULL /\ numberOfSequences' = 0
  BY DEF Release
<1>2. lists' = 0 /\ arrays' = 0
  BY DEF Release, ListOK, NothingLost
<1>3. QED
  BY <1>1, <1>2 DEF ListOK, CountersAgree, NothingLost, Blocks, ArrayBlocks

\* initLEDSequences leaves a list without sequences, or none.
LEMMA InitLeavesEmpty ==
    ASSUME ListOK, NEW allocated, initLEDSequences(allocated)
    PROVE  ListOK'
<1>1. lists - Blocks(extractedSequences) = 0 /\ arrays - ArrayBlocks(extractedSequences) = 0
  BY DEF ListOK, NothingLost
<1>2. numberOfSequences' = 0 /\ arrays' = 0
  BY <1>1 DEF initLEDSequences
<1>3. CASE allocated
  <2>1. extractedSequences' = <<>> /\ lists' = 1
    BY <1>1, <1>3 DEF initLEDSequences
  <2>2. <<>> \in Seq(LEDSequence) /\ Len(<<>>) = 0 /\ <<>> # NULL
    BY JsonAssumption, EmptySeq
  <2>3. Cardinality(WithArray(extractedSequences')) = 0
    <3>1. WithArray(extractedSequences') = {}
      BY <2>1 DEF WithArray
    <3>2. QED
      BY <3>1, FS_EmptySet
  <2>4. NothingLost' /\ lists' \in Int /\ arrays' \in Int
    BY <1>2, <2>1, <2>2, <2>3 DEF NothingLost, Blocks, ArrayBlocks
  <2>5. CountersAgree'
    <3>1. DOMAIN <<>> = {}
      OBVIOUS
    <3>2. QED
      BY <1>2, <2>1, <2>2, <3>1 DEF CountersAgree
  <2>6. QED
    BY <2>1, <2>2, <2>4, <2>5 DEF ListOK
<1>4. CASE ~allocated
  <2>1. extractedSequences' = NULL /\ lists' = 0
    BY <1>1, <1>4 DEF initLEDSequences
  <2>2. QED
    BY <1>2, <2>1 DEF ListOK, CountersAgree, NothingLost, Blocks, ArrayBlocks
<1>5. QED
  BY <1>3, <1>4

\* A sequence without LEDs goes behind the last one, and needs no array.
LEMMA SequenceGoesBehind ==
    ASSUME ListOK, NEW delay \in Int, addNewSequence(delay)
    PROVE  ListOK' /\ numberOfSequences' > 0
<1> DEFINE list == IF extractedSequences = NULL THEN <<>> ELSE extractedSequences
           new == [delay |-> ToUShort(delay), sequenceLength |-> 0, ledToChange |-> <<>>]
           grown == Append(list, new)
<1>1. list \in Seq(LEDSequence)
  BY EmptySeq DEF ListOK
<1>2. new \in LEDSequence
  <2>1. 0 \in 0..LengthMax
    BY JsonAssumption
  <2>2. <<>> \in Seq(AddressableLED)
    BY EmptySeq
  <2>3. QED
    BY <2>1, <2>2, UShortCast DEF LEDSequence
<1>3. numberOfSequences = Len(list)
  BY EmptySeq DEF ListOK, CountersAgree
<1>4. \A i \in 1..Len(list) : list[i].sequenceLength = Len(list[i].ledToChange)
  BY <1>1 DEF ListOK, CountersAgree
<1>5. arrays = Cardinality(WithArray(list)) /\ lists - Blocks(extractedSequences) = 0
  <2>1. Cardinality(WithArray(<<>>)) = 0
    BY FS_EmptySet DEF WithArray
  <2>2. QED
    BY <2>1 DEF ListOK, NothingLost, ArrayBlocks
<1> HIDE DEF list, new
<1>6. /\ grown \in Seq(LEDSequence)
      /\ Len(grown) = Len(list) + 1
      /\ \A i \in 1..Len(list) : grown[i] = list[i]
      /\ grown[Len(list) + 1] = new
  BY <1>1, <1>2, AppendProperties
<1>7. new.ledToChange = <<>> /\ new.sequenceLength = Len(new.ledToChange)
  BY DEF new
<1> HIDE DEF grown
<1>8. Len(list) \in Nat
  BY <1>1
<1>9. \A i \in 1..Len(grown) : grown[i].sequenceLength = Len(grown[i].ledToChange)
  <2>1. TAKE i \in 1..Len(grown)
  <2>2. CASE i \in 1..Len(list)
    BY <1>4, <1>6, <2>2
  <2>3. CASE i = Len(list) + 1
    BY <1>6, <1>7, <2>3
  <2>4. QED
    BY <1>6, <1>8, <2>2, <2>3
<1>10. WithArray(grown) = WithArray(list)
  <2>1. DOMAIN grown = 1..Len(list) + 1 /\ DOMAIN list = 1..Len(list)
    BY <1>1, <1>6
  <2>2. QED
    BY <1>6, <1>7, <1>8, <2>1 DEF WithArray
<1>11. extractedSequences' = grown /\ numberOfSequences' = Len(grown)
  BY <1>3, <1>6 DEF addNewSequence, Grown, list, new, grown
<1>12. grown # NULL
  BY <1>6, JsonAssumption
<1>13. lists' = 1 /\ arrays' = Cardinality(WithArray(grown))
  BY <1>5, <1>10 DEF addNewSequence
<1>14. Cardinality(WithArray(grown)) \in Nat /\ DOMAIN grown = 1..Len(grown)
  BY <1>6, ArraysFinite
<1>15. QED
  <2>1. ListOK'
    BY <1>6, <1>9, <1>11, <1>12, <1>13, <1>14
       DEF ListOK, CountersAgree, NothingLost, Blocks, ArrayBlocks
  <2>2. QED
    BY <1>6, <1>8, <1>11, <2>1

\* An LED goes behind the last one of the last sequence, which has an array from then on.
LEMMA LedGoesBehind ==
    ASSUME ListOK, numberOfSequences > 0, ~LengthWraps,
           NEW led \in AddressableLED, appendToCurrentSequence(led)
    PROVE  ListOK' /\ numberOfSequences' = numberOfSequences
<1> DEFINE list == extractedSequences
           c == numberOfSequences
           longer == [list[c] EXCEPT !.sequenceLength = @ + 1, !.ledToChange = Append(@, led)]
           grown == [list EXCEPT ![c] = longer]
<1>1. list \in Seq(LEDSequence) /\ list # NULL /\ c = Len(list) /\ c \in 1..Len(list)
  BY DEF ListOK, CountersAgree
<1>2. list[c] \in LEDSequence /\ list[c].sequenceLength = Len(list[c].ledToChange)
  BY <1>1, ElementOfSeq DEF ListOK, CountersAgree
<1>3. /\ list[c].ledToChange \in Seq(AddressableLED)
      /\ list[c].sequenceLength \in 0..LengthMax
      /\ list[c].sequenceLength # LengthMax
  BY <1>2 DEF LEDSequence, LengthWraps, CurrentSequence
<1>4. /\ Append(list[c].ledToChange, led) \in Seq(AddressableLED)
      /\ Len(Append(list[c].ledToChange, led)) = list[c].sequenceLength + 1
      /\ Append(list[c].ledToChange, led) # <<>>
  BY <1>2, <1>3, AppendProperties
<1>5. list[c].sequenceLength + 1 \in 0..LengthMax
  BY <1>3, JsonAssumption
<1>6. /\ longer \in LEDSequence
      /\ longer.sequenceLength = Len(longer.ledToChange)
      /\ longer.ledToChange # <<>>
  BY <1>2, <1>4, <1>5 DEF LEDSequence
<1>7. extractedSequences' = grown
  BY DEF appendToCurrentSequence, CurrentSequence
<1>8. /\ numberOfSequences' = c /\ lists' = lists
      /\ arrays' = IF list[c].ledToChange = <<>> THEN arrays + 1 ELSE arrays
  BY DEF appendToCurrentSequence, CurrentSequence
<1> HIDE DEF longer
<1>9. /\ grown \in Seq(LEDSequence) /\ Len(grown) = Len(list)
      /\ DOMAIN grown = 1..Len(list) /\ DOMAIN list = 1..Len(list)
      /\ grown[c] = longer
      /\ \A i \in 1..Len(list) : i # c => grown[i] = list[i]
  BY <1>1, <1>6
<1> HIDE DEF grown
<1>10. \A i \in 1..Len(list) : grown[i].sequenceLength = Len(grown[i].ledToChange)
  <2>1. \A i \in 1..Len(list) : list[i].sequenceLength = Len(list[i].ledToChange)
    BY <1>1 DEF ListOK, CountersAgree
  <2>2. QED
    BY <1>6, <1>9, <2>1
<1>11. WithArray(grown) = WithArray(list) \cup {c}
  BY <1>1, <1>6, <1>9 DEF WithArray
<1>12. arrays' = Cardinality(WithArray(grown))
  <2>1. arrays = Cardinality(WithArray(list)) /\ IsFiniteSet(WithArray(list))
    BY <1>1, ArraysFinite DEF ListOK, NothingLost, ArrayBlocks
  <2>2. CASE list[c].ledToChange = <<>>
    <3>1. c \notin WithArray(list)
      BY <2>2 DEF WithArray
    <3>2. Cardinality(WithArray(list) \cup {c}) = Cardinality(WithArray(list)) + 1
      BY <2>1, <3>1, FS_AddElement
    <3>3. QED
      BY <1>8, <1>11, <2>1, <2>2, <3>2
  <2>3. CASE list[c].ledToChange # <<>>
    <3>1. WithArray(list) \cup {c} = WithArray(list)
      BY <1>1, <1>9, <2>3 DEF WithArray
    <3>2. QED
      BY <1>8, <1>11, <2>1, <2>3, <3>1
  <2>4. QED
    BY <2>2, <2>3
<1>13. lists = 1
  BY <1>1 DEF ListOK, NothingLost, Blocks
<1>14. grown # NULL /\ Cardinality(WithArray(grown)) \in Nat
  BY <1>9, ArraysFinite, JsonAssumption
<1>15. QED
  BY <1>1, <1>7, <1>8, <1>9, <1>10, <1>12, <1>13, <1>14
     DEF ListOK, CountersAgree, NothingLost, Blocks, ArrayBlocks

-----------------------------------------------------------------------------
(* Steps *)

\* The ways out of the walk free what was read, or leave it to the caller.
LEMMA ListStep ==
    ASSUME JsonInv, JsonNext
    PROVE  ListOK' /\ HasSequence'
<1> USE DEF JsonInv, HasSequence
<1>1. CASE \E allocated \in BOOLEAN : initLEDSequences(allocated)
  BY <1>1, InitLeavesEmpty DEF initLEDSequences
<1>2. CASE freeLEDSequences
  BY <1>2, ReleaseLeavesNothing DEF freeLEDSequences
<1>3. CASE \E file \in Files : extractRGBFromFile(file)
  BY <1>3, ListStays DEF extractRGBFromFile, NothingToWalk, Refused, BeginWalk, statics
<1>4. CASE TopToken
  BY <1>4, ListStays DEF TopToken, statics
<1>5. CASE SequenceRefused \/ SequenceWithoutLeds \/ LedRefused \/ LedNotAllocated
  BY <1>5, ReleaseLeavesNothing
     DEF SequenceRefused, SequenceWithoutLeds, LedRefused, LedNotAllocated, Return
<1>6. CASE SequenceNotAllocated
  BY <1>6, ReleaseLeavesNothing DEF SequenceNotAllocated, AddFails, Return
<1>7. CASE SequenceAdded
  <2>1. tokenIndex + 3 \in Nat
    BY DEF PlacesOK
  <2>2. Atoi(tokenIndex + 3) \in Int
    BY <2>1, NumberRead
  <2>3. QED
    BY <1>7, <2>2, SequenceGoesBehind DEF SequenceAdded
<1>8. CASE SequencesDone \/ LedLost \/ Extracted
  BY <1>8, ListStays DEF SequencesDone, LedLost, Extracted, Return, statics
<1>9. CASE LedAdded
  <2>1. numberOfSequences > 0
    BY <1>9 DEF LedAdded
  <2>2. LedOf(tokenIndex + 2) \in AddressableLED
    <3>1. tokenIndex + 2 \in Nat /\ AddressAt(tokenIndex + 2 + 1)
      BY <1>9 DEF LedAdded, GoodLed, PlacesOK
    <3>2. QED
      BY <3>1, LedRead
  <2>3. QED
    BY <1>9, <2>1, <2>2, LedGoesBehind DEF LedAdded
<1>10. CASE LedsDone
  BY <1>10, ListStays DEF LedsDone, statics
<1>11. QED
  BY <1>1, <1>2, <1>3, <1>4, <1>5, <1>6, <1>7, <1>8, <1>9, <1>10 DEF JsonNext, WalkStep

\* The places stay numbers, and the loops are left with as many turns as the sizes say.
LEMMA PlacesStep ==
    ASSUME JsonInv, JsonNext
    PROVE  PlacesOK'
<1>1. PlacesOK /\ 0 \in Nat /\ <<>> \in Seq(Token)
  BY EmptySeq DEF JsonInv
<1>2. /\ tokenIndex \in Nat /\ tokenIndex + 1 \in Nat /\ tokenIndex + 2 \in Nat
      /\ tokenIndex + 5 \in Nat
  BY <1>1 DEF PlacesOK
<1>3. Tok(tokenIndex + 1).size \in Nat /\ Tok(tokenIndex + 5).size \in Nat
  BY <1>1, <1>2, NumberRead
<1>4. CASE \E allocated \in BOOLEAN : initLEDSequences(allocated)
  BY <1>1, <1>4 DEF initLEDSequences, cursor, places, PlacesOK
<1>5. CASE freeLEDSequences
  BY <1>1, <1>5 DEF freeLEDSequences, cursor, places, PlacesOK
<1>6. CASE \E file \in Files : extractRGBFromFile(file)
  <2>1. PICK file \in Files : extractRGBFromFile(file)
    BY <1>6
  <2>2. file \in Seq(Token)
    BY JsonAssumption DEF Files, Document
  <2>3. CASE NothingToWalk
    BY <1>1, <2>3 DEF NothingToWalk, Refused, places, PlacesOK
  <2>4. CASE BeginWalk(file)
    BY <1>1, <2>2, <2>4 DEF BeginWalk, PlacesOK
  <2>5. QED
    BY <2>1, <2>3, <2>4 DEF extractRGBFromFile
<1>7. CASE TopToken
  <2>1. /\ tokenIndex' \in {tokenIndex + 1, tokenIndex + 2}
        /\ walk' \in {"sequences", "top"}
        /\ seqLeft' \in {Tok(tokenIndex + 1).size, 0}
    BY <1>7 DEF TopToken
  <2>2. UNCHANGED <<tokens, behind, ledLeft>>
    BY <1>7 DEF TopToken
  <2>3. QED
    BY <1>1, <1>2, <1>3, <2>1, <2>2 DEF PlacesOK
<1>8. CASE SequenceRefused \/ SequenceWithoutLeds \/ SequenceNotAllocated \/ LedRefused
             \/ LedNotAllocated \/ Extracted
  BY <1>1, <1>8 DEF SequenceRefused, SequenceWithoutLeds, SequenceNotAllocated, LedRefused,
                    LedNotAllocated, Extracted, Return, PlacesOK
<1>9. CASE SequenceAdded
  <2>1. seqLeft - 1 \in Nat
    BY <1>1, <1>9 DEF SequenceAdded, PlacesOK
  <2>2. QED
    BY <1>1, <1>2, <1>3, <1>9, <2>1 DEF SequenceAdded, PlacesOK
<1>10. CASE SequencesDone
  BY <1>1, <1>2, <1>10 DEF SequencesDone, PlacesOK
<1>11. CASE LedAdded
  BY <1>1, <1>11 DEF LedAdded, BehindLed, PlacesOK
<1>12. CASE LedLost \/ LedsDone
  BY <1>1, <1>12 DEF LedLost, LedsDone, cursor, places, PlacesOK
<1>13. QED
  BY <1>4, <1>5, <1>6, <1>7, <1>8, <1>9, <1>10, <1>11, <1>12 DEF JsonNext, WalkStep

\* What a call returns is one of its codes; the caller's pointer dangles only once it was given.
LEMMA ResultsStep ==
    ASSUME JsonInv, JsonNext
    PROVE  ResultsOK' /\ isInitialized' \in BOOLEAN
<1>1. ResultsOK /\ isInitialized \in BOOLEAN
  BY DEF JsonInv
<1>2. isInitialized' \in {TRUE, FALSE, isInitialized}
  BY DEF JsonNext, WalkStep, initLEDSequences, freeLEDSequences, extractRGBFromFile,
         NothingToWalk, Refused, BeginWalk, statics, TopToken, SequenceRefused, SequenceAdded,
         addNewSequence, SequenceWithoutLeds, SequenceNotAllocated, AddFails, SequencesDone,
         LedRefused, LedAdded, appendToCurrentSequence, LedNotAllocated, LedLost, LedsDone,
         Extracted
<1>3. result' \in -5..0
  <2>1. result' = result \/ result' \in {0, -1, -2, -3, -4, -5}
    BY DEF JsonNext, WalkStep, initLEDSequences, freeLEDSequences, extractRGBFromFile,
           NothingToWalk, Refused, BeginWalk, statics, TopToken, SequenceRefused, SequenceAdded,
           SequenceWithoutLeds, SequenceNotAllocated, SequencesDone, LedRefused, LedAdded,
           LedNotAllocated, LedLost, LedsDone, Extracted, Return, OPEN_FILE_ERROR,
           CLOSE_FILE_ERROR, ALLOCATION_ERROR, INVALID_JSON, LEDSEQUENCES_NOT_INITIALIZED
  <2>2. QED
    BY <1>1, <2>1 DEF ResultsOK
<1>4. outSequences' \in {"untouched", "list", "null", "dangling", outSequences}
  BY DEF JsonNext, WalkStep, initLEDSequences, freeLEDSequences, Dangle, extractRGBFromFile,
         TopToken, SequenceRefused, SequenceAdded, SequenceWithoutLeds, SequenceNotAllocated,
         SequencesDone, LedRefused, LedAdded, LedNotAllocated, LedLost, LedsDone, Extracted
<1>5. QED
  BY <1>1, <1>2, <1>3, <1>4 DEF ResultsOK

\* Every step on the list begins with taking it back.
LEMMA HandedOutStep ==
    ASSUME JsonInv, JsonNext
    PROVE  HandedOut'
<1>1. outSequences \in {"untouched", "list", "null", "dangling"} /\ HandedOut
  BY DEF JsonInv, ResultsOK
<1>2. CASE (\E allocated \in BOOLEAN : initLEDSequences(allocated)) \/ freeLEDSequences
  <2>1. walk' = "idle" /\ outSequences' # "list"
    BY <1>2 DEF initLEDSequences, freeLEDSequences, Dangle
  <2>2. QED
    BY <2>1 DEF HandedOut
<1>3. CASE \E file \in Files : extractRGBFromFile(file)
  BY <1>3 DEF extractRGBFromFile, HandedOut
<1>4. CASE WalkStep /\ ~Extracted
  <2>1. walk # "idle" /\ outSequences' = outSequences
    BY <1>4 DEF WalkStep, TopToken, SequenceRefused, SequenceAdded, SequenceWithoutLeds,
                SequenceNotAllocated, SequencesDone, LedRefused, LedAdded, LedNotAllocated,
                LedLost, LedsDone
  <2>2. QED
    BY <1>1, <2>1 DEF HandedOut
<1>5. CASE Extracted
  BY <1>5 DEF Extracted, Return, HandedOut
<1>6. QED
  BY <1>2, <1>3, <1>4, <1>5 DEF JsonNext

LEMMA JsonInduction == JsonSpec => []JsonInv
<1>1. JsonInit => JsonInv
  <2>1. SUFFICES ASSUME JsonInit PROVE JsonInv
    OBVIOUS
  <2>2. ListOK
    BY <2>1 DEF JsonInit, ListOK, CountersAgree, NothingLost, Blocks, ArrayBlocks
  <2>3. PlacesOK
    BY <2>1, EmptySeq DEF JsonInit, PlacesOK
  <2>4. ResultsOK /\ HasSequence /\ HandedOut
    BY <2>1 DEF JsonInit, ResultsOK, HasSequence, HandedOut
  <2>5. isInitialized \in BOOLEAN
    BY <2>1, Zenon DEF JsonInit
  <2>6. QED
    BY <2>2, <2>3, <2>4, <2>5 DEF JsonInv
<1>2. JsonInv /\ [JsonNext]_jsonVars => JsonInv'
  <2>1. SUFFICES ASSUME JsonInv, [JsonNext]_jsonVars PROVE JsonInv'
    OBVIOUS
  <2>2. CASE JsonNext
    BY <2>1, <2>2, ListStep, PlacesStep, ResultsStep, HandedOutStep DEF JsonInv
  <2>3. CASE UNCHANGED jsonVars
    <3>1. ListOK'
      BY <2>1, <2>3, ListStays DEF JsonInv, jsonVars, statics
    <3>2. PlacesOK' /\ ResultsOK' /\ HasSequence' /\ HandedOut'
      BY <2>1, <2>3 DEF JsonInv, jsonVars, statics, cursor, places, PlacesOK, ResultsOK,
                        HasSequence, HandedOut
    <3>3. isInitialized' \in BOOLEAN
      BY <2>1, <2>3, Zenon DEF JsonInv, jsonVars, statics
    <3>4. QED
      BY <3>1, <3>2, <3>3 DEF JsonInv
  <2>4. QED
    BY <2>1, <2>2, <2>3
<1>3. QED
  BY <1>1, <1>2, PTL DEF JsonSpec

\* Whatever is in a file, and whatever lies behind its tokens, what reaches the list are
\* LEDSequences of AddressableLEDs with values that fit (extractRGBFromString).
THEOREM JsonTypes == JsonSpec => []JsonTypeOK
<1>1. JsonInv => JsonTypeOK
  <2>1. ASSUME JsonInv PROVE numberOfSequences \in Nat
    BY <2>1, LenProperties DEF JsonInv, ListOK, CountersAgree
  <2>2. QED
    BY <2>1 DEF JsonInv, ListOK, PlacesOK, ResultsOK, JsonTypeOK
<1>2. QED
  BY <1>1, JsonInduction, PTL

\* Every counter agrees with what it counts, whichever calls failed before.
THEOREM CountersKept == JsonSpec => []CountersAgree
<1>1. JsonInv => CountersAgree
  BY DEF JsonInv, ListOK
<1>2. QED
  BY <1>1, JsonInduction, PTL

\* The list and its arrays are freed exactly once, on every path.
THEOREM NothingIsLost == JsonSpec => []NothingLost
<1>1. JsonInv => NothingLost
  BY DEF JsonInv, ListOK
<1>2. QED
  BY <1>1, JsonInduction, PTL

-----------------------------------------------------------------------------
(* Where the walk is in a well-formed file *)

\* The list as far as the walk has got, and a sequence of which it has read j LEDs.
SoFar == IF extractedSequences = NULL THEN <<>> ELSE extractedSequences
Part(sequence, j) ==
    [delay |-> sequence.delay, sequenceLength |-> j,
     ledToChange |-> SubSeq(sequence.ledToChange, 1, j)]

AtEntry(d) ==
    \E e \in 1..Len(d.entries) :
        /\ tokenIndex = d.entries[e].at
        /\ SoFar = SubSeq(d.sequences, 1, d.entries[e].before)

AtSequence(d) ==
    \E e \in 1..(Len(d.entries) - 1) : \E s \in d.entries[e].before..d.entries[e + 1].before :
        /\ ListEntry(d, e)
        /\ seqLeft = d.entries[e + 1].before - s
        /\ tokenIndex + 1 = Follows(d, e, s)
        /\ SoFar = SubSeq(d.sequences, 1, s)

AtLed(d) ==
    \E e \in 1..(Len(d.entries) - 1) :
    \E s \in (d.entries[e].before + 1)..d.entries[e + 1].before :
    \E j \in 0..Len(d.sequences[s].ledToChange) :
        /\ ListEntry(d, e)
        /\ seqLeft = d.entries[e + 1].before - s
        /\ ledLeft = Len(d.sequences[s].ledToChange) - j
        /\ tokenIndex + 1 = LedStart(d, s, j + 1)
        /\ SoFar = Append(SubSeq(d.sequences, 1, s - 1), Part(d.sequences[s], j))

\* In every loop of the walk, its place in the tokens and the list agree with the file.
WalkInv ==
    \A d \in Documents :
        tokens = d.tokens =>
            /\ walk = "top" => AtEntry(d)
            /\ walk = "sequences" => AtSequence(d)
            /\ walk = "leds" => AtLed(d)

\* A list that was initialised, and that no walk has used, is empty.
FreshList == isInitialized => numberOfSequences = 0

DocumentInv == FreshList /\ WalkInv /\ DocumentsUnderstood

\* A document's parts are what they are named for.
LEMMA DocumentParts ==
    ASSUME NEW d \in Documents
    PROVE  /\ d.tokens \in Seq(Token) /\ d.sequences \in Seq(LEDSequence)
           /\ d.starts \in Seq(Nat) /\ d.entries \in Seq([at : Nat, before : Nat])
           /\ WellFormed(d)
BY JsonAssumption DEF Document

LEMMA EntryParts ==
    ASSUME NEW d \in Documents, NEW e \in 1..Len(d.entries)
    PROVE  /\ d.entries[e].at \in Nat /\ d.entries[e].before \in Nat
           /\ d.entries[e].before <= Len(d.sequences)
<1>1. d.entries[e] \in [at : Nat, before : Nat]
  BY DocumentParts, ElementOfSeq
<1>2. Len(d.entries) \in Nat /\ Len(d.sequences) \in Nat
  BY DocumentParts, LenProperties
<1>3. CASE e = Len(d.entries)
  <2>1. d.entries[e] = [at |-> Len(d.tokens), before |-> Len(d.sequences)]
    BY <1>3, DocumentParts, Zenon DEF WellFormed
  <2>2. d.entries[e].before = Len(d.sequences)
    BY <2>1
  <2>3. QED
    BY <1>1, <1>2, <2>2
<1>4. CASE e # Len(d.entries)
  <2>1. e \in 1..(Len(d.entries) - 1) /\ e + 1 \in 1..Len(d.entries)
    BY <1>2, <1>4
  <2>2. /\ d.entries[e].before <= d.entries[e + 1].before
        /\ d.entries[e + 1].before <= Len(d.sequences)
    BY <2>1, DocumentParts DEF WellFormed
  <2>3. d.entries[e + 1] \in [at : Nat, before : Nat]
    BY <2>1, DocumentParts, ElementOfSeq
  <2>4. QED
    BY <1>1, <1>2, <2>2, <2>3
<1>5. QED
  BY <1>1, <1>3, <1>4

LEMMA SequenceParts ==
    ASSUME NEW d \in Documents, NEW k \in 1..Len(d.sequences)
    PROVE  /\ d.starts[k] \in Nat
           /\ d.sequences[k] \in LEDSequence
           /\ d.sequences[k].ledToChange \in Seq(AddressableLED)
           /\ SequenceWritten(d, k)
<1>1. d.starts[k] \in Nat
  <2>1. k \in 1..Len(d.starts)
    BY DocumentParts DEF WellFormed
  <2>2. QED
    BY <2>1, DocumentParts, ElementOfSeq
<1>2. d.sequences[k] \in LEDSequence
  BY DocumentParts, ElementOfSeq
<1>3. SequenceWritten(d, k)
  <2>1. DOMAIN d.sequences = 1..Len(d.sequences)
    BY DocumentParts
  <2>2. QED
    BY <2>1, DocumentParts DEF WellFormed
<1>4. QED
  BY <1>1, <1>2, <1>3 DEF LEDSequence

\* Inside a document the walk reads the document.
LEMMA InsideDocument ==
    ASSUME NEW d \in Documents, tokens = d.tokens, NEW i \in Nat, i < Len(d.tokens)
    PROVE  Tok(i) = At(d, i)
BY DEF Tok, At

LEMMA NumberFound ==
    ASSUME NEW i, NEW n, Says(Tok(i), n)
    PROVE  Atoi(i) = n
<1>1. <<n>> # <<>> /\ <<n>>[1] = n
  <2>1. Len(<<n>>) = 1 /\ Len(<<>>) = 0
    OBVIOUS
  <2>2. <<n>> # <<>>
    BY <2>1, Zenon
  <2>3. QED
    BY <2>2
<1>2. QED
  BY <1>1 DEF Says, Atoi

\* At the object of a sequence, the walk finds the sequence.
LEMMA SequenceFound ==
    ASSUME NEW d \in Documents, tokens = d.tokens, NEW k \in 1..Len(d.sequences),
           NEW i \in Nat, i + 1 = d.starts[k]
    PROVE  /\ SequenceAt(i) /\ LedsAt(i)
           /\ ToUShort(Atoi(i + 3)) = d.sequences[k].delay
           /\ Tok(i + 5).size = Len(d.sequences[k].ledToChange)
           /\ i + 5 < Len(d.tokens)
<1>1. Len(d.tokens) \in Nat /\ Len(d.sequences[k].ledToChange) \in Nat
  BY DocumentParts, SequenceParts, LenProperties
<1>2. i + 5 < Len(d.tokens)
  <2>1. SequenceEnd(d, k) <= Len(d.tokens)
    BY SequenceParts, Zenon DEF SequenceWritten
  <2>2. d.starts[k] + 9 * Len(d.sequences[k].ledToChange) + 5 <= Len(d.tokens)
    BY <2>1 DEF SequenceEnd
  <2>3. QED
    BY <1>1, <2>2
<1>3. /\ Tok(i + 1) = At(d, i + 1) /\ Tok(i + 2) = At(d, i + 2) /\ Tok(i + 3) = At(d, i + 3)
      /\ Tok(i + 4) = At(d, i + 4) /\ Tok(i + 5) = At(d, i + 5)
  <2>1. \A m \in 0..5 : i + m \in Nat /\ i + m < Len(d.tokens)
    BY <1>1, <1>2
  <2>2. \A m \in 0..5 : Tok(i + m) = At(d, i + m)
    BY <2>1, InsideDocument
  <2>3. QED
    BY <2>2
<1>4. /\ d.starts[k] + 1 = i + 2 /\ d.starts[k] + 2 = i + 3
      /\ d.starts[k] + 3 = i + 4 /\ d.starts[k] + 4 = i + 5
  OBVIOUS
<1>5. /\ Tok(i + 1).type = "object"
      /\ Spells(Tok(i + 2), "Delay") /\ Says(Tok(i + 3), d.sequences[k].delay)
      /\ Spells(Tok(i + 4), "Led")
      /\ Tok(i + 5).type = "array" /\ Tok(i + 5).size = d.sequences[k].sequenceLength
      /\ d.sequences[k].sequenceLength = Len(d.sequences[k].ledToChange)
  BY <1>3, <1>4, SequenceParts DEF SequenceWritten
<1>6. Atoi(i + 3) = d.sequences[k].delay
  BY <1>5, NumberFound
<1>7. ToUShort(d.sequences[k].delay) = d.sequences[k].delay
  BY SequenceParts, UShortCast DEF LEDSequence
<1>8. QED
  BY <1>2, <1>5, <1>6, <1>7 DEF SequenceAt, LedsAt, Reads, Spells, Says

\* At the object of an LED, the walk finds the LED: the casts leave what was written as it is.
LEMMA LedFound ==
    ASSUME NEW d \in Documents, tokens = d.tokens, NEW k \in 1..Len(d.sequences),
           NEW j \in 1..Len(d.sequences[k].ledToChange),
           NEW i \in Nat, i + 1 = LedStart(d, k, j)
    PROVE  /\ GoodLed(i)
           /\ LedOf(i + 2) = d.sequences[k].ledToChange[j]
           /\ i + 9 < Len(d.tokens)
<1> DEFINE leds == d.sequences[k].ledToChange
           led == leds[j]
<1>1. Len(d.tokens) \in Nat /\ Len(leds) \in Nat /\ d.starts[k] \in Nat
  BY DocumentParts, SequenceParts, LenProperties
<1>2. i + 9 < Len(d.tokens)
  <2>1. d.starts[k] + 9 * Len(leds) + 5 <= Len(d.tokens)
    <3>1. SequenceEnd(d, k) <= Len(d.tokens)
      BY SequenceParts, Zenon DEF SequenceWritten
    <3>2. QED
      BY <3>1 DEF SequenceEnd
  <2>2. i + 1 = d.starts[k] + 9 * j - 4 /\ j <= Len(leds)
    BY DEF LedStart
  <2> HIDE DEF leds
  <2>3. QED
    BY <1>1, <2>1, <2>2
<1>3. led \in AddressableLED
  BY SequenceParts, ElementOfSeq
<1>4. LedWritten(d, i + 1, led)
  <2>1. DOMAIN leds = 1..Len(leds)
    BY SequenceParts
  <2>2. QED
    BY <2>1, SequenceParts DEF SequenceWritten
<1>5. /\ Tok(i + 1) = At(d, i + 1) /\ Tok(i + 2) = At(d, i + 2) /\ Tok(i + 3) = At(d, i + 3)
      /\ Tok(i + 4) = At(d, i + 4) /\ Tok(i + 5) = At(d, i + 5) /\ Tok(i + 6) = At(d, i + 6)
      /\ Tok(i + 7) = At(d, i + 7) /\ Tok(i + 8) = At(d, i + 8) /\ Tok(i + 9) = At(d, i + 9)
  <2>1. \A m \in 0..9 : i + m \in Nat /\ i + m < Len(d.tokens)
    BY <1>1, <1>2
  <2>2. \A m \in 0..9 : Tok(i + m) = At(d, i + m)
    BY <2>1, InsideDocument
  <2>3. QED
    BY <2>2
<1>6. /\ i + 1 + 1 = i + 2 /\ i + 1 + 2 = i + 3 /\ i + 1 + 3 = i + 4 /\ i + 1 + 4 = i + 5
      /\ i + 1 + 5 = i + 6 /\ i + 1 + 6 = i + 7 /\ i + 1 + 7 = i + 8 /\ i + 1 + 8 = i + 9
      /\ i + 2 + 1 = i + 3 /\ i + 2 + 2 = i + 4 /\ i + 2 + 3 = i + 5 /\ i + 2 + 4 = i + 6
      /\ i + 2 + 5 = i + 7 /\ i + 2 + 6 = i + 8 /\ i + 2 + 7 = i + 9
  OBVIOUS
<1> HIDE DEF led
<1>7. /\ Tok(i + 1).type = "object"
      /\ Spells(Tok(i + 2), "Addr") /\ Locates(Tok(i + 3), led)
      /\ Spells(Tok(i + 4), "R") /\ Says(Tok(i + 5), led.colour[1])
      /\ Spells(Tok(i + 6), "G") /\ Says(Tok(i + 7), led.colour[2])
      /\ Spells(Tok(i + 8), "B") /\ Says(Tok(i + 9), led.colour[3])
  BY <1>4, <1>5, <1>6, Zenon DEF LedWritten
<1>8. /\ Atoi(i + 5) = led.colour[1] /\ Atoi(i + 7) = led.colour[2] /\ Atoi(i + 9) = led.colour[3]
  BY <1>7, NumberFound
<1>9. led.colour = <<LowByte(Atoi(i + 5)), LowByte(Atoi(i + 7)), LowByte(Atoi(i + 9))>>
  <2>1. \A n \in Byte : LowByte(n) = n
    <3>1. \A n \in Int : 0 <= n /\ n < 256 => n % 256 = n
      OBVIOUS
    <3>2. QED
      BY <3>1, ByteRange DEF LowByte
  <2>2. led.colour \in Byte \X Byte \X Byte
    BY <1>3 DEF AddressableLED
  <2>3. QED
    BY <1>8, <2>1, <2>2
<1>10. /\ led.row = IF Tok(i + 3).text = "ALL" THEN UShortMax ELSE ToUShort(Tok(i + 3).numbers[1])
       /\ led.column = IF Tok(i + 3).text = "ALL" THEN UShortMax
                       ELSE ToUShort(Tok(i + 3).numbers[2])
  <2>1. led.row \in UShort /\ led.column \in UShort
    BY <1>3 DEF AddressableLED
  <2>2. QED
    BY <1>7, <2>1, UShortCast DEF Locates
<1>11. LedOf(i + 2) = led
  <2>1. LedOf(i + 2) = [row |-> led.row, column |-> led.column, colour |-> led.colour]
    BY <1>6, <1>9, <1>10 DEF LedOf
  <2>2. QED
    BY <1>3, <2>1 DEF AddressableLED
<1>12. AddressAt(i + 3)
  <2>1. Len(<<led.row, led.column>>) >= 2
    OBVIOUS
  <2>2. QED
    BY <1>7, <2>1 DEF Locates, AddressAt
<1>13. LedAt(i + 2)
  BY <1>6, <1>7 DEF LedAt, Reads, Spells, Says, Locates
<1>14. QED
  BY <1>2, <1>7, <1>11, <1>12, <1>13 DEF GoodLed, led

\* The first s elements are the first s - 1 and one more.
LEMMA OneMoreTaken ==
    ASSUME NEW S, NEW q \in Seq(S), NEW s \in 1..Len(q)
    PROVE  /\ SubSeq(q, 1, s - 1) \in Seq(S) /\ Len(SubSeq(q, 1, s - 1)) = s - 1
           /\ SubSeq(q, 1, s) = Append(SubSeq(q, 1, s - 1), q[s])
<1>1. Len(q) \in Nat /\ q[s] \in S
  BY LenProperties, ElementOfSeq
<1>2. /\ SubSeq(q, 1, s - 1) \in Seq(S)
      /\ Len(SubSeq(q, 1, s - 1)) = IF 1 <= s - 1 THEN s - 1 - 1 + 1 ELSE 0
  <2>1. \A i \in 1..(s - 1) : q[i] \in S
    BY <1>1, ElementOfSeq
  <2>2. s - 1 \in Int /\ 1 \in Int
    BY <1>1
  <2>3. QED
    BY <2>1, <2>2, SubSeqProperties
<1>3. Len(SubSeq(q, 1, s - 1)) = s - 1
  BY <1>1, <1>2
<1>4. SubSeq(q, 1, s) = SubSeq(q, 1, s - 1) \o <<q[s]>>
  <2>1. 1 \in 1..Len(q) /\ s \in 1..Len(q)
    BY <1>1
  <2>2. QED
    BY <2>1, SubSeqRecursiveSecond
<1>5. QED
  BY <1>1, <1>2, <1>3, <1>4, AppendIsConcat

\* The last element is replaced.
LEMMA LastReplaced ==
    ASSUME NEW S, NEW p \in Seq(S), NEW a \in S, NEW b \in S
    PROVE  /\ Len(Append(p, a)) = Len(p) + 1 /\ Append(p, a)[Len(p) + 1] = a
           /\ [Append(p, a) EXCEPT ![Len(p) + 1] = b] = Append(p, b)
<1> DEFINE pa == Append(p, a)
           pb == Append(p, b)
           n == Len(p) + 1
<1>1. /\ pa \in Seq(S) /\ Len(pa) = n /\ pa[n] = a
      /\ \A i \in 1..Len(p) : pa[i] = p[i]
  BY AppendProperties
<1>2. /\ pb \in Seq(S) /\ Len(pb) = n /\ pb[n] = b
      /\ \A i \in 1..Len(p) : pb[i] = p[i]
  BY AppendProperties
<1>3. Len(p) \in Nat
  BY LenProperties
<1> HIDE DEF pa, pb
<1>4. DOMAIN pa = 1..n /\ DOMAIN pb = 1..n
  BY <1>1, <1>2
<1> DEFINE r == [pa EXCEPT ![n] = b]
<1>5. r \in Seq(S) /\ Len(r) = n
  <2>1. n \in 1..Len(pa)
    BY <1>1, <1>3
  <2>2. QED
    BY <1>1, <2>1, ExceptSeq
<1>6. \A i \in 1..n : r[i] = pb[i]
  BY <1>1, <1>2, <1>3, <1>4
<1>7. r = pb
  BY <1>2, <1>5, <1>6, SeqEqual
<1>8. QED
  BY <1>1, <1>7 DEF pa, pb

\* A sequence that is read LED by LED: nothing of it, one LED more, and all of it.
LEMMA PartsOfSequence ==
    ASSUME NEW sequence \in LEDSequence, sequence.sequenceLength = Len(sequence.ledToChange)
    PROVE  /\ Part(sequence, 0) =
                  [delay |-> sequence.delay, sequenceLength |-> 0, ledToChange |-> <<>>]
           /\ Part(sequence, Len(sequence.ledToChange)) = sequence
           /\ \A j \in 0..Len(sequence.ledToChange) :
                 Part(sequence, j) \in LEDSequence /\ Part(sequence, j).sequenceLength = j
           /\ \A j \in 1..Len(sequence.ledToChange) :
                 [Part(sequence, j - 1) EXCEPT
                     !.sequenceLength = @ + 1,
                     !.ledToChange = Append(@, sequence.ledToChange[j])] = Part(sequence, j)
<1> DEFINE leds == sequence.ledToChange
           n == Len(leds)
<1>1. leds \in Seq(AddressableLED) /\ n \in Nat /\ n <= LengthMax /\ LengthMax \in Nat
  BY JsonAssumption, LenProperties DEF LEDSequence
<1>2. sequence = [delay |-> sequence.delay, sequenceLength |-> n, ledToChange |-> leds]
  BY DEF LEDSequence
<1>3. \A j : Part(sequence, j) =
                [delay |-> sequence.delay, sequenceLength |-> j, ledToChange |-> SubSeq(leds, 1, j)]
  BY Zenon DEF Part
<1>4. SubSeq(leds, 1, 0) = <<>> /\ SubSeq(leds, 1, n) = leds
  BY <1>1, SubSeqEmpty, SubSeqFull
<1>5. \A j \in 1..n : /\ SubSeq(leds, 1, j) = Append(SubSeq(leds, 1, j - 1), leds[j])
                      /\ SubSeq(leds, 1, j) \in Seq(AddressableLED)
  <2>1. TAKE j \in 1..n
  <2>2. /\ SubSeq(leds, 1, j - 1) \in Seq(AddressableLED)
        /\ SubSeq(leds, 1, j) = Append(SubSeq(leds, 1, j - 1), leds[j])
    BY <1>1, OneMoreTaken
  <2>3. leds[j] \in AddressableLED
    BY <1>1, ElementOfSeq
  <2>4. Append(SubSeq(leds, 1, j - 1), leds[j]) \in Seq(AddressableLED)
    BY <2>2, <2>3, AppendProperties
  <2>5. SubSeq(leds, 1, j) \in Seq(AddressableLED)
    BY <2>2, <2>4, Zenon
  <2>6. QED
    BY <2>2, <2>5, Zenon
<1> HIDE DEF leds, n
<1>6. \A j \in 0..n : Part(sequence, j) \in LEDSequence /\ Part(sequence, j).sequenceLength = j
  <2>1. TAKE j \in 0..n
  <2>2. SubSeq(leds, 1, j) \in Seq(AddressableLED)
    <3>1. CASE j = 0
      BY <1>4, <3>1, EmptySeq
    <3>2. CASE j # 0
      BY <1>1, <1>5, <3>2
    <3>3. QED
      BY <3>1, <3>2
  <2>3. j \in 0..LengthMax /\ sequence.delay \in UShort
    BY <1>1 DEF LEDSequence
  <2>4. [delay |-> sequence.delay, sequenceLength |-> j, ledToChange |-> SubSeq(leds, 1, j)]
           \in LEDSequence
    BY <2>2, <2>3 DEF LEDSequence
  <2>5. QED
    BY <1>3, <2>4
<1>7. \A j \in 1..n :
         [Part(sequence, j - 1) EXCEPT !.sequenceLength = @ + 1, !.ledToChange = Append(@, leds[j])]
            = Part(sequence, j)
  <2>1. TAKE j \in 1..n
  <2> DEFINE p == Part(sequence, j - 1)
             q == Part(sequence, j)
             r == [p EXCEPT !.sequenceLength = @ + 1, !.ledToChange = Append(@, leds[j])]
  <2>2. j - 1 \in 0..n /\ j \in 0..n /\ j - 1 + 1 = j
    BY <1>1
  <2>3. /\ p \in LEDSequence /\ p.delay = sequence.delay /\ p.sequenceLength = j - 1
        /\ p.ledToChange = SubSeq(leds, 1, j - 1)
        /\ q \in LEDSequence /\ q.delay = sequence.delay /\ q.sequenceLength = j
        /\ q.ledToChange = Append(SubSeq(leds, 1, j - 1), leds[j])
    <3>1. p \in LEDSequence /\ q \in LEDSequence
      BY <1>6, <2>2, Zenon
    <3>2. /\ p = [delay |-> sequence.delay, sequenceLength |-> j - 1,
                  ledToChange |-> SubSeq(leds, 1, j - 1)]
          /\ q = [delay |-> sequence.delay, sequenceLength |-> j,
                  ledToChange |-> SubSeq(leds, 1, j)]
      BY <1>3, Zenon
    <3>3. SubSeq(leds, 1, j) = Append(SubSeq(leds, 1, j - 1), leds[j])
      BY <1>5, <2>1, Zenon
    <3> HIDE DEF p, q
    <3>4. QED
      BY <3>1, <3>2, <3>3
  <2> HIDE DEF p, q
  <2>4. r.delay = q.delay /\ r.sequenceLength = q.sequenceLength /\ r.ledToChange = q.ledToChange
    BY <2>2, <2>3 DEF LEDSequence
  <2>5. r \in LEDSequence
    BY <2>3, <2>4 DEF LEDSequence
  <2> HIDE DEF r
  <2>6. r = q
    <3>1. \A x \in LEDSequence :
             x = [delay |-> x.delay, sequenceLength |-> x.sequenceLength,
                  ledToChange |-> x.ledToChange]
      BY DEF LEDSequence
    <3>2. /\ r = [delay |-> r.delay, sequenceLength |-> r.sequenceLength,
                  ledToChange |-> r.ledToChange]
          /\ q = [delay |-> q.delay, sequenceLength |-> q.sequenceLength,
                  ledToChange |-> q.ledToChange]
      BY <3>1, <2>3, <2>5, Zenon
    <3>3. QED
      BY <2>4, <3>2, Zenon
  <2>7. QED
    BY <2>6 DEF p, q, r
<1>8. Part(sequence, 0) = [delay |-> sequence.delay, sequenceLength |-> 0, ledToChange |-> <<>>]
  BY <1>3, <1>4
<1>9. Part(sequence, n) = sequence
  BY <1>2, <1>3, <1>4
<1>10. QED
  BY <1>6, <1>7, <1>8, <1>9 DEF leds, n

\* Within an entry, and from it to the next.
LEMMA EntryOnItsWay ==
    ASSUME NEW d \in Documents, NEW e \in 1..(Len(d.entries) - 1)
    PROVE  /\ e \in 1..Len(d.entries) /\ e + 1 \in 1..Len(d.entries)
           /\ d.entries[e].at < Len(d.tokens)
           /\ d.entries[e].before <= d.entries[e + 1].before
           /\ NamedEntry(d, e) \/ ListEntry(d, e) \/ OtherEntry(d, e)
<1>1. Len(d.entries) \in Nat
  BY DocumentParts, LenProperties
<1>2. e \in 1..Len(d.entries) /\ e + 1 \in 1..Len(d.entries)
  BY <1>1
<1>3. /\ d.entries[e].at < Len(d.tokens)
      /\ d.entries[e].before <= d.entries[e + 1].before
      /\ NamedEntry(d, e) \/ ListEntry(d, e) \/ OtherEntry(d, e)
  BY DocumentParts, Zenon DEF WellFormed
<1>4. QED
  BY <1>2, <1>3

\* The walk begins with the first entry, and with an empty list.
LEMMA BeginStep ==
    ASSUME JsonInv, FreshList, NEW file, BeginWalk(file), NEW d \in Documents, tokens' = d.tokens
    PROVE  AtEntry(d)'
<1>1. SoFar = <<>>
  <2>1. isInitialized /\ numberOfSequences = 0
    BY DEF BeginWalk, FreshList
  <2>2. CASE extractedSequences = NULL
    BY <2>2 DEF SoFar
  <2>3. CASE extractedSequences # NULL
    <3>1. extractedSequences \in Seq(LEDSequence) /\ Len(extractedSequences) = 0
      BY <2>1, <2>3 DEF JsonInv, ListOK, CountersAgree
    <3>2. extractedSequences = <<>>
      BY <3>1, EmptySeq
    <3>3. QED
      BY <2>3, <3>2 DEF SoFar
  <2>4. QED
    BY <2>2, <2>3
<1>2. SoFar' = <<>>
  BY <1>1 DEF BeginWalk, statics, SoFar
<1>3. 1 \in 1..Len(d.entries) /\ d.entries[1].at = 1 /\ d.entries[1].before = 0
  <2>1. Len(d.entries) \in Nat /\ Len(d.entries) > 0 /\ d.entries[1] = [at |-> 1, before |-> 0]
    BY DocumentParts, LenProperties, Zenon DEF WellFormed
  <2>2. QED
    BY <2>1
<1>4. tokenIndex' = 1
  BY DEF BeginWalk
<1>5. SubSeq(d.sequences, 1, 0) = <<>>
  BY SubSeqEmpty
<1>6. QED
  BY <1>2, <1>3, <1>4, <1>5 DEF AtEntry

\* A turn of the outer loop passes over an entry, or enters its array.
LEMMA TopStep ==
    ASSUME JsonInv, NEW d \in Documents, tokens = d.tokens, AtEntry(d), TopToken
    PROVE  /\ walk' = "top" => AtEntry(d)'
           /\ walk' = "sequences" => AtSequence(d)'
<1>1. PICK e \in 1..Len(d.entries) :
          /\ tokenIndex = d.entries[e].at
          /\ SoFar = SubSeq(d.sequences, 1, d.entries[e].before)
  BY DEF AtEntry
<1>2. SoFar' = SoFar
  BY DEF TopToken, statics, SoFar
<1>3. Len(d.entries) \in Nat /\ Len(d.tokens) \in Nat /\ Len(d.sequences) \in Nat
  BY DocumentParts, LenProperties
<1>4. e \in 1..(Len(d.entries) - 1)
  <2>1. d.entries[Len(d.entries)] = [at |-> Len(d.tokens), before |-> Len(d.sequences)]
    BY DocumentParts, Zenon DEF WellFormed
  <2>2. tokenIndex < Len(d.tokens)
    BY DEF TopToken
  <2>3. e # Len(d.entries)
    BY <1>1, <1>3, <2>1, <2>2
  <2>4. QED
    BY <1>3, <2>3
<1> DEFINE i == d.entries[e].at
<1>5. /\ i \in Nat /\ i < Len(d.tokens)
      /\ d.entries[e].before \in Nat /\ d.entries[e + 1].before \in Nat
      /\ d.entries[e].before <= d.entries[e + 1].before
      /\ e + 1 \in 1..Len(d.entries)
  BY <1>4, EntryOnItsWay, EntryParts
<1>6. Tok(i) = At(d, i) /\ (i + 1 < Len(d.tokens) => Tok(i + 1) = At(d, i + 1))
  BY <1>5, InsideDocument
<1>7. /\ Reads(i, "Seq") <=> Spells(At(d, i), "Seq")
      /\ Reads(i, "Name") \/ Reads(i, "Size") <=> Named(d, i)
  BY <1>6 DEF Reads, Spells, Named
<1>8. CASE NamedEntry(d, e)
  <2>1. Named(d, i) /\ ~Reads(i, "Seq")
    BY <1>7, <1>8 DEF NamedEntry, Named, Spells
  <2>2. tokenIndex' = i + 2 /\ walk' = "top"
    BY <1>1, <1>7, <2>1 DEF TopToken
  <2>3. d.entries[e + 1].at = i + 2 /\ d.entries[e + 1].before = d.entries[e].before
    <3>1. d.entries[e] \in [at : Nat, before : Nat]
      BY <1>1, DocumentParts, ElementOfSeq
    <3>2. QED
      BY <1>8, <3>1 DEF NamedEntry
  <2>4. QED
    BY <1>1, <1>2, <1>5, <2>2, <2>3 DEF AtEntry
<1>9. CASE OtherEntry(d, e)
  <2>1. ~Named(d, i) /\ ~(Reads(i, "Seq") /\ Tok(i + 1).type = "array")
    BY <1>6, <1>7, <1>9 DEF OtherEntry, ListAt
  <2>2. tokenIndex' = i + 1 /\ walk' = "top"
    BY <1>1, <1>7, <2>1 DEF TopToken
  <2>3. d.entries[e + 1].at = i + 1 /\ d.entries[e + 1].before = d.entries[e].before
    <3>1. d.entries[e] \in [at : Nat, before : Nat]
      BY <1>1, DocumentParts, ElementOfSeq
    <3>2. QED
      BY <1>9, <3>1 DEF OtherEntry
  <2>4. QED
    BY <1>1, <1>2, <1>5, <2>2, <2>3 DEF AtEntry
<1>10. CASE ListEntry(d, e)
  <2>1. /\ Spells(At(d, i), "Seq") /\ i + 1 < Len(d.tokens) /\ At(d, i + 1).type = "array"
        /\ At(d, i + 1).size = d.entries[e + 1].before - d.entries[e].before
        /\ Follows(d, e, d.entries[e].before) = i + 2
    BY <1>10 DEF ListEntry, ListAt
  <2>2. Reads(i, "Seq") /\ Tok(i + 1).type = "array" /\ ~Named(d, i)
    BY <1>6, <1>7, <2>1 DEF Named, Spells
  <2>3. /\ tokenIndex' = i + 1 /\ walk' = "sequences"
        /\ seqLeft' = d.entries[e + 1].before - d.entries[e].before
    BY <1>1, <1>6, <1>7, <2>1, <2>2 DEF TopToken
  <2>4. d.entries[e].before \in d.entries[e].before..d.entries[e + 1].before
    BY <1>5
  <2>5. tokenIndex' + 1 = Follows(d, e, d.entries[e].before)
    BY <1>5, <2>1, <2>3
  <2>6. QED
    BY <1>1, <1>2, <1>4, <1>10, <2>3, <2>4, <2>5 DEF AtSequence
<1>11. QED
  BY <1>4, <1>8, <1>9, <1>10, EntryOnItsWay

\* Where a sequence is still to come, it comes.
LEMMA NextSequence ==
    ASSUME PlacesOK, NEW d \in Documents, tokens = d.tokens, AtSequence(d), seqLeft > 0
    PROVE  \E e \in 1..(Len(d.entries) - 1) :
           \E s \in (d.entries[e].before + 1)..d.entries[e + 1].before :
               /\ ListEntry(d, e)
               /\ seqLeft = d.entries[e + 1].before - s + 1
               /\ s \in 1..Len(d.sequences) /\ tokenIndex + 1 = d.starts[s]
               /\ SoFar = SubSeq(d.sequences, 1, s - 1)
<1>0. PICK e \in 1..(Len(d.entries) - 1) :
          \E s \in d.entries[e].before..d.entries[e + 1].before :
              /\ ListEntry(d, e)
              /\ seqLeft = d.entries[e + 1].before - s
              /\ tokenIndex + 1 = Follows(d, e, s)
              /\ SoFar = SubSeq(d.sequences, 1, s)
  BY DEF AtSequence
<1>1. PICK s \in d.entries[e].before..d.entries[e + 1].before :
          /\ ListEntry(d, e)
          /\ seqLeft = d.entries[e + 1].before - s
          /\ tokenIndex + 1 = Follows(d, e, s)
          /\ SoFar = SubSeq(d.sequences, 1, s)
  BY <1>0
<1>2. /\ d.entries[e].before \in Nat /\ d.entries[e + 1].before \in Nat
      /\ d.entries[e + 1].before <= Len(d.sequences)
      /\ Len(d.sequences) \in Nat
  BY EntryOnItsWay, EntryParts, DocumentParts, LenProperties
<1>3. s \in Nat /\ s < d.entries[e + 1].before
  BY <1>1, <1>2
<1>4. tokenIndex + 1 = d.starts[s + 1]
  BY <1>1, <1>3 DEF Follows
<1>5. /\ s + 1 \in (d.entries[e].before + 1)..d.entries[e + 1].before
      /\ s + 1 \in 1..Len(d.sequences)
      /\ seqLeft = d.entries[e + 1].before - (s + 1) + 1
      /\ s + 1 - 1 = s
  BY <1>1, <1>2, <1>3
<1>6. SoFar = SubSeq(d.sequences, 1, s + 1 - 1)
  BY <1>1, <1>5, Zenon
<1>7. ListEntry(d, e)
  BY <1>1
<1> DEFINE t == s + 1
<1>8. /\ t \in (d.entries[e].before + 1)..d.entries[e + 1].before
      /\ seqLeft = d.entries[e + 1].before - t + 1
      /\ t \in 1..Len(d.sequences)
  BY <1>5
<1>9. tokenIndex + 1 = d.starts[t] /\ SoFar = SubSeq(d.sequences, 1, t - 1)
  BY <1>4, <1>6
<1> HIDE DEF t
<1>10. QED
  BY <1>7, <1>8, <1>9

\* A sequence is added with no LED yet.
LEMMA SequenceStep ==
    ASSUME JsonInv, NEW d \in Documents, tokens = d.tokens, AtSequence(d), SequenceAdded
    PROVE  AtLed(d)'
<1>1. PlacesOK /\ tokenIndex \in Nat /\ seqLeft > 0 /\ seqLeft \in Nat
  BY DEF JsonInv, PlacesOK, SequenceAdded
<1>0. PICK e \in 1..(Len(d.entries) - 1) :
          \E s \in (d.entries[e].before + 1)..d.entries[e + 1].before :
              /\ ListEntry(d, e)
              /\ seqLeft = d.entries[e + 1].before - s + 1
              /\ s \in 1..Len(d.sequences) /\ tokenIndex + 1 = d.starts[s]
              /\ SoFar = SubSeq(d.sequences, 1, s - 1)
  BY <1>1, NextSequence
<1>2. PICK s \in (d.entries[e].before + 1)..d.entries[e + 1].before :
          /\ ListEntry(d, e)
          /\ seqLeft = d.entries[e + 1].before - s + 1
          /\ s \in 1..Len(d.sequences) /\ tokenIndex + 1 = d.starts[s]
          /\ SoFar = SubSeq(d.sequences, 1, s - 1)
  BY <1>0
<1> DEFINE sequence == d.sequences[s]
<1>3. /\ ToUShort(Atoi(tokenIndex + 3)) = sequence.delay
      /\ Tok(tokenIndex + 5).size = Len(sequence.ledToChange)
  BY <1>1, <1>2, SequenceFound
<1>4. /\ sequence \in LEDSequence /\ sequence.sequenceLength = Len(sequence.ledToChange)
      /\ Len(sequence.ledToChange) \in Nat
  BY <1>2, SequenceParts, LenProperties DEF SequenceWritten
<1>5. SoFar' = Append(SubSeq(d.sequences, 1, s - 1), Part(sequence, 0))
  <2>1. extractedSequences' = Append(SubSeq(d.sequences, 1, s - 1), Part(sequence, 0))
    <3>1. extractedSequences' = Append(SoFar, [delay |-> ToUShort(Atoi(tokenIndex + 3)),
                                               sequenceLength |-> 0, ledToChange |-> <<>>])
      BY Zenon DEF SequenceAdded, addNewSequence, Grown, SoFar
    <3>2. Part(sequence, 0) = [delay |-> sequence.delay, sequenceLength |-> 0,
                               ledToChange |-> <<>>]
      BY <1>4, PartsOfSequence, Zenon
    <3>3. QED
      BY <1>2, <1>3, <3>1, <3>2, Zenon
  <2>2. extractedSequences' # NULL
    <3>1. SubSeq(d.sequences, 1, s - 1) \in Seq(LEDSequence)
      BY <1>2, OneMoreTaken, DocumentParts
    <3>2. Part(sequence, 0) \in LEDSequence
      <4>1. 0 \in 0..Len(sequence.ledToChange)
        BY <1>4
      <4>2. QED
        BY <1>4, <4>1, PartsOfSequence, Zenon
    <3>3. extractedSequences' \in Seq(LEDSequence)
      BY <2>1, <3>1, <3>2, AppendProperties
    <3>4. QED
      BY <3>3, JsonAssumption
  <2>3. QED
    BY <2>1, <2>2, Zenon DEF SoFar
<1>6. /\ tokenIndex' = tokenIndex + 5 /\ seqLeft' = seqLeft - 1
      /\ ledLeft' = Len(sequence.ledToChange)
  BY <1>3 DEF SequenceAdded
<1>7. tokenIndex' + 1 = LedStart(d, s, 0 + 1)
  BY <1>1, <1>2, <1>6 DEF LedStart
<1>8. d.entries[e + 1].before \in Nat /\ d.entries[e].before \in Nat
  BY EntryOnItsWay, EntryParts
<1>9. seqLeft' = d.entries[e + 1].before - s
  <2>1. s \in Int /\ seqLeft = d.entries[e + 1].before - s + 1
    BY <1>2, <1>8
  <2>2. QED
    BY <1>6, <1>8, <2>1
<1>10. 0 \in 0..Len(sequence.ledToChange) /\ ledLeft' = Len(sequence.ledToChange) - 0
  BY <1>4, <1>6
<1>11. QED
  BY <1>2, <1>5, <1>7, <1>9, <1>10 DEF AtLed

\* Behind the last sequence of an array comes the next entry.
LEMMA ArrayDoneStep ==
    ASSUME JsonInv, NEW d \in Documents, tokens = d.tokens, AtSequence(d), SequencesDone
    PROVE  AtEntry(d)'
<1>1. PICK e \in 1..(Len(d.entries) - 1) :
          \E s \in d.entries[e].before..d.entries[e + 1].before :
              /\ seqLeft = d.entries[e + 1].before - s
              /\ tokenIndex + 1 = Follows(d, e, s)
              /\ SoFar = SubSeq(d.sequences, 1, s)
  BY DEF AtSequence
<1>2. PICK s \in d.entries[e].before..d.entries[e + 1].before :
          /\ seqLeft = d.entries[e + 1].before - s
          /\ tokenIndex + 1 = Follows(d, e, s)
          /\ SoFar = SubSeq(d.sequences, 1, s)
  BY <1>1
<1>3. /\ d.entries[e].before \in Nat /\ d.entries[e + 1].before \in Nat
      /\ e + 1 \in 1..Len(d.entries)
  BY EntryOnItsWay, EntryParts
<1>4. s = d.entries[e + 1].before
  BY <1>2, <1>3 DEF SequencesDone
<1>5. tokenIndex' = d.entries[e + 1].at
  BY <1>2, <1>3, <1>4 DEF Follows, SequencesDone
<1>6. SoFar' = SubSeq(d.sequences, 1, d.entries[e + 1].before)
  BY <1>2, <1>4 DEF SequencesDone, statics, SoFar
<1>7. QED
  BY <1>3, <1>5, <1>6 DEF AtEntry

\* Behind the last LED of a sequence comes the next sequence, or the end of the array.
LEMMA LedsDoneStep ==
    ASSUME JsonInv, NEW d \in Documents, tokens = d.tokens, AtLed(d), LedsDone
    PROVE  AtSequence(d)'
<1>1. PICK e \in 1..(Len(d.entries) - 1) :
          \E s \in (d.entries[e].before + 1)..d.entries[e + 1].before :
          \E j \in 0..Len(d.sequences[s].ledToChange) :
              /\ ListEntry(d, e)
              /\ seqLeft = d.entries[e + 1].before - s
              /\ ledLeft = Len(d.sequences[s].ledToChange) - j
              /\ tokenIndex + 1 = LedStart(d, s, j + 1)
              /\ SoFar = Append(SubSeq(d.sequences, 1, s - 1), Part(d.sequences[s], j))
  BY DEF AtLed
<1>2. PICK s \in (d.entries[e].before + 1)..d.entries[e + 1].before :
          \E j \in 0..Len(d.sequences[s].ledToChange) :
              /\ ListEntry(d, e)
              /\ seqLeft = d.entries[e + 1].before - s
              /\ ledLeft = Len(d.sequences[s].ledToChange) - j
              /\ tokenIndex + 1 = LedStart(d, s, j + 1)
              /\ SoFar = Append(SubSeq(d.sequences, 1, s - 1), Part(d.sequences[s], j))
  BY <1>1
<1>3. PICK j \in 0..Len(d.sequences[s].ledToChange) :
          /\ ListEntry(d, e)
          /\ seqLeft = d.entries[e + 1].before - s
          /\ ledLeft = Len(d.sequences[s].ledToChange) - j
          /\ tokenIndex + 1 = LedStart(d, s, j + 1)
          /\ SoFar = Append(SubSeq(d.sequences, 1, s - 1), Part(d.sequences[s], j))
  BY <1>2
<1>4. /\ d.entries[e].before \in Nat /\ d.entries[e + 1].before \in Nat
      /\ d.entries[e + 1].before <= Len(d.sequences) /\ Len(d.sequences) \in Nat
  BY EntryOnItsWay, EntryParts, DocumentParts, LenProperties
<1>5. s \in 1..Len(d.sequences) /\ s \in d.entries[e].before..d.entries[e + 1].before
  BY <1>4
<1> DEFINE sequence == d.sequences[s]
<1>6. /\ sequence \in LEDSequence /\ sequence.sequenceLength = Len(sequence.ledToChange)
      /\ Len(sequence.ledToChange) \in Nat /\ d.starts[s] \in Nat
  BY <1>5, SequenceParts, LenProperties DEF SequenceWritten
<1>7. j = Len(sequence.ledToChange)
  BY <1>3, <1>6 DEF LedsDone
<1>8. SoFar = SubSeq(d.sequences, 1, s)
  <2>1. Part(sequence, j) = sequence
    BY <1>6, <1>7, PartsOfSequence, Zenon
  <2>2. SubSeq(d.sequences, 1, s) = Append(SubSeq(d.sequences, 1, s - 1), d.sequences[s])
    BY <1>5, OneMoreTaken, DocumentParts
  <2>3. QED
    BY <1>3, <2>1, <2>2, Zenon
<1>9. tokenIndex + 1 = Follows(d, e, s)
  <2>1. Follows(d, e, s) = SequenceEnd(d, s)
    BY <1>3 DEF ListEntry
  <2>2. SequenceEnd(d, s) = d.starts[s] + 9 * j + 5
    BY <1>7 DEF SequenceEnd
  <2>3. LedStart(d, s, j + 1) = d.starts[s] + 9 * (j + 1) - 4
    BY DEF LedStart
  <2>4. j \in Nat
    BY <1>6, <1>7
  <2>5. d.starts[s] + 9 * (j + 1) - 4 = d.starts[s] + 9 * j + 5
    BY <1>6, <2>4
  <2>6. QED
    BY <1>3, <2>1, <2>2, <2>3, <2>5, Zenon
<1>10. UNCHANGED <<seqLeft, tokenIndex, extractedSequences>>
  BY DEF LedsDone, statics, cursor, places
<1>11. SoFar' = SoFar
  BY <1>10 DEF SoFar
<1>12. QED
  BY <1>3, <1>5, <1>8, <1>9, <1>10, <1>11 DEF AtSequence

\* Where an LED is still to come, it comes: it goes behind those that were read, and there is room.
LEMMA NextLed ==
    ASSUME JsonInv, walk = "leds", NEW d \in Documents, tokens = d.tokens, AtLed(d), ledLeft > 0
    PROVE  \E e \in 1..(Len(d.entries) - 1) :
           \E s \in (d.entries[e].before + 1)..d.entries[e + 1].before :
           \E j \in 1..Len(d.sequences[s].ledToChange) :
               /\ ListEntry(d, e)
               /\ seqLeft = d.entries[e + 1].before - s
               /\ ledLeft = Len(d.sequences[s].ledToChange) - j + 1
               /\ s \in 1..Len(d.sequences) /\ tokenIndex + 1 = LedStart(d, s, j)
               /\ numberOfSequences = s /\ extractedSequences # NULL
               /\ extractedSequences = Append(SubSeq(d.sequences, 1, s - 1),
                                              Part(d.sequences[s], j - 1))
               /\ extractedSequences[s] = Part(d.sequences[s], j - 1)
               /\ ~LengthWraps
<1>1. PICK e \in 1..(Len(d.entries) - 1) :
          \E s \in (d.entries[e].before + 1)..d.entries[e + 1].before :
          \E j \in 0..Len(d.sequences[s].ledToChange) :
              /\ ListEntry(d, e)
              /\ seqLeft = d.entries[e + 1].before - s
              /\ ledLeft = Len(d.sequences[s].ledToChange) - j
              /\ tokenIndex + 1 = LedStart(d, s, j + 1)
              /\ SoFar = Append(SubSeq(d.sequences, 1, s - 1), Part(d.sequences[s], j))
  BY DEF AtLed
<1>2. PICK s \in (d.entries[e].before + 1)..d.entries[e + 1].before :
          \E j \in 0..Len(d.sequences[s].ledToChange) :
              /\ ListEntry(d, e)
              /\ seqLeft = d.entries[e + 1].before - s
              /\ ledLeft = Len(d.sequences[s].ledToChange) - j
              /\ tokenIndex + 1 = LedStart(d, s, j + 1)
              /\ SoFar = Append(SubSeq(d.sequences, 1, s - 1), Part(d.sequences[s], j))
  BY <1>1
<1>3. PICK j \in 0..Len(d.sequences[s].ledToChange) :
          /\ ListEntry(d, e)
          /\ seqLeft = d.entries[e + 1].before - s
          /\ ledLeft = Len(d.sequences[s].ledToChange) - j
          /\ tokenIndex + 1 = LedStart(d, s, j + 1)
          /\ SoFar = Append(SubSeq(d.sequences, 1, s - 1), Part(d.sequences[s], j))
  BY <1>2
<1>4. /\ d.entries[e].before \in Nat /\ d.entries[e + 1].before \in Nat
      /\ d.entries[e + 1].before <= Len(d.sequences) /\ Len(d.sequences) \in Nat
  BY EntryOnItsWay, EntryParts, DocumentParts, LenProperties
<1>5. s \in 1..Len(d.sequences)
  <2>1. s \in Int /\ d.entries[e].before + 1 <= s /\ s <= d.entries[e + 1].before
    BY <1>4
  <2>2. QED
    BY <1>4, <2>1
<1> DEFINE sequence == d.sequences[s]
           n == Len(sequence.ledToChange)
           part == Part(sequence, j)
<1>6. /\ sequence \in LEDSequence /\ sequence.sequenceLength = n
      /\ n \in Nat /\ n <= LengthMax
  <2>1. sequence \in LEDSequence /\ sequence.sequenceLength = n /\ n \in Nat
    BY <1>5, SequenceParts, LenProperties DEF SequenceWritten
  <2>2. sequence.sequenceLength \in 0..LengthMax
    BY <2>1 DEF LEDSequence
  <2>3. QED
    BY <2>1, <2>2, JsonAssumption
<1>7. j \in Nat /\ j < n
  BY <1>3, <1>6
<1>8. part \in LEDSequence /\ part.sequenceLength = j
  BY <1>6, PartsOfSequence, Zenon
<1>9. extractedSequences # NULL /\ extractedSequences = SoFar /\ numberOfSequences = Len(SoFar)
  BY DEF JsonInv, HasSequence, ListOK, CountersAgree, SoFar
<1>10. /\ SubSeq(d.sequences, 1, s - 1) \in Seq(LEDSequence)
       /\ Len(SubSeq(d.sequences, 1, s - 1)) = s - 1
  BY <1>5, OneMoreTaken, DocumentParts
<1> HIDE DEF part
<1>11. /\ Len(Append(SubSeq(d.sequences, 1, s - 1), part)) = s - 1 + 1
       /\ Append(SubSeq(d.sequences, 1, s - 1), part)[s - 1 + 1] = part
  BY <1>8, <1>10, AppendProperties
<1>12. s - 1 + 1 = s
  BY <1>5
<1>13. numberOfSequences = s /\ extractedSequences[s] = part
  BY <1>3, <1>9, <1>11, <1>12 DEF part
<1>14. ~LengthWraps
  <2>1. j # LengthMax
    BY <1>6, <1>7, JsonAssumption
  <2>2. QED
    BY <1>8, <1>13, <2>1 DEF LengthWraps, CurrentSequence
<1> DEFINE k == j + 1
<1>15. k \in 1..n /\ k - 1 = j /\ ledLeft = n - k + 1 /\ tokenIndex + 1 = LedStart(d, s, k)
  BY <1>3, <1>6, <1>7
<1> HIDE DEF k, n
<1>16. /\ k \in 1..Len(d.sequences[s].ledToChange)
       /\ ledLeft = Len(d.sequences[s].ledToChange) - k + 1
  BY <1>15 DEF n
<1>17. /\ extractedSequences = Append(SubSeq(d.sequences, 1, s - 1), Part(d.sequences[s], k - 1))
       /\ extractedSequences[s] = Part(d.sequences[s], k - 1)
  BY <1>3, <1>9, <1>13, <1>15, Zenon DEF part
<1>18. QED
  BY <1>3, <1>5, <1>9, <1>13, <1>14, <1>15, <1>16, <1>17

\* An LED goes behind those that were read.
LEMMA LedStep ==
    ASSUME JsonInv, NEW d \in Documents, tokens = d.tokens, AtLed(d), LedAdded
    PROVE  AtLed(d)'
<1>1. walk = "leds" /\ ledLeft > 0 /\ tokenIndex \in Nat /\ ledLeft \in Nat
  BY DEF LedAdded, JsonInv, PlacesOK
<1>2. PICK e \in 1..(Len(d.entries) - 1) :
          \E s \in (d.entries[e].before + 1)..d.entries[e + 1].before :
          \E j \in 1..Len(d.sequences[s].ledToChange) :
              /\ ListEntry(d, e)
              /\ seqLeft = d.entries[e + 1].before - s
              /\ ledLeft = Len(d.sequences[s].ledToChange) - j + 1
              /\ s \in 1..Len(d.sequences) /\ tokenIndex + 1 = LedStart(d, s, j)
              /\ numberOfSequences = s /\ extractedSequences # NULL
              /\ extractedSequences = Append(SubSeq(d.sequences, 1, s - 1),
                                             Part(d.sequences[s], j - 1))
              /\ extractedSequences[s] = Part(d.sequences[s], j - 1)
  BY <1>1, NextLed
<1>3. PICK s \in (d.entries[e].before + 1)..d.entries[e + 1].before :
          \E j \in 1..Len(d.sequences[s].ledToChange) :
              /\ ListEntry(d, e)
              /\ seqLeft = d.entries[e + 1].before - s
              /\ ledLeft = Len(d.sequences[s].ledToChange) - j + 1
              /\ s \in 1..Len(d.sequences) /\ tokenIndex + 1 = LedStart(d, s, j)
              /\ numberOfSequences = s /\ extractedSequences # NULL
              /\ extractedSequences = Append(SubSeq(d.sequences, 1, s - 1),
                                             Part(d.sequences[s], j - 1))
              /\ extractedSequences[s] = Part(d.sequences[s], j - 1)
  BY <1>2
<1>4. PICK j \in 1..Len(d.sequences[s].ledToChange) :
          /\ ListEntry(d, e)
          /\ seqLeft = d.entries[e + 1].before - s
          /\ ledLeft = Len(d.sequences[s].ledToChange) - j + 1
          /\ s \in 1..Len(d.sequences) /\ tokenIndex + 1 = LedStart(d, s, j)
          /\ numberOfSequences = s /\ extractedSequences # NULL
          /\ extractedSequences = Append(SubSeq(d.sequences, 1, s - 1),
                                         Part(d.sequences[s], j - 1))
          /\ extractedSequences[s] = Part(d.sequences[s], j - 1)
  BY <1>3
<1> DEFINE sequence == d.sequences[s]
           n == Len(sequence.ledToChange)
           read == SubSeq(d.sequences, 1, s - 1)
           part == Part(sequence, j - 1)
           led == sequence.ledToChange[j]
<1>5. /\ sequence \in LEDSequence /\ sequence.sequenceLength = n
      /\ n \in Nat /\ d.starts[s] \in Nat
  BY <1>4, SequenceParts, LenProperties DEF SequenceWritten
<1>6. j \in 1..n /\ j \in Nat /\ j - 1 \in 0..n /\ j \in 0..n
  BY <1>5
<1>7. LedOf(tokenIndex + 2) = led
  BY <1>1, <1>4, LedFound
<1>8. extractedSequences' = [extractedSequences EXCEPT ![s] = Part(sequence, j)]
  <2>1. extractedSequences' =
           [extractedSequences EXCEPT ![s] =
              [part EXCEPT !.sequenceLength = @ + 1, !.ledToChange = Append(@, led)]]
    BY <1>4, <1>7 DEF LedAdded, appendToCurrentSequence, CurrentSequence
  <2>2. [part EXCEPT !.sequenceLength = @ + 1, !.ledToChange = Append(@, led)]
           = Part(sequence, j)
    BY <1>5, <1>6, PartsOfSequence, Zenon
  <2>3. QED
    BY <2>1, <2>2, Zenon
<1>9. extractedSequences' = Append(read, Part(sequence, j)) /\ extractedSequences' # NULL
  <2>1. read \in Seq(LEDSequence) /\ Len(read) = s - 1
    BY <1>4, OneMoreTaken, DocumentParts
  <2>2. part \in LEDSequence /\ Part(sequence, j) \in LEDSequence
    BY <1>5, <1>6, PartsOfSequence, Zenon
  <2>3. Len(read) + 1 = s
    BY <1>4, <2>1
  <2>4. [Append(read, part) EXCEPT ![Len(read) + 1] = Part(sequence, j)]
           = Append(read, Part(sequence, j))
    <3> DEFINE longer == Part(sequence, j)
    <3>1. longer \in LEDSequence
      BY <2>2
    <3> HIDE DEF read, part, longer
    <3>2. [Append(read, part) EXCEPT ![Len(read) + 1] = longer] = Append(read, longer)
      BY <2>1, <2>2, <3>1, LastReplaced
    <3>3. QED
      BY <3>2 DEF longer
  <2>5. extractedSequences' = Append(read, Part(sequence, j))
    BY <1>4, <1>8, <2>3, <2>4, Zenon
  <2>6. extractedSequences' \in Seq(LEDSequence)
    BY <2>1, <2>2, <2>5, AppendProperties
  <2>7. QED
    BY <2>5, <2>6, JsonAssumption
<1>10. SoFar' = Append(SubSeq(d.sequences, 1, s - 1), Part(d.sequences[s], j))
  BY <1>9, Zenon DEF SoFar
<1>11. tokenIndex' + 1 = LedStart(d, s, j + 1)
  <2>1. tokenIndex' = tokenIndex + 2 + 7
    BY DEF LedAdded, BehindLed
  <2>2. tokenIndex + 1 = d.starts[s] + 9 * j - 4
    BY <1>4 DEF LedStart
  <2>3. \A start \in Nat, i \in Nat, k \in Nat :
           i + 1 = start + 9 * k - 4 => i + 2 + 7 + 1 = start + 9 * (k + 1) - 4
    OBVIOUS
  <2>4. tokenIndex + 2 + 7 + 1 = d.starts[s] + 9 * (j + 1) - 4
    BY <1>1, <1>5, <1>6, <2>2, <2>3
  <2>5. QED
    BY <2>1, <2>4 DEF LedStart
<1>12. ledLeft' = Len(d.sequences[s].ledToChange) - j
  <2>1. ledLeft' = ledLeft - 1 /\ ledLeft = n - j + 1
    BY <1>4 DEF LedAdded
  <2>2. n - j + 1 - 1 = n - j
    BY <1>5, <1>6
  <2>3. QED
    BY <2>1, <2>2
<1>13. seqLeft' = d.entries[e + 1].before - s
  BY <1>4 DEF LedAdded
<1>14. j \in 0..Len(d.sequences[s].ledToChange)
  BY <1>6
<1>15. QED
  BY <1>4, <1>10, <1>11, <1>12, <1>13, <1>14 DEF AtLed

\* No way out of the walk that refuses the file is open in a well-formed one.
LEMMA NothingRefused ==
    ASSUME JsonInv, NEW d \in Documents, tokens = d.tokens
    PROVE  /\ AtSequence(d) => ~SequenceRefused /\ ~SequenceWithoutLeds
           /\ AtLed(d) => ~LedRefused /\ ~LedLost
<1>1. PlacesOK /\ tokenIndex \in Nat /\ seqLeft \in Nat /\ ledLeft \in Nat
  BY DEF JsonInv, PlacesOK
<1>2. ASSUME AtSequence(d), seqLeft > 0
      PROVE  SequenceAt(tokenIndex) /\ LedsAt(tokenIndex)
  <2>1. \E s : s \in 1..Len(d.sequences) /\ tokenIndex + 1 = d.starts[s]
    BY <1>1, <1>2, NextSequence
  <2>2. QED
    BY <1>1, <2>1, SequenceFound
<1>3. ASSUME AtLed(d), walk = "leds", ledLeft > 0
      PROVE  GoodLed(tokenIndex) /\ ~LengthWraps
  <2>1. \E s, j : /\ s \in 1..Len(d.sequences) /\ j \in 1..Len(d.sequences[s].ledToChange)
                  /\ tokenIndex + 1 = LedStart(d, s, j)
                  /\ ~LengthWraps
    BY <1>1, <1>3, NextLed
  <2>2. QED
    BY <1>1, <2>1, LedFound
<1>4. QED
  BY <1>2, <1>3 DEF SequenceRefused, SequenceWithoutLeds, LedRefused, LedLost

\* The list that the caller gets is the one that was written.
LEMMA AllIsRead ==
    ASSUME JsonInv, NEW d \in Documents, tokens = d.tokens, AtEntry(d), Extracted,
           extractedSequences # NULL
    PROVE  extractedSequences = d.sequences
<1>1. PICK e \in 1..Len(d.entries) :
          /\ tokenIndex = d.entries[e].at
          /\ SoFar = SubSeq(d.sequences, 1, d.entries[e].before)
  BY DEF AtEntry
<1>2. Len(d.entries) \in Nat /\ Len(d.tokens) \in Nat /\ d.entries[e].at \in Nat
  BY DocumentParts, LenProperties, EntryParts
<1>3. e = Len(d.entries)
  <2>1. SUFFICES ASSUME e # Len(d.entries) PROVE FALSE
    OBVIOUS
  <2>2. e \in 1..(Len(d.entries) - 1)
    BY <1>2, <2>1
  <2>3. d.entries[e].at < Len(d.tokens)
    BY <2>2, EntryOnItsWay
  <2>4. tokenIndex >= Len(d.tokens)
    BY DEF Extracted
  <2>5. QED
    BY <1>1, <1>2, <2>3, <2>4
<1>4. d.entries[e].before = Len(d.sequences)
  <2>1. d.entries[e] = [at |-> Len(d.tokens), before |-> Len(d.sequences)]
    BY <1>3, DocumentParts, Zenon DEF WellFormed
  <2>2. QED
    BY <2>1
<1>5. SubSeq(d.sequences, 1, Len(d.sequences)) = d.sequences
  BY DocumentParts, SubSeqFull
<1>6. QED
  BY <1>1, <1>4, <1>5, Zenon DEF SoFar

\* The agreement survives when neither the walk nor the list moves.
LEMMA WalkRests ==
    ASSUME NEW d, UNCHANGED <<extractedSequences, places>>
    PROVE  /\ AtEntry(d) => AtEntry(d)'
           /\ AtSequence(d) => AtSequence(d)'
           /\ AtLed(d) => AtLed(d)'
<1>1. UNCHANGED <<extractedSequences, tokenIndex, seqLeft, ledLeft>> /\ SoFar' = SoFar
  BY DEF places, SoFar
<1>2. QED
  BY <1>1 DEF AtEntry, AtSequence, AtLed

\* Each step of the walk keeps the agreement.
LEMMA WalkInvStep ==
    ASSUME JsonInv, FreshList, WalkInv, JsonNext
    PROVE  WalkInv'
<1>1. SUFFICES ASSUME NEW d \in Documents, tokens' = d.tokens
               PROVE  /\ walk' = "top" => AtEntry(d)'
                      /\ walk' = "sequences" => AtSequence(d)'
                      /\ walk' = "leds" => AtLed(d)'
  BY DEF WalkInv
<1>2. CASE (\E allocated \in BOOLEAN : initLEDSequences(allocated)) \/ freeLEDSequences
  BY <1>2 DEF initLEDSequences, freeLEDSequences
<1>3. CASE \E file \in Files : extractRGBFromFile(file)
  <2>1. PICK file \in Files : walk = "idle" /\ (NothingToWalk \/ BeginWalk(file))
    BY <1>3 DEF extractRGBFromFile
  <2>2. CASE NothingToWalk
    BY <2>1, <2>2 DEF NothingToWalk, Refused
  <2>3. CASE BeginWalk(file)
    <3>1. AtEntry(d)'
      BY <1>1, <2>3, BeginStep
    <3>2. walk' \in {"top", "undefined"}
      BY <2>3 DEF BeginWalk
    <3>3. QED
      BY <3>1, <3>2
  <2>4. QED
    BY <2>1, <2>2, <2>3
<1>4. CASE WalkStep
  <2>1. tokens = d.tokens
    BY <1>1, <1>4 DEF WalkStep, TopToken, SequenceRefused, SequenceAdded, SequenceWithoutLeds,
                      SequenceNotAllocated, SequencesDone, LedRefused, LedAdded, LedNotAllocated,
                      LedLost, LedsDone, Extracted, Return, cursor
  <2>2. /\ walk = "top" => AtEntry(d)
        /\ walk = "sequences" => AtSequence(d)
        /\ walk = "leds" => AtLed(d)
    BY <2>1 DEF WalkInv
  <2>3. CASE TopToken
    <3>1. walk = "top" /\ walk' \in {"top", "sequences"}
      BY <2>3 DEF TopToken
    <3>2. QED
      BY <2>1, <2>2, <2>3, <3>1, TopStep
  <2>4. CASE SequenceAdded
    <3>1. walk = "sequences" /\ walk' = "leds"
      BY <2>4 DEF SequenceAdded
    <3>2. QED
      BY <2>1, <2>2, <2>4, <3>1, SequenceStep
  <2>5. CASE SequencesDone
    <3>1. walk = "sequences" /\ walk' = "top"
      BY <2>5 DEF SequencesDone
    <3>2. QED
      BY <2>1, <2>2, <2>5, <3>1, ArrayDoneStep
  <2>6. CASE LedAdded
    <3>1. walk = "leds" /\ walk' = "leds"
      BY <2>6 DEF LedAdded
    <3>2. QED
      BY <2>1, <2>2, <2>6, <3>1, LedStep
  <2>7. CASE LedsDone
    <3>1. walk = "leds" /\ walk' = "sequences"
      BY <2>7 DEF LedsDone
    <3>2. QED
      BY <2>1, <2>2, <2>7, <3>1, LedsDoneStep
  <2>8. CASE SequenceRefused \/ SequenceWithoutLeds \/ SequenceNotAllocated \/ LedRefused
               \/ LedNotAllocated \/ LedLost \/ Extracted
    BY <2>8 DEF SequenceRefused, SequenceWithoutLeds, SequenceNotAllocated, LedRefused,
                LedNotAllocated, LedLost, Extracted, Return
  <2>9. QED
    BY <1>4, <2>3, <2>4, <2>5, <2>6, <2>7, <2>8 DEF WalkStep
<1>5. QED
  BY <1>2, <1>3, <1>4 DEF JsonNext

\* What is added to the list takes the initialisation away.
LEMMA FreshListStep ==
    ASSUME JsonInv, FreshList, JsonNext
    PROVE  FreshList'
<1>1. CASE (\E allocated \in BOOLEAN : initLEDSequences(allocated)) \/ freeLEDSequences
  BY <1>1 DEF initLEDSequences, freeLEDSequences, Release, FreshList
<1>2. CASE \E file \in Files : extractRGBFromFile(file)
  BY <1>2 DEF extractRGBFromFile, NothingToWalk, Refused, BeginWalk, statics, FreshList
<1>3. CASE SequenceRefused \/ SequenceWithoutLeds \/ SequenceNotAllocated \/ LedRefused
             \/ LedNotAllocated
  BY <1>3 DEF SequenceRefused, SequenceWithoutLeds, SequenceNotAllocated, AddFails, LedRefused,
              LedNotAllocated, Release, FreshList
<1>4. CASE SequenceAdded \/ Extracted
  BY <1>4 DEF SequenceAdded, addNewSequence, Extracted, FreshList
<1>5. CASE TopToken \/ SequencesDone \/ LedAdded \/ LedLost \/ LedsDone
  BY <1>5 DEF TopToken, SequencesDone, LedAdded, appendToCurrentSequence, LedLost, LedsDone,
              statics, FreshList
<1>6. QED
  BY <1>1, <1>2, <1>3, <1>4, <1>5 DEF JsonNext, WalkStep

\* The walk through a well-formed file ends with success, or for want of memory.
LEMMA UnderstoodStep ==
    ASSUME JsonInv, WalkInv, DocumentsUnderstood, JsonNext
    PROVE  DocumentsUnderstood'
<1>1. SUFFICES ASSUME NEW d \in Documents, walk' = "idle", tokens' = d.tokens
               PROVE  /\ result' \in {0, ALLOCATION_ERROR}
                      /\ result' = 0 /\ outSequences' = "list" =>
                            extractedSequences' = d.sequences
  BY DEF DocumentsUnderstood, ALLOCATION_ERROR
<1>2. CASE (\E allocated \in BOOLEAN : initLEDSequences(allocated)) \/ freeLEDSequences
  <2>1. walk = "idle" /\ tokens' = tokens /\ result' = result /\ outSequences' # "list"
    BY <1>2 DEF initLEDSequences, freeLEDSequences, Dangle, cursor
  <2>2. QED
    BY <1>1, <2>1 DEF DocumentsUnderstood
<1>3. CASE \E file \in Files : extractRGBFromFile(file)
  <2>1. tokens' = <<>>
    BY <1>1, <1>3 DEF extractRGBFromFile, NothingToWalk, Refused, BeginWalk
  <2>2. d.tokens # <<>>
    BY DocumentParts, Zenon DEF WellFormed
  <2>3. QED
    BY <1>1, <2>1, <2>2
<1>4. CASE WalkStep
  <2>1. tokens = d.tokens
    BY <1>1, <1>4 DEF WalkStep, TopToken, SequenceRefused, SequenceAdded, SequenceWithoutLeds,
                      SequenceNotAllocated, SequencesDone, LedRefused, LedAdded, LedNotAllocated,
                      LedLost, LedsDone, Extracted, Return, cursor
  <2>2. /\ walk = "top" => AtEntry(d)
        /\ walk = "sequences" => AtSequence(d)
        /\ walk = "leds" => AtLed(d)
    BY <2>1 DEF WalkInv
  <2>3. ~SequenceRefused /\ ~SequenceWithoutLeds
    BY <2>1, <2>2, NothingRefused DEF SequenceRefused, SequenceWithoutLeds
  <2>4. ~LedRefused /\ ~LedLost
    BY <2>1, <2>2, NothingRefused DEF LedRefused, LedLost
  <2>5. ~TopToken /\ ~SequenceAdded /\ ~SequencesDone /\ ~LedAdded /\ ~LedsDone
    BY <1>1 DEF TopToken, SequenceAdded, SequencesDone, LedAdded, LedsDone
  <2>6. CASE SequenceNotAllocated \/ LedNotAllocated
    BY <2>6 DEF SequenceNotAllocated, LedNotAllocated, Return, ALLOCATION_ERROR
  <2>7. CASE Extracted
    <3>1. walk = "top" /\ result' = 0 /\ extractedSequences' = extractedSequences
          /\ outSequences' = IF extractedSequences = NULL THEN "null" ELSE "list"
      BY <2>7 DEF Extracted, Return
    <3>2. extractedSequences # NULL => extractedSequences = d.sequences
      BY <2>1, <2>2, <2>7, <3>1, AllIsRead
    <3>3. QED
      BY <3>1, <3>2
  <2>8. QED
    BY <1>4, <2>3, <2>4, <2>5, <2>6, <2>7 DEF WalkStep
<1>5. QED
  BY <1>2, <1>3, <1>4 DEF JsonNext

LEMMA DocumentInduction == JsonSpec => []DocumentInv
<1>1. JsonInit => DocumentInv
  <2>1. SUFFICES ASSUME JsonInit PROVE DocumentInv
    OBVIOUS
  <2>2. FreshList /\ WalkInv
    BY <2>1 DEF JsonInit, FreshList, WalkInv
  <2>3. DocumentsUnderstood
    <3>1. \A d \in Documents : d.tokens # <<>>
      BY DocumentParts, Zenon DEF WellFormed
    <3>2. QED
      BY <2>1, <3>1 DEF JsonInit, DocumentsUnderstood
  <2>4. QED
    BY <2>2, <2>3 DEF DocumentInv
<1>2. JsonInv /\ DocumentInv /\ [JsonNext]_jsonVars => DocumentInv'
  <2>1. SUFFICES ASSUME JsonInv, DocumentInv, [JsonNext]_jsonVars PROVE DocumentInv'
    OBVIOUS
  <2> USE DEF DocumentInv
  <2>2. CASE JsonNext
    BY <2>1, <2>2, WalkInvStep, FreshListStep, UnderstoodStep
  <2>3. CASE UNCHANGED jsonVars
    <3>1. UNCHANGED <<extractedSequences, places, tokens, walk, isInitialized, numberOfSequences,
                      result, outSequences>>
      BY <2>3 DEF jsonVars, statics, cursor
    <3>2. WalkInv'
      BY <2>1, <3>1, WalkRests DEF WalkInv
    <3>3. FreshList' /\ DocumentsUnderstood'
      BY <2>1, <3>1 DEF FreshList, DocumentsUnderstood, ALLOCATION_ERROR
    <3>4. QED
      BY <3>2, <3>3
  <2>4. QED
    BY <2>1, <2>2, <2>3
<1>3. QED
  BY <1>1, <1>2, JsonInduction, PTL DEF JsonSpec

\* Every well-formed file is understood: whatever calls came before, the walk ends with the
\* sequences that were written into the file, or for want of memory.
THEOREM FilesAreUnderstood == JsonSpec => []DocumentsUnderstood
<1>1. DocumentInv => DocumentsUnderstood
  BY DEF DocumentInv
<1>2. QED
  BY <1>1, DocumentInduction, PTL

\* In a well-formed file the walk never looks behind the last token, though it never tests.
THEOREM ReadingStaysInside == JsonSpec => []ReadsInsideDocuments
<1>1. JsonInv /\ DocumentInv => ReadsInsideDocuments
  <2>1. SUFFICES ASSUME JsonInv, WalkInv, NEW d \in Documents, tokens = d.tokens
                 PROVE  /\ walk = "top" => tokenIndex <= Len(tokens)
                        /\ walk = "sequences" /\ seqLeft > 0 => tokenIndex + 5 < Len(tokens)
                        /\ walk = "leds" /\ ledLeft > 0 => tokenIndex + 9 < Len(tokens)
    BY DEF ReadsInsideDocuments, DocumentInv
  <2>2. PlacesOK /\ tokenIndex \in Nat
    BY <2>1 DEF JsonInv, PlacesOK
  <2>3. ASSUME walk = "top" PROVE tokenIndex <= Len(tokens)
    <3>1. PICK e \in 1..Len(d.entries) : tokenIndex = d.entries[e].at
      BY <2>1, <2>3 DEF WalkInv, AtEntry
    <3>2. Len(d.entries) \in Nat /\ Len(d.tokens) \in Nat
      BY DocumentParts, LenProperties
    <3>3. CASE e = Len(d.entries)
      <4>1. d.entries[e] = [at |-> Len(d.tokens), before |-> Len(d.sequences)]
        BY <3>3, DocumentParts, Zenon DEF WellFormed
      <4>2. d.entries[e].at = Len(d.tokens)
        BY <4>1
      <4>3. QED
        BY <2>1, <3>1, <3>2, <4>2
    <3>4. CASE e # Len(d.entries)
      <4>1. e \in 1..(Len(d.entries) - 1)
        BY <3>2, <3>4
      <4>2. d.entries[e].at < Len(d.tokens)
        BY <4>1, EntryOnItsWay
      <4>3. QED
        BY <2>1, <2>2, <3>1, <3>2, <4>2
    <3>5. QED
      BY <3>3, <3>4
  <2>4. ASSUME walk = "sequences", seqLeft > 0 PROVE tokenIndex + 5 < Len(tokens)
    <3>1. AtSequence(d)
      BY <2>1, <2>4 DEF WalkInv
    <3>2. \E s : s \in 1..Len(d.sequences) /\ tokenIndex + 1 = d.starts[s]
      BY <2>1, <2>2, <2>4, <3>1, NextSequence
    <3>3. QED
      BY <2>1, <2>2, <3>2, SequenceFound
  <2>5. ASSUME walk = "leds", ledLeft > 0 PROVE tokenIndex + 9 < Len(tokens)
    <3>1. AtLed(d)
      BY <2>1, <2>5 DEF WalkInv
    <3>2. \E s, j : /\ s \in 1..Len(d.sequences) /\ j \in 1..Len(d.sequences[s].ledToChange)
                    /\ tokenIndex + 1 = LedStart(d, s, j)
      BY <2>1, <2>5, <3>1, NextLed
    <3>3. QED
      BY <2>1, <2>2, <3>2, LedFound
  <2>6. QED
    BY <2>3, <2>4, <2>5
<1>2. QED
  BY <1>1, JsonInduction, DocumentInduction, PTL
=============================================================================
