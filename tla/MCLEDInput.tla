----------------------------- MODULE MCLEDInput -----------------------------
(* JSON files for TLC: well-formed ones, each with the sequences it was written for, and the   *)
(* same with a part cut off or replaced; answers; the grid of the cycling example.             *)
EXTENDS LEDInput, SequencesExt

T(type, text, numbers, size) == [type |-> type, text |-> text, numbers |-> numbers, size |-> size]
Object == T("object", "other", <<>>, 0)
ArrayOf(n) == T("array", "other", <<>>, n)
Key(text) == T("string", text, <<>>, 1)
String == T("string", "other", <<>>, 0)
Number(n) == T("primitive", "other", <<n>>, 0)
Address(row, column) == T("string", "other", <<row, column>>, 0)
All == T("string", "ALL", <<>>, 0)

\* An LED to be written into a file, and a sequence of LEDs.
L(row, column, colour) == [row |-> row, column |-> column, colour |-> colour]
S(delay, leds) == [delay |-> delay, sequenceLength |-> Len(leds), ledToChange |-> leds]

LedTokens(led) ==
    <<Object, Key("Addr"), IF led.row = UShortMax THEN All ELSE Address(led.row, led.column),
      Key("R"), Number(led.colour[1]), Key("G"), Number(led.colour[2]),
      Key("B"), Number(led.colour[3])>>

SequenceTokens(sequence) ==
    <<Object, Key("Delay"), Number(sequence.delay), Key("Led"), ArrayOf(sequence.sequenceLength)>>
        \o FlattenSeq([i \in DOMAIN sequence.ledToChange |-> LedTokens(sequence.ledToChange[i])])

SeqTokens(sequences) ==
    <<Key("Seq"), ArrayOf(Len(sequences))>>
        \o FlattenSeq([k \in DOMAIN sequences |-> SequenceTokens(sequences[k])])

\* An entry of the outer object: an array Seq, or other tokens.
Entry(sequences) == [tokens |-> SeqTokens(sequences), sequences |-> sequences]
Other(otherTokens) == [tokens |-> otherTokens, sequences |-> <<>>]

\* Where the sequences of an entry start, the first of them at token i.
Starts(i, sequences) ==
    [k \in DOMAIN sequences |->
        i + Len(FlattenSeq([l \in 1..(k - 1) |-> SequenceTokens(sequences[l])]))]

DocumentOf(es) ==
    LET Tokens(e) == FlattenSeq([i \in 1..e |-> es[i].tokens])
        Sequences(e) == FlattenSeq([i \in 1..e |-> es[i].sequences])
        Place(e) == [at |-> 1 + Len(Tokens(e - 1)), before |-> Len(Sequences(e - 1))]
    IN  [tokens |-> <<Object>> \o Tokens(Len(es)), sequences |-> Sequences(Len(es)),
         entries |-> [e \in 1..(Len(es) + 1) |-> Place(e)],
         starts |-> FlattenSeq([e \in DOMAIN es |-> Starts(Place(e).at + 2, es[e].sequences)])]

\* A file with other entries in front of its array Seq.
File(head, sequences) == DocumentOf(Append(head, Entry(sequences)))

Red == <<200, 0, 0>>
White == <<255, 255, 255>>
Whole(colour) == L(UShortMax, UShortMax, colour)

\* A name that is spelled like a key, and a key that the program does not know.
NameSeq == <<Other(<<Key("Name"), T("string", "Seq", <<>>, 0)>>)>>
Unknown == <<Other(<<Key("other")>>), Other(<<Number(3)>>)>>
NameSize == <<Other(<<Key("Name"), String>>), Other(<<Key("Size"), String>>)>>

OneSequence == <<S(40, <<L(1, 4, Red)>>)>>
OneLed == File(<<>>, OneSequence)

MCDocuments == {
    OneLed,
    File(NameSize, <<S(1000, <<Whole(White), L(0, 1, Red)>>), S(2147, <<L(0, 1, Off), L(7, 7, Red)>>)>>),
    File(NameSeq, <<S(0, <<>>), S(5, <<L(0, 0, Red)>>), S(6, <<>>)>>),
    File(Unknown, <<>>),
    DocumentOf(NameSize),
    File(<<Entry(OneSequence)>>, <<S(7, <<Whole(Off)>>)>>)}

\* Sizes of arrays are those of the elements that are left.
Cuts == {SubSeq(OneLed.tokens, 1, n) : n \in {1, 2, 4, 5, 6, 7} \cup (9..16)}
Replaced == {[OneLed.tokens EXCEPT ![i] = t] : i \in 2..17, t \in {String, Number(4)}}

\* Three LEDs where LengthMax is two; numbers that do not fit; addresses of one piece and of none;
\* a second sequence that is no object.
Odd == {
    File(<<>>, <<S(1, <<Whole(Red), Whole(Red), Whole(Red)>>)>>).tokens,
    File(<<>>, <<S(65541, <<L(65537, -1, <<256, -1, 300>>)>>)>>).tokens,
    [OneLed.tokens EXCEPT ![11] = T("string", "other", <<1>>, 0)],
    <<Object, Key("Seq"), ArrayOf(2)>> \o SequenceTokens(S(1, <<Whole(Red)>>)) \o <<Number(1)>>,
    <<Object, Key("Name")>>,
    <<Object, Key("Name"), ArrayOf(1), Number(1)>>}

MCOtherFiles == (Cuts \cup Replaced \cup Odd) \ {OneLed.tokens}

\* Zeros, and what an earlier token list left there.
MCBehind == {<<>>, LedTokens(L(0, 0, White)) \o LedTokens(L(0, 0, White))}

MCAnswers == {-1, 0, 1, 2, 4}
MCColours == {Off, <<15, 15, 15>>}

\* A file whose sequences are more than two seconds apart.
SlowDocuments == {File(<<>>, <<S(3000, <<Whole(Red)>>), S(3000, <<Whole(Off)>>)>>)}
NoFiles == {}
=============================================================================
