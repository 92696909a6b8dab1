----------------------------- MODULE JsonFormat -----------------------------
(***************************************************************************)
(* What a JSON file of sequences says: the tokens that jsmn makes of it,   *)
(* the structures they describe, and which tokens stand for which          *)
(* sequences.  How the file is read is in JSONToLeds.                      *)
(***************************************************************************)
EXTENDS LedWire, Sequences

CONSTANT LengthMax     \* the largest sequenceLength: USHRT_MAX

(* A token, as jsmn describes it.  The text stands for the characters as far as strcmp tells *)
(* them apart; the numbers are what atoi makes of each piece of it that strtok finds between *)
(* the characters x.                                                                         *)
TokenType == {"undefined", "object", "array", "string", "primitive"}
Text == {"Name", "Size", "Seq", "Delay", "Led", "Addr", "R", "G", "B", "ALL", "other"}
Token == [type : TokenType, text : Text, numbers : Seq(Int), size : Nat]

\* struct AddressableLED and struct LEDSequence.  An array of no LEDs is the NULL that
\* addNewSequence leaves in ledToChange.
AddressableLED == [row : UShort, column : UShort, colour : Byte \X Byte \X Byte]
LEDSequence == [delay : UShort, sequenceLength : 0..LengthMax, ledToChange : Seq(AddressableLED)]

-----------------------------------------------------------------------------
(* A file with the sequences that were written into it, and with where everything is: the    *)
(* entries of the outer object one behind the other, each with its first token and with how  *)
(* many sequences come before it, and the end behind the last one; and the first token of    *)
(* each sequence.  Tokens are counted from 0.                                                *)
Document == [tokens : Seq(Token), sequences : Seq(LEDSequence),
             entries : Seq([at : Nat, before : Nat]), starts : Seq(Nat)]

At(d, i) == d.tokens[i + 1]

Spells(token, text) == token.type = "string" /\ token.text = text
Says(token, n) == token.type = "primitive" /\ token.numbers = <<n>>

\* "ALL", or a row and a column.
Locates(token, led) ==
    /\ token.type = "string"
    /\ \/ token.text = "ALL" /\ led.row = UShortMax /\ led.column = UShortMax
       \/ token.text # "ALL" /\ token.numbers = <<led.row, led.column>>

\* {"Addr" : "1x2", "R" : 1, "G" : 2, "B" : 3}
LedWritten(d, i, led) ==
    /\ At(d, i).type = "object"
    /\ Spells(At(d, i + 1), "Addr") /\ Locates(At(d, i + 2), led)
    /\ Spells(At(d, i + 3), "R") /\ Says(At(d, i + 4), led.colour[1])
    /\ Spells(At(d, i + 5), "G") /\ Says(At(d, i + 6), led.colour[2])
    /\ Spells(At(d, i + 7), "B") /\ Says(At(d, i + 8), led.colour[3])

\* LED j of sequence k takes nine tokens, behind the five that the sequence begins with; LED 0
\* would be the end of those.
LedStart(d, k, j) == d.starts[k] + 9 * j - 4
SequenceEnd(d, k) == d.starts[k] + 9 * Len(d.sequences[k].ledToChange) + 5

\* {"Delay" : 20, "Led" : [...]}
SequenceWritten(d, k) ==
    LET start == d.starts[k]
        sequence == d.sequences[k]
    IN  /\ At(d, start).type = "object"
        /\ Spells(At(d, start + 1), "Delay") /\ Says(At(d, start + 2), sequence.delay)
        /\ Spells(At(d, start + 3), "Led")
        /\ At(d, start + 4).type = "array" /\ At(d, start + 4).size = sequence.sequenceLength
        /\ sequence.sequenceLength = Len(sequence.ledToChange)
        /\ \A j \in DOMAIN sequence.ledToChange :
               LedWritten(d, LedStart(d, k, j), sequence.ledToChange[j])
        /\ SequenceEnd(d, k) <= Len(d.tokens)

\* Where entry e goes on when s sequences of the file are over: with the next one, or with the
\* next entry.
Follows(d, e, s) ==
    IF s < d.entries[e + 1].before THEN d.starts[s + 1] ELSE d.entries[e + 1].at

\* "Name" or "Size" with its value; "Seq" with an array of sequences; or a token of anything else.
Named(d, i) == Spells(At(d, i), "Name") \/ Spells(At(d, i), "Size")
ListAt(d, i) ==
    Spells(At(d, i), "Seq") /\ i + 1 < Len(d.tokens) /\ At(d, i + 1).type = "array"

NamedEntry(d, e) ==
    /\ Named(d, d.entries[e].at)
    /\ d.entries[e + 1] = [d.entries[e] EXCEPT !.at = @ + 2]

ListEntry(d, e) ==
    LET i == d.entries[e].at
        before == d.entries[e].before
        through == d.entries[e + 1].before
    IN  /\ ListAt(d, i) /\ At(d, i + 1).size = through - before
        /\ Follows(d, e, before) = i + 2
        /\ \A s \in (before + 1)..through : Follows(d, e, s) = SequenceEnd(d, s)

OtherEntry(d, e) ==
    LET i == d.entries[e].at
    IN  /\ ~Named(d, i) /\ ~ListAt(d, i)
        /\ Spells(At(d, i), "Seq") => i + 1 < Len(d.tokens)
        /\ d.entries[e + 1] = [d.entries[e] EXCEPT !.at = @ + 1]

WellFormed(d) ==
    LET n == Len(d.entries)
    IN  /\ d.tokens # <<>> /\ d.tokens[1].type = "object"
        /\ Len(d.starts) = Len(d.sequences)
        /\ \A k \in DOMAIN d.sequences : SequenceWritten(d, k)
        /\ n > 0 /\ d.entries[1] = [at |-> 1, before |-> 0]
        /\ d.entries[n] = [at |-> Len(d.tokens), before |-> Len(d.sequences)]
        /\ \A e \in 1..(n - 1) :
               /\ d.entries[e].at < Len(d.tokens)
               /\ d.entries[e].before <= d.entries[e + 1].before
               /\ d.entries[e + 1].before <= Len(d.sequences)
               /\ NamedEntry(d, e) \/ ListEntry(d, e) \/ OtherEntry(d, e)
=============================================================================
