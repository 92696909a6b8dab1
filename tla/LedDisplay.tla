----------------------------- MODULE LedDisplay -----------------------------
(***************************************************************************)
(* What the controller and the output promise together, with no protocol:  *)
(* a screen on which the pictures that the menus ask for appear.  Every    *)
(* call of translateToOutput paints over the picture of the call before    *)
(* it, and the screen shows the pictures whole, each once, in order, some  *)
(* time later.  Only the death of the screen loses any.                    *)
(***************************************************************************)
EXTENDS Naturals, Sequences, FiniteSetsExt

CONSTANTS
    Sizes,         \* the sizes, <<rows, columns>>, a screen may have
    Colours, Black,
    Anywhere,      \* the row and the column that mean every LED
    Requests       \* the sequences of [row, column, colour] that may be asked for

VARIABLES
    on,            \* the screen is there
    rows, columns, \* its size: another one each time it is switched on
    linked,        \* the two programs are connected
    picture,       \* what the last call made of the calls before it
    promised,      \* the pictures not shown yet, oldest first
    shown          \* the picture on the screen

vars == <<on, rows, columns, linked, picture, promised, shown>>

Positions == (0..(rows - 1)) \X (0..(columns - 1))
Blank == [p \in Positions |-> Black]

Touches(led, p) ==
    \/ led.row = Anywhere /\ led.column = Anywhere
    \/ led.row = p[1] /\ led.column = p[2]

\* Each LED takes the colour of the last element that names it.
Painted(old, leds) ==
    [p \in Positions |->
        LET touching == {i \in DOMAIN leds : Touches(leds[i], p)}
        IN  IF touching = {} THEN old[p] ELSE leds[Max(touching)].colour]

Init ==
    /\ on = FALSE
    /\ rows = 0 /\ columns = 0
    /\ linked = FALSE
    /\ picture = Blank
    /\ promised = <<>>
    /\ shown = Blank

\* The screen is switched on, and dark.
SwitchOn ==
    /\ ~on /\ on' = TRUE
    /\ <<rows', columns'>> \in Sizes
    /\ shown' = Blank' /\ picture' = Blank'
    /\ UNCHANGED <<linked, promised>>

\* The controller connects to it.
Connect ==
    /\ on /\ ~linked /\ linked' = TRUE
    /\ UNCHANGED <<on, rows, columns, picture, promised, shown>>

\* A picture is asked for.
Request(leds) ==
    /\ linked
    /\ picture' = Painted(picture, leds)
    /\ promised' = Append(promised, picture')
    /\ UNCHANGED <<on, rows, columns, linked, shown>>

Show ==
    /\ linked /\ promised # <<>>
    /\ shown' = Head(promised)
    /\ promised' = Tail(promised)
    /\ UNCHANGED <<on, rows, columns, linked, picture>>

\* The controller leaves: not before all it asked for was shown.
Disconnect ==
    /\ linked /\ promised = <<>>
    /\ linked' = FALSE
    /\ picture' = Blank
    /\ UNCHANGED <<on, rows, columns, promised, shown>>

\* The screen dies, and takes with it what it was to show.
Die ==
    /\ on /\ on' = FALSE
    /\ linked' = FALSE
    /\ picture' = Blank
    /\ promised' = <<>>
    /\ UNCHANGED <<rows, columns, shown>>

Next ==
    \/ SwitchOn \/ Connect \/ Show \/ Disconnect \/ Die
    \/ \E leds \in Requests : Request(leds)

Spec == Init /\ [][Next]_vars
=============================================================================
