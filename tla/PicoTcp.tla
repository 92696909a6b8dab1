------------------------------ MODULE PicoTcp ------------------------------
(***************************************************************************)
(* The one TCP connection between the controller and the output, as the    *)
(* vendored picoTCP library gives it to them (external code: MainLib holds *)
(* its headers and binaries).  The operators are the calls that the two    *)
(* programs make; what the library does by itself, and the events it then  *)
(* raises, are the network actions of LEDServer and LEDConsoleOut.         *)
(*                                                                         *)
(* A segment that nobody has received yet stays in toOutput: TCP repeats   *)
(* it until it is acknowledged.  Segments for the controller form a set:   *)
(* acknowledgements are cumulative, and no property depends on whether the *)
(* answer to SIZE overtakes one.                                           *)
(***************************************************************************)
EXTENDS LedWire, Sequences

CONSTANTS
    Colours,       \* the struct RGB values in use
    NoColour       \* the colour field of a segment that carries none

ASSUME ColoursAssumption == NoColour \notin Colours

VARIABLES
    link,          \* the controller's socket: "none", "syn", "open", "closing", "fin", "gone"
    session,       \* the socket that the output accepted: "none", "open", "closed"
    toOutput,      \* segments that the output has not received yet, oldest first
    toController,  \* segments that the controller has not received yet
    armed          \* the timer of the controller's socket runs: it still has an event to raise

\* The first four bytes of a message (enum E_CommMessage of LedRGB.h), or "" for the emptied
\* buffer, and the segments that carry no message.
CommandNames == {"SIZE", "RSET", "SLED", "UPDT", ""}
ControlNames == {"syn", "fin"}

Plain(name) == [name |-> name, high |-> 0, low |-> 0, colour |-> NoColour]

\* What travels in one segment: a command, with a colour and the bytes of an address for two of
\* the names; or a control segment.
Command ==
    [name : {"RSET", "SLED"}, high : Byte, low : Byte, colour : Colours]
      \cup {Plain(name) : name \in {"SIZE", "UPDT", ""}}

Segment == Command \cup {Plain(name) : name \in ControlNames}

\* The answer to SIZE, the one message that travels the other way: the lengths of the grid, two
\* bytes each.
Answer == [rows : Byte \X Byte, columns : Byte \X Byte]
NoMessage == [rows |-> <<0, 0>>, columns |-> <<0, 0>>]

HasData == \E i \in DOMAIN toOutput : toOutput[i].name \in CommandNames

\* Nothing waits for an acknowledgement in the queue of the controller's socket.
QueueEmpty == ~HasData /\ "ack" \notin toController

\* pico_socket_open and pico_socket_connect: a new socket, and a SYN on its way.
SocketConnect ==
    /\ link' = "syn"
    /\ toOutput' = <<Plain("syn")>>
    /\ toController' = {}
    /\ armed' = FALSE

\* pico_socket_write: the whole buffer becomes one segment.
SocketWrite(command) == toOutput' = Append(toOutput, command)
=============================================================================
