----------------------------- MODULE LedSystem -----------------------------
(***************************************************************************)
(* The controller and the output, connected: LEDServer and LEDConsoleOut   *)
(* over one PicoTcp connection.                                            *)
(***************************************************************************)
EXTENDS LEDServer, LEDConsoleOut

vars == <<network, session, serverVars, outputVars>>

Init ==
    /\ link = "none" /\ session = "none"
    /\ toOutput = <<>> /\ toController = {} /\ armed = FALSE
    /\ ServerInit
    /\ OutputInit

-----------------------------------------------------------------------------
(* Requests are the sequences that a menu may pass to translateToOutput. *)

Requests == UNION {[1..n -> Leds] : n \in 0..SequenceBound}

OutputUnchanged == UNCHANGED <<session, outputVars>>
ControllerUnchanged == UNCHANGED <<link, armed, serverVars>>

\* The steps of the controller's thread.
Thread ==
    \/ getOutputInformations /\ OutputUnchanged
    \/ Connected /\ OutputUnchanged
    \/ SizeFetched /\ OutputUnchanged
    \/ LoadReset /\ OutputUnchanged
    \/ LoadSet /\ OutputUnchanged
    \/ SkipLed /\ OutputUnchanged
    \/ Sent /\ OutputUnchanged
    \/ LoadUpdate /\ OutputUnchanged
    \/ Flushed /\ OutputUnchanged
    \/ Closed /\ OutputUnchanged

\* The user, in the menu: something to show, or the end.
User ==
    \/ \E leds \in Requests : translateToOutput(leds) /\ OutputUnchanged
    \/ serverClose /\ OutputUnchanged

\* The library inside the controller's pico_stack_tick, with the callbacks.  It gives up only
\* on an output that is not there: a live one answers, or refuses, sooner.
Library ==
    \/ OnSynAck /\ OutputUnchanged
    \/ OnAck /\ OutputUnchanged
    \/ OnAnswer(answer) /\ OutputUnchanged
    \/ OnTimer /\ OutputUnchanged
    \/ SendFin /\ OutputUnchanged
    \/ OnFin /\ OutputUnchanged
    \/ OnReset /\ OutputUnchanged
    \/ ~up /\ OnGiveUp /\ OutputUnchanged
    \/ ~up /\ OnConnectTimeout /\ OutputUnchanged

\* The output's loop.
Output ==
    \/ OnSyn /\ ControllerUnchanged
    \/ OnCommand /\ ControllerUnchanged
    \/ OnOutputTimer /\ ControllerUnchanged
    \/ OnPeerClose /\ ControllerUnchanged
    \/ RefuseSegment /\ ControllerUnchanged

\* Whoever starts the output, and kills it.
Operator ==
    \/ StartOutput /\ ControllerUnchanged
    \/ KillOutput /\ ControllerUnchanged

\* The controller's program has ended: nothing is left to do.
Ended == pc \in {"done", "exit"} /\ UNCHANGED vars

Next == Thread \/ User \/ Library \/ Output \/ Operator \/ Ended

Spec == Init /\ [][Next]_vars

\* The thread goes on as soon as its loop's condition is false; while it is true, ticks follow
\* each other, and the library does what is due; the output ticks for ever.  Nothing makes the
\* user call, leave, start or kill anything.
Fairness ==
    /\ WF_vars(Thread)
    /\ WF_vars(Library)
    /\ WF_vars((OnSyn \/ OnCommand \/ OnPeerClose \/ RefuseSegment) /\ ControllerUnchanged)
    /\ WF_vars(OnOutputTimer /\ ControllerUnchanged)

FairSpec == Spec /\ Fairness

-----------------------------------------------------------------------------
(* Types *)

ServerTypeOK ==
    /\ pc \in Places
    /\ exitCode \in 0..8
    /\ resume \in {"await", "load"}
    /\ sequence \in Seq(Leds)
    /\ index \in Nat \ {0}
    /\ calls \in Nat
    /\ bytesToWrite \in {0, 4, 7, 9}
    /\ writeBuffer \in Command
    /\ isSocketOpened \in BOOLEAN
    /\ isCommunicationInitialized \in BOOLEAN
    /\ responseFromOutput \in BOOLEAN
    /\ numberOfRows \in UShort
    /\ numberOfColumns \in UShort

OutputTypeOK ==
    /\ up \in BOOLEAN
    /\ crashes \in Nat
    /\ <<rowLength, columnLength>> \in Sizes \cup {<<0, 0>>}
    /\ up => <<rowLength, columnLength>> \in Sizes
    /\ outputGrid \in [Indices -> Colours]
    /\ shown \in [Indices -> Colours]
    /\ answerBytes \in {0, 8}
    /\ answer \in Answer
    /\ outputArmed \in BOOLEAN

NetworkTypeOK ==
    /\ link \in {"none", "syn", "open", "closing", "fin", "gone"}
    /\ session \in {"none", "open", "closed"}
    /\ toOutput \in Seq(Segment)
    /\ toController \in SUBSET {"synack", "ack", "answer", "fin", "rst"}
    /\ armed \in BOOLEAN

TypeOK == ServerTypeOK /\ OutputTypeOK /\ NetworkTypeOK

-----------------------------------------------------------------------------
(* Safety *)

\* No lost wakeup.  The callback writes the buffer only when the library says WR, and the
\* library says it once: an event that comes while bytesToWrite is 0 is used up for nothing
\* (outputCommunication).  Still, whenever there is something to write on an open connection,
\* another WR will come: from an acknowledgement, or from the timer that the last segment
\* received has started.  (Or the connection is refused, which ends the program.)
NoLostWakeup ==
    link = "open" /\ bytesToWrite > 0 /\ pc # "exit" =>
        armed \/ ~QueueEmpty \/ "rst" \in toController

\* Nor does the output's answer to SIZE wait for a WR that has come already (ledCommunication).
NoLostAnswer == session = "open" /\ answerBytes > 0 => outputArmed

\* Stop and wait.  The loops of translateToOutput wait for the library to take a command, not
\* for the output to obey it; yet the controller never has two commands under way, so that the
\* output, which reads one command per RD event, never has two to read (processSocketReading).
OneCommandUnderWay ==
    /\ Len(toOutput) <= 1
    /\ HasData => "ack" \notin toController

\* No command is obeyed by a grid of another size than its address was computed with.  The output
\* asks for a size whenever it is started (initLedGrid), the controller asks for it once
\* (getOutputInformations): one that sits in the menu while the output is started again keeps a
\* size that is stale, and so does one whose answer comes from an output that has died since.
\* But no path leads to the menu, or into translateToOutput, before an answer was read, and an
\* output that obeys its commands is the one that gave it.
SizeKnown ==
    pc \in {"idle", "load", "send", "flush"} /\ session = "open" =>
        numberOfRows = rowLength /\ numberOfColumns = columnLength

\* A call never starts on a connection that the controller knows to be lost: whatever tells it
\* so comes in a loop, which then ends the program or never ends.  The first branch of
\* translateToOutput, which connects again without asking for the size again, is therefore never
\* taken.
ConnectedInMenu == pc \in {"idle", "load"} => isSocketOpened

\* The command in the buffer is the one that the thread is waiting to have written: neither a
\* callback nor the next LED replaces it before it is gone (translateToOutput,
\* outputCommunication).
BufferHoldsCurrent ==
    /\ pc = "send" /\ bytesToWrite > 0 =>
          /\ index \in DOMAIN sequence
          /\ writeBuffer.colour = Led.colour
          /\ bytesToWrite = (IF WholeGrid(Led) THEN 7 ELSE 9)
    /\ pc = "flush" /\ bytesToWrite > 0 => writeBuffer.name = "UPDT" /\ bytesToWrite = 4
    /\ pc \in {"await", "idle", "load", "close", "done"} => bytesToWrite = 0

-----------------------------------------------------------------------------
(* Liveness *)

\* With an output that stays up, a call of translateToOutput returns to the menu.
CallsReturn == pc = "load" ~> pc = "idle"

\* The size is fetched, or the program ends with an error code: it does not start and hang
\* (getOutputInformations, connectToOutput).
StartEnds == pc = "start" ~> pc \in {"idle", "exit"}

\* Leaving the menu ends the program (serverClose).
CloseEnds == pc = "close" ~> pc \in {"done", "exit"}

\* "Socket closed. Exit normally." (LEDServer.c:210): once the controller has printed that the
\* connection is closed, it ends.
ClosedMeansExit == (InLoop /\ link = "gone" /\ ~isSocketOpened) ~> pc \in {"done", "exit"}
=============================================================================
