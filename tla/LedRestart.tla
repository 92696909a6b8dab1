----------------------------- MODULE LedRestart -----------------------------
(***************************************************************************)
(* The controller is killed, or ends, and is started again; the output     *)
(* stays up.  Each start opens a connection of its own.  The output has    *)
(* one callback, one writeBuffer and one bytesToWrite for all the sockets  *)
(* that it accepted, and it keeps those of a controller that died without  *)
(* a FIN: what the dead controller has sent may still arrive, and the      *)
(* timer of its socket may still raise a WR.                               *)
(***************************************************************************)
EXTENDS LedSystem

CONSTANT RestartBound  \* how many times the controller is started again

ASSUME RestartAssumption == RestartBound \in Nat

VARIABLES
    restarts,      \* the times it was started again
    oldSegments,   \* what controllers that died sent, <<which, segment>>, and the output has not
                   \* received yet
    oldArmed       \* those of the dead whose socket's timer runs in the output

oldVars == <<oldSegments, oldArmed>>
restartVars == <<vars, oldVars, restarts>>

RestartInit == Init /\ restarts = 0 /\ oldSegments = <<>> /\ oldArmed = {}

\* The statics of LEDServer.c in a new process, and nothing of its connection yet.
NewController ==
    /\ link' = "none" /\ session' = "none"
    /\ toOutput' = <<>> /\ toController' = {} /\ armed' = FALSE
    /\ pc' = "start" /\ exitCode' = 0 /\ resume' = "await"
    /\ sequence' = <<>> /\ index' = 1 /\ calls' = 0
    /\ bytesToWrite' = 0 /\ writeBuffer' = Plain("")
    /\ isSocketOpened' = FALSE /\ isCommunicationInitialized' = FALSE
    /\ responseFromOutput' = FALSE /\ numberOfRows' = 0 /\ numberOfColumns' = 0

\* What is under way, with the number of the controller that sent it.
Signed == [i \in DOMAIN toOutput |-> <<restarts, toOutput[i]>>]

\* A connection of the old process that the output knows, or will know, stays there.
StartAgain ==
    /\ pc # "start" /\ restarts < RestartBound
    /\ restarts' = restarts + 1
    /\ NewController
    /\ oldSegments' = IF up /\ (session = "open" \/ link = "syn")
                        THEN oldSegments \o Signed ELSE oldSegments
    /\ oldArmed' = IF up /\ session = "open" /\ outputArmed
                   THEN oldArmed \cup {restarts} ELSE oldArmed
    /\ outputArmed' = FALSE
    /\ UNCHANGED <<up, crashes, gridVars, answerBytes, answer>>

\* ledCommunication with the socket of a dead controller: CONN and RD as ever; CLOSE closes it,
\* and no WR follows.
OldSegment ==
    /\ up /\ oldSegments # <<>>
    /\ oldSegments' = Tail(oldSegments)
    /\ LET sender  == Head(oldSegments)[1]
           segment == Head(oldSegments)[2]
       IN  /\ IF segment.name \in CommandNames
                THEN processSocketReading(segment)
                ELSE UNCHANGED <<gridVars, answerBytes>>
           /\ oldArmed' = IF segment.name = "fin"
                          THEN oldArmed \ {sender} ELSE oldArmed \cup {sender}
    /\ UNCHANGED <<network, session, serverVars, up, crashes, answer, outputArmed, restarts>>

\* Nobody repeats what is lost.
OldSegmentLost ==
    /\ oldSegments # <<>>
    /\ oldSegments' = Tail(oldSegments)
    /\ UNCHANGED <<vars, oldArmed, restarts>>

\* WR for such a socket: the answer goes there, whoever asked.
OldTimer ==
    /\ up
    /\ \E sender \in oldArmed : oldArmed' = oldArmed \ {sender}
    /\ answerBytes' = 0
    /\ UNCHANGED <<network, session, serverVars, up, crashes, gridVars, answer, outputArmed,
                   oldSegments, restarts>>

\* An output that dies forgets the old connections too.
OldForgotten ==
    /\ oldSegments' = IF up' THEN oldSegments ELSE <<>>
    /\ oldArmed' = IF up' THEN oldArmed ELSE {}
    /\ UNCHANGED restarts

RestartNext ==
    \/ Next /\ OldForgotten
    \/ StartAgain
    \/ OldSegment \/ OldSegmentLost \/ OldTimer

RestartSpec == RestartInit /\ [][RestartNext]_restartVars

\* The output's loop serves every socket it has.
FairRestartSpec ==
    /\ RestartSpec
    /\ Fairness
    /\ WF_restartVars(OldSegment)
    /\ WF_restartVars(OldTimer)

-----------------------------------------------------------------------------
(* Properties *)

\* While a controller is connected, an answer to SIZE never waits for an event that has come
\* already, with any number of sockets: some socket still has a WR to come (ledCommunication,
\* processSocketReading).  Without one it may stay: a controller that was given the answer meant
\* for the one before leaves before its own.
AnswerHasEvent == session = "open" /\ answerBytes > 0 => outputArmed \/ oldArmed # {}

\* A controller started when the output has done with those before it fetches the size, or ends
\* with an error, wherever the one before was killed (getOutputInformations against
\* ledCommunication); unless the output, or the controller itself, is killed on the way.
FreshStartEnds ==
    \A n \in 0..RestartBound, c \in 0..CrashBound :
        restarts = n /\ crashes = c /\ pc = "start" /\ oldSegments = <<>> /\ oldArmed = {}
            ~> pc \in {"idle", "exit"} \/ restarts > n \/ crashes > c

\* "Answers with the actual size" (LEDConsoleOut.c:162): a controller that waits for the answer
\* to SIZE gets it.
AnswersWithSize ==
    \A n \in 0..RestartBound :
        restarts = n /\ pc = "await" ~> pc \in {"idle", "exit"} \/ restarts > n
=============================================================================
