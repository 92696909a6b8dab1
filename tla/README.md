# LEDController in TLA+

LEDController shows sequences of colours on a grid of LEDs. A controller program (`LEDParser`)
reads what to show from menus, examples or a JSON file and sends it over TCP, which the picoTCP
library runs over a VDE switch, to an output program (`LEDSim`), which keeps the grid and prints
it. This directory models the two programs, the link between them and the arithmetic behind it,
checks the models with TLC and proves their safety with TLAPS.

## The system

| Component | State it keeps | Operations | Talks to |
|---|---|---|---|
| Controller link, `Server/LEDServer.c` | `bytesToWrite`, `writeBuffer`, `isSocketOpened`, `isCommunicationInitialized`, `responseFromOutput`, the size of the grid | `getOutputInformations`, `translateToOutput`, `serverClose`, `connectToOutput`; the callback `outputCommunication` | picoTCP: calls and callbacks; the menus call it |
| Output, `Output/LEDConsoleOut.c` | `bytesToWrite`, `writeBuffer` for the answer to SIZE, `isSocketOpened` | `main`, `startNetworkRoutine`; the callback `ledCommunication` with five commands | picoTCP; the grid |
| Simulated grid, `Output/SimulatedLED.c` | lengths, `numberOfLeds`, `outputGrid` | `initLedGrid`, `setLed`, `printLedGrid`, getters | called by the output |
| Wire format, `MainLib/include/LedRGB.h` and both callbacks | none | four-letter commands; two-byte numbers in char buffers | both programs |
| picoTCP (vendored headers and binaries) | sockets, queues, timers | `pico_stack_tick` calls the callbacks | both programs |
| Menus and file playback, `Input/LEDInput.c` | user's choices | `beginConsoleInput`, `fileMenu`, ... | controller link, JSON |
| Examples, `Input/LEDInput.c` | local | blinking, cycling, random filling | controller link |
| JSON sequences, `Server/JSONToLeds.c` | `extractedSequences`, `isInitialized`, `numberOfSequences` | `initLEDSequences`, `extractRGBFromFile`, `extractRGBFromString`, `freeLEDSequences` | jsmn; the file menu |
| WS2812b strip, `Output/WS2812b_STM32F4Disc.c` | - | unfinished: every operation that matters is "TO DO" | - |

What is hard here, and what makes each part correct:

* **Controller link.** There is one thread, but its loops `while (condition) { pico_stack_tick();
  nanosleep(); }` are the only places where the network lives, and the callback changes what the
  loops wait for. Events are one-shot: a WR that finds nothing to write is gone. Between calls the
  program sits in a menu and does not tick. Correct means: no command waits for an event that will
  not come; none is overtaken or lost; the last picture has left before the menu; the program ends
  when it should.
* **Output.** It reads one command per event, so correctness depends on the controller never
  having two under way; its answer to SIZE waits for a later event. It may be killed and started
  again between any two steps.
* **Wire format and grid.** Two-byte numbers go through `char`, whose sign depends on the build,
  and products of 16-bit numbers are stored in 16 bits. Correct means that the LED that lights up
  is the LED that was named.
* **JSON sequences.** The list, its length and whether it is initialised are statics that live from
  call to call, and every error path frees some of them; the token walk looks up to nine tokens
  ahead without a test. Correct means: what comes out is what was written into the file, the
  counters always agree with the list, and each block is freed once.
* **Menus and examples.** Input that cannot be read leaves old values in place; the playback holds a
  pointer into the parser's list over all its loops; 16-bit counters run loops within loops.
  Correct means: the pointer stays good, each example leaves the picture it should, the delays are
  kept, and the user is asked again.

`PROJECT.json` lists each hazard at its line with the properties that would catch it.

## The modules

| Module | What it is | Code |
|---|---|---|
| `LedWire` | operators: the two-byte numbers, 16-bit casts, the address of an LED | both `processSocketReading`, `translateToOutput`, `initLedGrid` |
| `LedAddressing` | one number followed through SIZE, `translateToOutput`, SLED and `setLed` | the arithmetic of both programs |
| `PicoTcp` | the connection as the library gives it to the two programs (external) | the `pico_socket_*` calls |
| `LEDServer` | the controller: places of its thread, callback, library events | `Server/LEDServer.c` |
| `LEDConsoleOut` | the output: process, grid, callback | `Output/LEDConsoleOut.c`, `Output/SimulatedLED.c` |
| `LedSystem` | the two composed, fairness, properties | `LEDTest.c` |
| `LedDisplay` | abstract specification: a screen on which promised pictures appear | - |
| `LedRefinement` | the mapping from `LedSystem` to `LedDisplay` | - |
| `LedRestart` | `LedSystem` with controllers that are killed and started again; sockets of dead ones | both callbacks |
| `JsonFormat` | what a JSON file of sequences says: tokens, the structures they describe, and which tokens stand for which sequences | `jsmn.h`'s token, `LedRGB.h`'s structures |
| `JSONToLeds` | the parser: statics, allocations, the walk over the tokens, one action per turn of a loop | `Server/JSONToLeds.c` |
| `LEDInput` | menus, examples and playback, with `JSONToLeds` as the parser and `LedDisplay`'s painting as the output | `Input/LEDInput.c` |
| `LedWireProofs`, `LedAddressingProofs`, `LedSystemProofs`, `LedRefinementProofs`, `LedRestartProofs`, `JSONToLedsProofs`, `LEDInputProofs` | theorems | - |
| `MCLedAddressing`, `MCLedSystem`, `MCLedRestart`, `MCLEDInput` | values for TLC | - |

`LEDServer` and `LEDConsoleOut` extend `PicoTcp` and share its five variables; `LedSystem` extends
both and lets one of them step at a time. That is sound because the programs are two processes
that share nothing but segments. `LedRestart` extends `LedSystem`: each of its steps is one of
`LedSystem`'s, or a restart, or one of a socket that a dead controller left in the output.

`JsonFormat` says of a file, a `Document`, where its entries and its sequences stand and what is
written there; it knows nothing of the walk. `JSONToLeds` is the walk, and
`DocumentsUnderstood` says that it finds what the format says. `LEDInput` extends `JSONToLeds`, since both are functions of one thread. It takes
`translateToOutput` as one step that paints a picture: `LedDisplay`'s `Painted`, which the theorem
`SystemShowsPictures` shows to be what the protocol does. So the two halves meet in `LedDisplay`: below it,
that each call's picture is shown; above it, that the calls make the right picture. `LedSystem`, in
turn, stands for the menus by any sequence of calls.

### How the state corresponds to the code

* `pc` names the loop that the controller's thread is in: `connect` (line 161 of LEDServer.c),
  `await` (74), `send` (118), `flush` (127), `close` (31), or the menu, `idle`. `load` is the head
  of the loop over the sequence. `resume` is where `connectToOutput` returns to.
* Between two evaluations of a loop's condition the library may receive several segments, so an
  action that receives is enabled while the thread is in the loop (`InLoop`). What timers do
  happens at the start of a tick, so it needs the condition to be true (`Ticking`).
* `outputCommunication` and `ledCommunication` are one operator each, called from the library's
  actions with the mask that picoTCP passes. `exit(code)` in a callback is `pc = "exit"`.
* `toOutput` holds segments that the output has not received: TCP repeats them, so there is no
  loss. `toController` is a set because acknowledgements are cumulative and nothing depends on
  whether the answer to SIZE overtakes one. `armed` is the timer that the last segment received
  has started: it raises one WR event when nothing is to be repeated. That is observed behaviour of
  the vendored library (its sources are not in the repository); `OnGiveUp` and `OnConnectTimeout`,
  which raise FIN and ERR, are too.
* The output's `shown` is the grid that `printLedGrid` printed last. `KillOutput` ends the process
  between any two steps and leaves segments on the network; a restarted process refuses them.
* `main` asks for the size of the grid at each start, so `initLedGrid` chooses any of `Sizes` each
  time: `rowLength` and `columnLength` are variables, and an output may come back with another
  size. `answer` is what the last answer to SIZE says, so that the controller reads what was
  written, and not what the output's size is by then.
* `setLed` is called with a set of addresses and has the code's range test, `Accepted`; what it
  stores beyond the array enlarges the grid, which `TypeOK` forbids. SLED calls it with one address,
  `initRGBListTo` with what its int counter becomes as an unsigned short, `Counted`: on a grid of
  more than 65535 LEDs these are more than the array has, and only the range test keeps them out.
* `OnSyn` is the same step whether `pico_socket_accept` succeeds or fails: the callback only prints
  which.
* The index of the loop over a sequence counts from 1, and an LED outside the grid costs one step
  (`SkipLed`) with nothing to wait for.
* In `LedRestart`, `oldSegments` is what a dead controller sent and the output has not received,
  in order, each segment with the number of its sender; nobody repeats it, so it may be lost.
  `oldArmed` are the dead controllers whose socket's timer runs, each with a socket and a timer of
  its own, which the sender's FIN ends. The output's `answerBytes` and grid are one for all sockets,
  as in the code.
* In `JSONToLeds`, `walk` names the loop of `extractRGBFromString`: `top` (line 174), `sequences`
  (200), `leds` (234). `tokenIndex` is the code's, counted from 0. `behind` is what lies in memory
  after the token list; past that, `NoToken`. `walk = "undefined"` is where C stops defining what
  happens: a token list that was not allocated, a `sequenceLength` that wraps.
* A token has a type, a size, a text as far as `strcmp` tells it apart, and the numbers that
  `strtok` and `atoi` make of it. Which of `atoi`'s digits, and which characters jsmn accepts, is
  left out.
* `lists` and `arrays` count the blocks that are allocated for `extractedSequences` and for the
  `ledToChange` arrays; `NothingLost` compares them with what is reachable. `outSequences` is the
  caller's pointer, `"dangling"` once the list behind it was freed.
* In `LEDInput`, `menu` is the function and the loop the thread is in. One turn of a loop ends with
  `translateToOutput` and `nanosleep`, so the loops of an example are steps of one action. The
  locals of a function that does not run have their starting values. `blink` counts on and off
  in one `index`.
* `fgets` and `sscanf` are never checked. `Parsed` is the number typed or the old value; the end of
  the input repeats the last line, which is a line like any other; the path buffer that
  an empty line leaves unwritten is covered by `NoPath` and `Path` both being enabled.

### Bounds

`SequenceBound`, `CallBound` and `CrashBound` stop the user, the menus and the operator; the
theorems hold for all their values. `Sizes` are the sizes that whoever starts the output may enter:
two non-zero unsigned shorts whose product an int holds. Beyond that the int counter of
`initRGBListTo` overflows, which C leaves undefined. `Faults` chooses which library calls may fail. `RestartBound`
stops whoever restarts the controller, `VisitBound` the user who starts examples and opens files.
`LengthMax` is the largest `sequenceLength`, 65535 in the code and 2 for TLC; `MallocFails` says
whether allocations may fail.

## The runs

| Run | Module, cfg | Checks | Shows |
|---|---|---|---|
| `addressing` | `MCLedAddressing.cfg` | `OnlyTheNamedLed`, `NamedLedServed` | in set-ups that are `Faithful` the right LED changes, and no other |
| `addressing_signed` | `_signed.cfg` | `NamedLedServed` violated | with signed char LEDs of ordinary grids are never reached |
| `addressing_huge` | `_huge.cfg` | `OnlyTheNamedLed` violated | with more than 65535 LEDs an LED changes another one |
| `live` | `MCLedSystem.cfg` | `CallsReturn`, `StartEnds`, `LastPictureShown` | with an output that stays up, the start ends, calls return, pictures are shown |
| `faults` | `_faults.cfg` | `TypeOK`, `NoLostWakeup`, `NoLostAnswer`, `OneCommandUnderWay`, `SizeKnown`, `ConnectedInMenu`, `BufferHoldsCurrent`, `CloseEnds` | the protocol's safety, and that leaving the menu ends the program, with crashes, failing calls, and an output that comes back with another size, which an unsigned short may not count |
| `refinement` | `_refine.cfg` | `ShowsThePromisedPictures` | every picture is shown whole, once and in order, unless the output dies; it comes back with the same size or another |
| `closed` | `_closed.cfg` | `ClosedMeansExit` violated | an output that dies under a call leaves the controller waiting for ever |
| `restart` | `MCLedRestart.cfg` | `OneCommandUnderWay`, `SizeKnown`, `BufferHoldsCurrent`, `NoLostWakeup`, `AnswerHasEvent`, `FreshStartEnds` | the protocol's safety with controllers killed and started again over an output that dies too and is started with any of two sizes; a start on a quiet output ends |
| `restart_hurried` | `_hurried.cfg` | `AnswersWithSize` violated | a controller started at once after a killed one waits for ever for its answer |
| `input` | `MCLEDInput.cfg` | `TypeOK`, `CountersAgree`, `NothingLost`, `DocumentsUnderstood`, `ReadsInsideDocuments`, `PlaysLiveList`, `OneLedWalks`, `FillsTheGrid`, `SleepsBetweenSequences`, `MenuComesBack` | parser, examples and playback do what they should, with failing allocations and broken files |
| `input_null` | `_null.cfg` | `ArrayForCaller` violated | success may hand out `NULL` |
| `input_slow` | `_slow.cfg` | `SleepsBetweenSequences` violated | delays above 2147 ms are not slept |

Deadlock is not checked where the output may be killed: the controller may then wait for ever
with nothing left to happen (run `closed` shows one such state, and an output that dies after it
acknowledged SIZE gives another). In run `live` it is checked, and so it is in the runs of `LEDInput`,
where the program stops only by leaving or by crashing.

**Why the bounds are enough.** The wire: the sizes and coordinates surround each limit of the
arithmetic, 127/128, 255/256, 65535, on both sides. The link: an error needs at most one command
that follows another (two LEDs and the UPDT behind them), one call that follows another (two
calls) and one death on either side of a restart (two crashes). The LEDs are one in the grid, one
outside it and the whole grid; the refinement has colours that make the order of two commands
visible. A grid of 2 by 2 has more than one row and one column. Each run with crashes has two
sizes, so that an output may come back with the size it had or with another one: 2 by 2 and 2 by 3
where pictures are compared or controllers restarted, 2 by 2 and 3 by 21846 in `faults`. The last
has 65538 LEDs, of which `numberOfLeds` keeps two, so that RSET counts far beyond the array; its
lengths survive a signed char. In the runs of `MCLedRestart` the grid stays dark, as no property of
theirs looks at colours. Restarts: two, so that a controller
may meet what two others left, with one sequence of one LED and one call in each life. The parser:
six well-formed files (no Seq, no sequence, several Seq, sequences with no LED and with two, ALL, a
name that reads "Seq", an unknown key, delays up to 2147), one of them also cut at every place that
matters and with each token replaced, and odd ones (a length above `LengthMax`, numbers that the
casts change, half an address). Two visits are what it takes for a file to meet what an earlier
one left in the statics, or an example the picture of an earlier one. The examples: 2 by 5, the
smallest grid on which the whole cycle shows; the theorems are for all grids.

**Fairness.** Weak fairness of the controller's thread and of its library: the loops tick for ever
and `pico_stack_tick` does what is due. Weak fairness of the output's receiving and, apart from it,
of its timer, because its `while (1 == isSocketOpened)` ticks for ever and each tick serves timers
and frames. There is none for the user, for whoever starts or kills the output, or for failing
calls. `StartEnds` does not need the output to be started: a SYN without answer ends in ERR.
`LedRestart` adds the output's other sockets, which the same loop serves: `OldSegment` and
`OldTimer`, weakly fair. `LEDInput` has weak fairness of `Works`, whatever the thread does without
waiting for a line; there is none for the user's lines, so no property needs him to type.

## The proofs

| Theorem | States | Assumes |
|---|---|---|
| `RoundTrip`, `SignedCharLoses` | a number survives its two bytes exactly when `Survives(charMax, v)` | - |
| `AddressingTypes` | `Spec => []TypeOK` of `LedAddressing` | - |
| `RightLed`, `EveryLed` | `Spec => []OnlyTheNamedLed`, `Spec => []NamedLedServed` | every set-up is `Faithful` |
| `SystemTypes` | `Spec => []TypeOK` of `LedSystem` | - |
| `StopAndWait` | `Spec => []OneCommandUnderWay` | - |
| `BufferIsCurrent` | `Spec => []BufferHoldsCurrent` | - |
| `WritesAreWoken` | `Spec => []NoLostWakeup` | - |
| `MenuIsConnected` | `Spec => []ConnectedInMenu` | - |
| `AnswersAreWoken` | `Spec => []NoLostAnswer` | - |
| `SizeIsKnown` | `Spec => []SizeKnown` | `SizesSurvive`: both lengths of every size that may be entered survive the controller's char |
| `SystemShowsPictures` | `Spec => ShowsThePromisedPictures`: `LedSystem` implements `LedDisplay` | `NumbersSurvive`: every size that may be entered has at most 65535 LEDs, and both its lengths and each of its indices survive the two programs' char; `SocketWorks`: no read or write of the controller's socket fails |
| `RestartStopAndWait`, `RestartBufferIsCurrent`, `RestartWritesAreWoken` | `OneCommandUnderWay`, `BufferHoldsCurrent` and `NoLostWakeup` are invariants of `RestartSpec` | - |
| `RestartSizeIsKnown` | `RestartSpec => []SizeKnown` | `SizesSurvive` |
| `RestartAnswersAreWoken` | `RestartSpec => []AnswerHasEvent` | - |
| `JsonTypes` | `JsonSpec => []JsonTypeOK` | - |
| `CountersKept`, `NothingIsLost` | `JsonSpec => []CountersAgree`, `JsonSpec => []NothingLost` | - |
| `FilesAreUnderstood`, `ReadingStaysInside` | `JsonSpec => []DocumentsUnderstood`, `JsonSpec => []ReadsInsideDocuments` | - (`Documents` are `WellFormed`) |
| `MenusUseTheParser` | `Spec => JsonSpec` for `LEDInput` | - |
| `InputTypes` | `Spec => []TypeOK` of `LEDInput` | - |
| `ListStaysLive` | `Spec => []PlaysLiveList` | - |
| `ShortSleepsAreKept` | `Spec => []SleepsBetweenSequences` | `ShortDelays`: no delay in a file, or behind its tokens, is above 2147 |
| `OneLedOnly` | `Spec => []OneLedWalks` | - |
| `FillingStays` | `Spec => []FillsTheGrid` | - |

The modules' named assumptions say no more than the C types: lengths are non-zero unsigned
shorts whose product is an int, `CHAR_MAX` is 127 or 255, rows and columns of LEDs are unsigned
shorts. So `SystemTypes` covers sizes above 65535 too: whatever the size, no command stores outside
the array.

**The argument for `LedSystem`.** Few of the properties are inductive as they stand. `SystemInv` in
`LedSystemProofs` joins six parts, each proved for one step from `TypeOK` and the parts it
needs:

* `LinkInv`: where the thread can be in each state of the connection, and that `isSocketOpened`
  agrees with the connection.
* `LostInv`: where the thread is while there is no connection yet, and where it stays once the
  connection is gone; from it and `LinkInv` follows `ConnectedInMenu`.
* `SessionInv`: the output has no connection before the controller asked for one.
* `ChannelInv`: `OneCommandUnderWay`, and what else may be on the network while connecting and
  closing. It holds because the callback writes only on a WR, and each WR comes when the channel
  is empty: from the acknowledgement of the last command, or from a timer that found nothing
  unacknowledged.
* `BufferInv`: `BufferHoldsCurrent`, and that nothing is left to write once connected. The SIZE
  that was loaded before connecting leaves in the callback that connects.
* `WakeupInv`: a WR is to come not only while something waits to be written but at every place
  from which the next command will be loaded. That is what `NoLostWakeup` lacks to be inductive.
  `OnTimer` is the step that could break it: it uses up the last event. It runs only while the
  loop's condition holds, and with nothing loaded that is only where an answer must come first.
  A menu that ticked would break it, as the mutant `TickingInMenu` shows.

`SizeKnown` says of a connected controller that its size is that of the output at the other end. Of a
controller whose output died it says nothing, and cannot: its size is stale from the moment the
output is started with another one. What matters is that no command addressed with a stale size is
obeyed. The invariant is `SizeInv`. Its half `ToldInv` says that on an open connection the size the
controller was told, and the answer that is on its way, are the size of the output that accepted
the connection, and that a SYN still to come finds a controller that was told nothing, with no
answer on its way. `OrderInv` says that the answer came before the menu. A start of the output may
change the size, and keeps `ToldInv` because no connection outlives the process; a new connection
keeps it because only a SYN opens one, and a controller sends one only before its answer. The
branch of `translateToOutput` that connects again would break this, which is hazard and mutant: in
a menu that ticked (`TickingInMenu`) it is reached, and addresses the new output with the old size.
`RoundTrip` gives the bytes of the answer.

**The argument for the refinement.** A picture is promised from the call on, long before there are
commands for it, so the mapping says what the commands still to come will make of the grid. It
does so without following them one by one: of the commands that reach an LED, the last one counts
(`Reaching`, `Finished`), as in `LedDisplay` the last LED that touches a position does. `Promised`
has three slots, and at most one picture in each: for the order to show that the network carries,
for the one in the buffer, and for the sequence that is being translated. Each step of the protocol
is then one of four things:

* It paints or skips one LED of the sequence and leaves every picture as it was (`PaintStep`,
  `SkipStep`), because the command in the buffer now reaches what the LED named
  (`ReachesWhatItTouches`; the other way round is `IndexOfPosition`).
* It moves a picture from one slot to the next (`UpdateStep`, `WriteStep`). The next one is free
  because of `ChannelInv` and `BufferInv`: with two commands under way a picture could overtake
  another one.
* It is the output's obedience to a command: a painting that was already counted, or the order to
  show, which is `Show` (`ObeyStep`).
* It moves nothing (`QuietStep`).

The slots speak of commands for the grid of the output that runs, so each lemma needs the size of
the moment: `CurrentSize` gives what `NumbersSurvive` says of it (with it `Counted` is `Indices`), and
`PicturesStay`, `CommandsStay` and `PromisedStays` say that a step that leaves the size alone leaves
the mapping alone. Only a start of the output changes it, when no connection is open and the mapping
therefore promises nothing (`MappedUnlinked`).

`RefinementInv` is what that takes: `SystemInv`, `SizeInv` (the address is computed with the
output's own columns), `SessionNeedsOutput`, `PeerInv` and `ConnectsOnce`. `PeerInv` relates the
two ends: while the output has a connection the controller runs and knows of no end of it, so the
controller's leaving is seen only as the FIN behind its last command; that is why `Disconnect` may
demand that nothing is promised. `NumbersSurvive` is needed because a number that is changed on
its way paints another LED (runs `addressing_signed`, `addressing_huge`), `SocketWorks` because
either failure calls `exit` in the callback, whatever the program still owes.

**The argument for `LedRestart`.** `RestartInv` is `TypeOK`, the types of what dead controllers left,
`OldInOrder` (each of the dead left at most one segment, in the order of their lives), `SystemInv`, and `SessionNeedsOutput` (an output that does not run has no connection). The steps of
`LedSystem` keep it by the lemmas above; `StartAgain` restores what `InvariantsStart` shows; and the
steps of old sockets change nothing that `SystemInv` speaks of (`OldLeavesNew`,
`LinkInvariantsStay`): that is why the controller's own safety does not depend on how many sockets
the output has. `SizeInv` holds for each controller anew, since the new one was told
nothing and no answer to the old one reaches it. `NoLostAnswer` does depend on the sockets, and is
weakened to `AnswerHasEvent`, where `SessionNeedsOutput` covers an output that dies with the timers
of old sockets running. `AnswerInv` is what makes it inductive: the socket with a WR to come is one
whose sender has no FIN on its way (`Leaves`), for that FIN would end the timer. A SIZE that is
received late starts such a timer, because by `OldInOrder` its sender left nothing else
(`TailInOrder`; `SignedInOrder` has it from `ChannelInv`).

**The argument for `LedAddressing`** is that row-by-row numbering is one-to-one below
`rows * columns` (`AddressInGrid`, `PositionOfAddress` in `LedWireProofs`), and that in a faithful set-up each cast
and each pair of bytes keeps the number. `MCLedAddressing_signed` and `_huge` show that the two
halves of `Faithful` are needed.

**The argument for `JSONToLeds`.** `JsonInv` joins the type of the list with `CountersAgree` and
`NothingLost` (a new sequence is stored at the end only if `numberOfSequences` is the length), the
types of the places in the token list, `HasSequence` (while LEDs are read there is a sequence to
append to), and `HandedOut` (a caller whose pointer is the list has it while the list is not
`NULL`). Every action frees all, adds one sequence, lengthens the last one, or leaves the list
alone: the steps that free are one lemma, whichever error led there.

`DocumentsUnderstood` would be an induction over the tokens of a file if a file were made by a
recursive function. `JsonFormat` states instead where everything in it is: the entries of the
outer object, each with its place and with how many sequences come before it, and the place of each
sequence; an LED takes nine tokens. `WellFormed` relates neighbours only, so the induction is over
the steps of the walk. `WalkInv` is its invariant: in each of the three loops, `tokenIndex` is the
place of an entry, of a sequence or of an LED of the file, the turns left are what the array still
holds, and the list is the file's sequences up to there, the last one cut after the LEDs that were
read (`Part`). `TopStep`, `SequenceStep`, `LedStep`, `LedsDoneStep` and `ArrayDoneStep` are one lemma for
each way the walk goes on; `NothingRefused` is that no error path is open; `AllIsRead` is the end.
It needs `FreshList`: a list that is initialised, and that no walk has used, is empty, although
`initLEDSequences` and `extractRGBFromFile` are called in any order. The casts leave the numbers of
a well-formed file alone (`LedFound`, `SequenceFound`); they matter for the other files only, of
which `JsonTypes` speaks. `ReadsInsideDocuments` follows from `WalkInv` and the places.

**The argument for `LEDInput`.** Each of its steps is a step of `JsonNext` or leaves the parser
alone, so it inherits the parser's invariants (`MenusUseTheParser`, `MenusKeepCounters`,
`MenusLoseNothing`, `MenusUnderstandFiles`, `MenusReadInside`). `PlaysLiveList` needs what `extractRGBFromFile` has just returned (`Returned`).
The examples rest on `PaintTwo`, that the second of two LEDs is painted over the first, and on
`TouchesItself`, that an LED's row and column name one position (division by the width of a line).
`FillInv` adds to `FillsTheGrid` where the pass is: the LED that runs stays below `remaining`, so it
cannot darken what is filled. `CycleInv` adds to `OneLedWalks` the range of the next position.
`SleepInv` joins what `SleepsBetweenSequences` takes from parser and playback: every delay in the
list was read from a file or behind its tokens (`WalksFile`, `ListIsShort`, with `DelayRead` for
where it is read), and `firstSequence` is set only before the first sequence of all (`FirstOnly`).
`ShortDelays` is what run `input_slow` shows to be needed; the files of run `input` satisfy it, among
them one with a delay of 2147 and one with 65541, which the cast makes 5.

Only model-checked: the liveness properties `CallsReturn`, `StartEnds`, `LastPictureShown`,
`CloseEnds`, `FreshStartEnds` and `MenuComesBack` (fairness is out of the prover's reach). Every
invariant of a passing run, and the refinement, is a theorem. That a file built by concatenating the
tokens of its entries is `WellFormed`, as those of `MCDocuments` are, is evaluated by TLC for these
(`JsonAssumption`) and not proved for all: it is an induction over data.

## Findings

* Numbers rebuilt from signed chars lose 256 (`LEDServer.c:256`, `LEDConsoleOut.c:191`).
* Grids of more than 65535 LEDs alias LEDs, though `LEDConsoleOut.h:42` promises that an address
  out of range does nothing.
* "Socket closed. Exit normally." (`LEDServer.c:210`) is printed by a controller that then waits
  for ever.
* `extractRGBFromFile` may return 0 with `NULL` where `JSONToLeds.h:29` promises an array
  (`JSONToLeds.c:339`): a call that failed early leaves `isInitialized` set, `initLEDSequences` leaves
  it so when there is no memory, and a file without a sequence is then extracted with success.
  `fileMenu` reads through the pointer.
* The playback's `delay * 1000000` overflows an int above 2147 ms (`LEDInput.c:201`).
* The output answers SIZE on whichever socket has the next WR (`LEDConsoleOut.c:91`): a controller
  that is killed and started again at once may wait for ever.
* The branch of `translateToOutput` that connects again (`LEDServer.c:87`) is dead as the program
  stands: nothing ticks in the menu, so `isSocketOpened` is still set when the menu calls, and an
  output that was started again answers with a reset, which ends the controller. The model keeps
  the branch; `MenuIsConnected` proves that it is never taken. If the menus ever tick, it will keep
  the size of the old output (`SizeKnown` fails under `TickingInMenu`).

## Not modelled

* picoTCP's congestion control, windows, checksums and partial writes: nothing in the modelled use
  reaches them (one command of at most nine bytes is under way). The library itself is vendored:
  its headers are in the repository, its sources are not, so `PicoTcp` is external.
* jsmn's tokenising: vendored, header only; its token lists are taken as given.
* Two controllers that run at once: both configure the hard-coded address 10.42.0.5 and the same MAC,
  and the network then serves neither reliably. What the output does with more than one socket is
  modelled by `LedRestart`, where the others are those of dead controllers.
* `manualMenu`, which nobody calls, and `networkMenu`, which is empty.
* The WS2812b port beyond its size and `setLed`'s range test: what remains is marked "TO DO" there.
* Blocks that are leaked by the shape of the code (the `LEDSequence`s, the `AddressableLED`s, the token
  list on some errors), heap blocks that are a few bytes short, wording, escape sequences, prompts.

Of the about 7000 lines of C in the repository some 5350 are the vendored headers of picoTCP and
jsmn: type layouts and prototypes with no behaviour that the two programs rely on. The map covers
most of what remains and changes state, which is why its share of the whole stays well below a
third.

## Plan

Done: all modules above. What is left:

1. `LEDInput` and `LedSystem` in one module, with the menus as the source of the requests.
