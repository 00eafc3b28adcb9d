# A TLA+ model of Stm32Fingerprint

The repository is a C++ library that drives a Hi-Link ZW0608 fingerprint module
over a serial line, together with an example application for a Nucleo-F429ZI
board (ThreadX, a shell, a generic state machine engine). This directory holds
TLA+ modules translated from that code, TLC configurations that check them on
small instances, and theorems about them that TLAPS checks for every instance.

To check a configuration: `tlc -config MCSensorQuiet.cfg MCSensorFsm.tla`; to check
proofs: `tlapm SensorFsmProofs.tla`, and likewise the other modules named `...Proofs`
(`SensorQuietProofs` and `SensorServiceProofs` take a minute each). `PROJECT.json` lists the runs, the source lines each definition
stands for, the hazards and the findings.

## 1. The system

| Part | Where | State | Operations |
|---|---|---|---|
| Command service `SensorHiLinkZw0608` | `src/SensorHiLinkZw0608.{hpp,cpp}`, `src/States/*`, `src/SensorStates.hpp` | `lastConfirmationCode`, the READY flag, `rxFrame`/`rxData`, per state: `stateEnteredMillis`, result pointers, `ignoreConfirmation` | ~35 blocking API methods; `setup`, `initialize`, `loop`, `loopIo`, `isrDetect`; per state `onEnter` and `handle(event)` |
| State machine engine | `examples/.../AppCore/FSM/*` | `current_state_` (a variant of pointers), the event queue (10 entries) | `handle`, `transitionTo`, the action types (`TransitionTo`, `DoNothing`, ...), `enqueueEvent`, `dequeueEvent`, `loop` |
| Reply parser and packet format | `SensorHiLinkZw0608.cpp` 61-292 | `parserState`, `cnt`, `frameBytesParsed`, `rollingChecksum`, `rxFrame`, `rxData` | `parseReply`, `calc_checksum`, `sendPacket`, `sendCommand` |
| Events and value types | `SensorEvents.hpp`, `Types/*` | none | constructors, `setData`, names of codes |
| Legacy driver `Sensor` | `src/Sensor.{hpp,cpp}` | `currentState`, `lastStateChange`, the supply pin | `setup`, `loop`, `parseReply`, `isrDetect`, `handShake` ... |
| Application shell, start-up | `AppCore/Command/Fingerprint.hpp`, `AppCore/main.cpp`, `InterruptHandlerCallback.cpp` | the session's command | `fp start`, `fp ...`; creating the two threads |
| Configuration and identification | `Stm32Fingerprint.*`, `libsmart_config*` | constants | none |
| libsmart submodules | not in this tree | queue, event flags, serial buffer | represented by how the code uses them |
| Board support, HAL, ThreadX, NetX Duo | vendored or generated | scheduler, interrupts | represented by interleaving |

Paths without a prefix are under `src/src/` and, for `AppCore`, under
`src/examples/nucleo-f429zi/AppCore/`.

### How the parts interact

Four actors meet in one `SensorHiLinkZw0608` object:

* the **calling thread** (the shell): every API method clears
  `lastConfirmationCode` and READY, enqueues one event, blocks on READY for one
  second, and evaluates `lastConfirmationCode`;
* the **state machine thread** (`loop`, once a tick): takes one event from the
  queue, dispatches it, and then dispatches a `LoopEvent`, in which the waiting
  states poll their deadlines;
* the **I/O thread** (`loopIo`, once a tick): feeds serial bytes to `parseReply`,
  which calls `handle(DataReceivedEvent)` *directly*: the state machine runs in
  this thread too, without a lock;
* the **interrupt** of the detect pin: enqueues `DetectEvent`.

Entering a waiting state transmits the command; entering ReadyState sets READY. The
data of a reply lie in `rxFrame`, which the I/O thread fills, hands to a handler and
clears: some methods read it themselves after READY, for others the handler copies.

The legacy driver stands alone: `loop` and `parseReply` in one thread, the interrupt
of the detect pin, and the supply pin, which both switch.

### What is hard about it

* Two threads dispatch events on one `current_state_`; a transition publishes the
  new state before its `onEnter` has run; either can overwrite the other's.
* One `lastConfirmationCode` and one READY flag serve all calls. A result has no
  mark that says to which call it belongs.
* Deadlines: the caller's second races the states' seconds and the module's answer,
  and a state whose deadline has passed enqueues a `TimeoutEvent` every turn.
* A time-out of an enrolment or an identification goes on through PsCancelState,
  whose confirmation must not hide the time-out.
* The queue is bounded, events are dropped silently, both when it is full and when
  the current state has no row for them.
* ResetState calls the blocking `cancel()` inside the thread that would serve it.
* The states keep pointers into the stack frame of the method that waits.
* The parser has counters and buffers that are reset in different cases of its
  switch, and no way out of its ERROR state.
* The caller reads `rxFrame` while the I/O thread clears it; a transfer's offset and
  size are unsigned and survive from one transfer to the next.
* The legacy driver's interrupt may come between any two statements of `loop`, both
  write its state and the pin, and one time stamp, 0 for "none", serves three waits.

`PROJECT.json` lists all of these, and more, under "hazards", each at its line.

### What makes each part correct

* Command service: a call returns; it returns ok() only if its own command
  succeeded; a refusal that was taken is reported; nothing is written through a pointer of a call
  that has returned; commands and answers alternate on the line.
* Engine: transitions leave the state that decided on them; the queue keeps its
  bound; no state is entered for ever.
* Parser: on a faultless line every packet is delivered once, in order, unchanged;
  a changed byte behind the length field does not make it deliver a packet that was
  not sent; the buffer is not overrun. Once a byte is lost none of this is promised.
* Readout: no write outside the caller's buffer, a complete transfer is in it, no
  byte of another call's reply is returned.
* Legacy driver: a touch in standby wakes the module; standby means that it is off; it
  does not sleep early, and it sleeps in the end unless single bytes other than 0x55
  keep restarting its time-out.

## 2. Modules

| Module | Kind |
|---|---|
| `SensorFsm` | the command service with its engine, threads, interrupt and module |
| `CommandService` | abstract specification: what a caller is promised |
| `SensorFsmProofs` | theorems about `SensorFsm` in every environment |
| `SensorQuietProofs` | theorems about `SensorFsm` when nothing races: one command at a time, refusals |
| `SensorServiceProofs` | ... continued: completions, own successes, the refinement of `CommandService` |
| `ReplyParser` | the parser, byte by byte, and the serial line |
| `ReplyParserProofs` | theorems about `ReplyParser` on any line, and on a faultless one |
| `ReplyFaultProofs` | a theorem about `ReplyParser` on a line that changes a byte |
| `Readout` | how the data of a reply reach the caller |
| `ReadoutProofs` | theorems about `Readout` |
| `LegacySensor` | the driver `Sensor`: `loop` by statements, interrupt, supply, clock |
| `LegacySensorProofs` | theorems about `LegacySensor` |
| `MCSensorFsm`, `MCReplyParser`, `MCReadout`, `MCLegacySensor` | constants for TLC |

Definitions named `...Not`, `No...`, `Keep...` and the like whose comment begins
"Deliberately wrong" are plausible bugs. Nothing in a specification uses them; they
take the place of the definition that follows to show that each property notices.

### SensorFsm

| State | In the code |
|---|---|
| `current_state` | `StateMachine::current_state_` |
| `queue` | `ThreadXStateMachine::queue`; an event is its type and the call it came from (0: none) |
| `ready`, `lcc` | the READY bit of `flags`; `lastConfirmationCode`, in the four classes the code tells apart |
| `ignoreConfirmation`, `sink`, `expired` | fields of the state objects: the flag of PsCancelState; the call whose result pointer a state keeps; whether `millis() - stateEnteredMillis > TIMEOUT_CMD` |
| `fsm`, `io`, `caller` | program counter and locals of the three threads |
| `pending` | commands transmitted that the module has not finished answering |
| `results` | what each call returned |
| `carriedOut`, `failed`, `okDuring` | history only: never read by an action. Calls whose command the module carried out to the end (whether or not the host noticed); calls of which a state stored the module's refusal while they waited (identifications, whose stages supersede each other, excepted); calls during which a state accepted some OK |

A dispatch is cut where threads can meet: *visit* (read `current_state_`, choose
the handler), *handler*, *transitionTo*, *onEnter*. In the state machine thread these
are `Dequeue`, `Transition`, `Enter...`, then `VisitLoop` and `HandleLoop`; in the I/O
thread `ReceiveFrame`, `HandleData`, `IoTransition`, `IoEnter`; an API method is
`ClearCode`, `ClearFlag`, `EnqueueCall`, `AwaitReady` or `AwaitTimeout`, `ReadResult`.
Each state's `handle(const DataReceivedEvent &)` is one operator (`CommandState`,
`PsUpCharState`, ...) that says what the handler does with a packet: store the
confirmation, restart the deadline, write through the pointer, go to ReadyState.

`Disciplined` selects the environment. FALSE: any deadline may pass at any moment.
TRUE: a state's deadline passes only if no answer is under way, the caller is more
patient than the machine, and the first call, like the events the application
enqueues by itself before it, is made when the machine is at rest. That is
how the application is meant to be used (all deadlines are far longer than the
module's answers) and the promise of `CommandService` is made under it; the
constants of the code do not enforce it (the caller waits 1000 ticks, several
states longer), which the runs `sensor_late` and `sensor_race` are about.

Abstractions, each a deliberate coarsening:

* assigning the variant `current_state_`, and a handler's body between visit and
  transition, are atomic; so is the test-then-set of `lastConfirmationCode` in
  PsAutoEnrollState (`SuccessIsConfirmed` does not depend on it: what is stored is
  always a confirmation of the packet at hand);
* taking an event from the queue and visiting are one step of the state machine
  thread: nothing it reads in between can be seen by others;
* deadlines carry no durations; `Expire` may come at any moment;
* the supply pin, switched on in InitializeState, is not part of the state, and the
  `InitializeEvent` that start-up enqueues is in the queue from the beginning;
* READY stays set when a waiting thread has seen it (the flag group is used that
  way: only `clearReadyFlag` clears it); `awaitReadyFlag`'s default branch,
  ERROR_GENERIC, is for errors of the flag group itself and is left out;
* a packet is its packet identifier, length class, stage and whether its
  confirmation byte is OK; it is complete and correct, which is `ReplyParser`'s
  business; the module's packets come in the order it works through its commands,
  and one that the I/O thread has not parsed is not distinguished from one not sent;
* stage parameters 2 to 4 are handled like 1 by both Auto states and are not
  generated; data transfers have at most two data packets.

### CommandService

Calls are carried out one after the other; the command of a call is served at most
once; a call returns, with ok() if and only if it was served. `SensorFsm`
implements it (`ImplementsService`) with `served` mapped to "the module carried out
this call's command, and refused no stage of it". The promise is for methods answered by packets
or stages; a bulk transfer that is cut off breaks it (`sensor_cut`).

### ReplyParser

`parser` is the parser's state, with `rxFrame` the sequence of bytes written since
`frameBytesParsed` was last reset (zeros behind). `Parse` is one turn of the loop,
one operator per case. `InChecksum` joins CHECKSUM, CHECK_CHECKSUM and DONE, which
the code runs through on one byte. The checksum and the length field keep their 16
bits, `packetLength - CHECKSUM_SIZE` its unsigned wrap-around. `delivered` records what a handler
reads when `handle(DataReceivedEvent)` is called. The module's packets are assumed
to be laid out as `sendPacket` lays out the driver's: `line` is the number of the
current packet's next byte and the checksum of those before it, `FrameByte` that
byte, `calc_checksum` one turn of the summing loop. A write behind `rxFrame` is
undefined behaviour; it is recorded and the parser stops there. `Lose` and `Corrupt`
are the faults of the line, from the byte `FirstFaulty` of a packet on.

### Readout

| State | In the code |
|---|---|
| `caller`, `ready`, `lcc` | the calling thread in a method; READY; `lastConfirmationCode` |
| `event`, `state` | the queue, of which one call at a time needs one place; `current_state_`, named by the method it serves |
| `bufferOffset`, `downloadSize` | the fields of PsUpCharState, and `offset`, `imagesize` of PsUpImageState |
| `size`, `buffer` | the `template_t` or `image_t` of the shell and the memory it points to; its domain grows if something is written behind it |
| `rxFrame`, `io` | the frame behind DATA_OFFSET, where `rxData.data` always points; the I/O thread between the parser's states |
| `result` | what a method has read so far, or the caller's `sysPara_t` |
| `job`, `sent` | the module's progress; history: the bytes of data it has sent |

A byte is known by the call whose reply it was part of and its place there. The data
take three ways: `ReadField`, one byte at a time, by the caller after READY (`match`,
`readIndexTable`, `readInfPage` and those like them) while `Clear` may come in between;
`CopyFields` in the handler before READY (`readSysPara`); `CopyData` packet by packet
(`upChar`, `upImage`). The environment is disciplined as in `SensorFsm`: a deadline
passes only when the module owes nothing, and the caller outwaits the machine, so
`awaitReadyFlag` never returns without READY here. Several methods with the same shape
are one kind; a reply may be shorter than what a method reads.

### LegacySensor

`loop` is cut where an interrupt makes a difference: `pc` is *standby* after the switch
has chosen case STATE_STANDBY, *switchOff* between its two statements, *sleep*
between those of `standby()`. Elsewhere the interrupt does nothing, as it looks for
STATE_STANDBY first, so a turn is one action: `LoopSetup`, `LoopReadyWait` (which falls
through into case STATE_READY), `LoopReady`. The clock is `millis()` modulo
`ClockSize`, and `lastStateChange` keeps its sentinel 0, which the clock reaches as well.
`ParseReply` is the driver's own parser on the bytes that have arrived, with its
inverted test for the wake-up byte. `End` is `end()` and `errorHandler()`: `loop` is
called no more, the interrupt stays armed. `quiet` and `powered` are histories: the time
since READY began or was confirmed, and since the supply was switched on. They are cut
off above the longest wait. What is on the line when the supply goes off is lost; bytes
already in the buffer stay. The module may transmit for ever: its transmissions are not
counted, but one begins only while at most `MaxBuffered` bytes wait in the buffer, which
keeps the buffer finite.

## 3. Runs

Sizes are distinct states; times are with two workers.

| Run | Instance | Shows |
|---|---|---|
| `sensor_quiet` | disciplined, 2 calls of any mix of six of the seven shapes of a method (`readInfPage` is left to `sensor_info`), after any two of the application's events; 512k | refusals and completions reported, no lost or foreign transition, no write after return, half duplex, no call dropped |
| `sensor_service` | disciplined, fair, 2 plain calls, enrolments or identifications; 32k | refinement of `CommandService`, with progress; own answers; every wait ends |
| `sensor_storm` | undisciplined, 2 plain calls, an interrupt, a queue of 2; 1.4M | the types; no ok() without an OK accepted during the call, and none after a state has stored the call's refusal |
| `sensor_live` | undisciplined, fair, a queue of 1, `readInfPage` and the hand shake or a reset; 51k | every call returns, every wait ends |
| `sensor_late`, `sensor_cut`, `sensor_info`, `sensor_race` | counterexamples | findings, below |
| `parser_line` | 2 packets of six kinds, a wake-up byte, at most one byte lost and one changed behind the length field; 194k | order, completeness and buffer bound as long as no fault has occurred; a changed byte is noticed as long as none is lost |
| `parser_lost` | a header byte lost | finding, below |
| `readout` | 3 calls of any mix of six kinds, up to 3 data packets of up to 4 bytes into a buffer of 4; 114k | no write outside the buffer, complete transfers are copied, no foreign bytes |
| `legacy` | fair, a clock of 8, waits of 2, 1 and 3, transmissions without end; 410k | the four safety and two liveness properties of the driver |

Why the bounds are enough. In `sensor_quiet` two events of the application and two
calls are four commands in a row: one whose answer is lost, one that would be harmed
by the remains, one harmed by the remains of that, and the one observed; the machine
keeps nothing longer than from one entry of a state to the next. A queue of one or two
overflows with a single interrupt, an application event or a repeated time-out; three
is enough for the disciplined runs never to overflow. `sensor_quiet` has no interrupts:
with a single one its action properties, except `NoCallDropped`, fail (the double
time-out below), and no text of the repository promises otherwise. In `parser_line`, faults come
behind the length field (`FirstFaulty` = 10, as in the theorem), the second packet shows what the first left
behind, one packet (data 0, 18, 226) turns into another one when its 18 is lost, so that
`ChangeNoticed` has to end with the first loss, and `MaxData` = 16 leaves room for the zeros behind a packet while the first
overrun would be seen. In `readout` a third call is one after the call that met
remains; transfers are shorter than the buffer, fill it, and exceed it by several
packets; `Word` = 16 makes a negative difference a large one. In `legacy` the clock wraps
round within two waits, so that every wait meets the sentinel, and a transmission may
begin while two bytes wait in the buffer, which is enough for a packet behind other
bytes, for one that is never cleared, and for single bytes, 0x55 or packets in every turn.

`RefusalIsReported` speaks of refusals that a state has stored. One that comes when a
stale answer has already ended the wait meets ReadyState and is ignored; then the call
may return ok(), which is what `SuccessIsOwn` forbids and `sensor_late` shows. In the
undisciplined environment it is checked for plain calls only: an enrolment whose
deadline passes at the wrong moment lets the OK of a stage take the place of
ERROR_TIMEOUT (a hazard in the list), and the code promises nothing about that. In `sensor_service` bulk calls are left out because a cut transfer
reports ok(). `CHECK_DEADLOCK` is off in the parser runs, where the module has
nothing left to send in the end, and in `readout`, where the caller makes no more
calls; the other runs never stop, as their threads loop.

### Fairness

`FairSpec` of `SensorFsm`: both threads run again and again (`RunThreadEvery` with one
tick); a blocked call resumes when READY is set or its second is over; time
passes; the module gets to each command and answers it or drops it. Nothing forces a
call, an application event or an interrupt. In `ReplyParser`, bytes that have arrived
are read (`loopIo` polls every tick). In `LegacySensor`, `loop` is called again and again,
at least once a millisecond, until `end()`, and time passes; nothing forces touches,
transmissions or calls. `Readout` states no liveness: its questions are about bytes.

### Findings

* `sensor_late`: a result belongs to whichever call is waiting. A call that gives up
  after a second, or whose event is dropped, leaves its answer to the next one,
  which may return ok() for a command the module never carried out.
* `sensor_cut`: PsUpCharState's time-out leaves `lastConfirmationCode` alone, which
  holds the OK of the first confirmation: `upChar()` returns ok() with half a template.
* `sensor_info`: PsReadInfPageState takes the first data byte of the information page
  for a confirmation; unless it is 0, `readInfPage()` returns that byte as an error
  although the state has logged OK.
* `sensor_race`: a packet and a `TimeoutEvent` dispatched at the same time overwrite
  each other's transition; `handle`'s own documentation warns of calling it outside
  the machine's thread.
* `parser_lost`: when the first header byte is lost, case NONE falls through to HEADER
  and the packet is accepted shifted by one: the handlers read the checksum's high
  byte, 0, in place of the confirmation, so a refusal reads as success.

## 4. Proofs

The proofs hold for all values of the constants, from the `ConstantsAssumption` of
each module: bounds are naturals, a queue has room for one event, waits are shorter
than the clock's range, a frame is longer than what is read from it, a packet has between 1
and MAX_DATA_SIZE bytes of data, which is at most 256.

`SensorFsmProofs`:

* `TypeCorrect`: `Spec => []TypeOK`, with the queue's capacity. `TypeOK` is inductive;
  its conjunct that the caller's kind is one of `CallKinds` while it is about to
  enqueue makes it so. One step per action; lemmas give the types of the queue, the
  transition table and the module's replies.
* `SuccessConfirmed`: `Spec => []SuccessIsConfirmed`. The property is not inductive: a
  method copies `lastConfirmationCode`, so one has to know that this is fresh. The
  strengthening `FreshInv` adds `CodeIsFresh`: while a call waits, `lcc` is OK only if an
  OK was accepted since the call cleared it. It is kept by the handlers because they
  store what they record, and by the call because nothing can bring an older OK back
  after the clearing. It holds in every environment, races included.

`SensorQuietProofs` and `SensorServiceProofs` prove what the undisciplined machine does
not have. Their hypothesis is `QuietEnvironment`, which the instance `sensor_quiet`
satisfies:

* `Disciplined`, without which `sensor_late` and `sensor_race` show that the
  conclusions are false;
* `MaxDetects = 0`. A touch while an enrolment times out keeps its `TimeoutEvent` in the
  queue for one more turn, in which the state, whose deadline is still over, enqueues a
  second one; that one ends PsCancelState as soon as it is entered, and the machine is
  ready while the module still owes the cancel's answer. (TLC finds this behaviour when
  `sensor_quiet`'s instance is given one interrupt; it is listed as a hazard);
* `"Reset" \notin AppEvents`. ResetState calls `cancel()` in the machine's own thread.

Calls, application events, the capacity of the queue and the methods in use are
arbitrary. The invariants come in four layers, each resting on those before it:

* `TurnInv` (`OneCommandAtATime`): at most one command is under way. The queue holds at
  most one event, and none while an answer is under way (`QueueInv`); a transition is
  made when nothing else happens (`MoveInv`); a deadline is over only in the state that
  is current and when nobody answers (`LoopInv`, `WaitInv`); the answer that the module
  owes, and the packet in the I/O thread's hands, belong to the current state and, but
  for a cancel's, to the waiting call (`PendingInv`, `IoInv`); the machine is busy only
  while a method waits without READY, and ready when it is not (`CallerInv`). Each part
  is needed for another: what makes a packet belong to the current state is that no
  time-out can be in the queue, and what makes that so is that the packet's state has
  restarted its deadline. `HalfDuplex`, `TransitionFromDecidingState`,
  `NoWriteAfterReturn` and `NoCallDropped` follow from it as action properties.
* `RefusalInv` (`RefusalsAreReported`): once a state has stored a refusal,
  `lastConfirmationCode` is an error, and packets come only in the two states that do not
  store over it, for later stages of an enrolment and for the cancel (`RefusedInv`). In
  every other state a refusal is the last packet of its command, and no refusal follows
  the packet that finished one (`RefusalEnds`).
* `CompletionInv` (`CompletionsAreReported`): the mirror image for calls that were
  carried out. Stages are stored only while the code is still OK or untouched
  (`EnrollInv`), and data only follow a stored OK (`TransferInv`). The hypothesis
  `NoInfoPage` leaves `readInfPage` out, for which `sensor_info` refutes the conclusion.
* `OwnInv` (`SuccessesAreOwn`): OK in the code of a command that is not finished is that
  of a stage, and then the machine still waits in the Auto state, so that the method
  cannot see READY (`StageInv`, with `CallerInv`); an OK that ends a state is the packet
  that finished the command (`LastOk`). The hypothesis `NoTransfers` leaves bulk
  transfers and the parameter page out, for which `sensor_cut` refutes it.

`MachineServes` puts the last three together: under the mapping of `ImplementsService`
every initial state is one of `CommandService`, `ClearCode` is a call, the step
in which the module finishes a command (`ReceiveFrame`) serves it, `ReadResult` returns, and
every other step stutters.

`ReplyParserProofs`: `TypeCorrect`, `Ordered` and `Fits`, for packets of any content and
any length up to MAX_DATA_SIZE, any number of them and of wake-up bytes. `TypeInv`
adds to `TypeOK` that the line is somewhere in the packet sent last (`OnTheLine`).
`DeliveredInOrder` says nothing of a packet under way, so `LineInv` adds `LockStep`: as
long as nothing is lost or corrupted, the parser is waiting for the very byte that
comes next (`InStep`), with its state, counter, length, checksums and stored data
those of the bytes so far, and everything before the current packet delivered. One
lemma per field of the format shows that a byte keeps them in step (`HeaderInStep`,
... `ChecksumInStep`), `EndsInStep` that the last byte hands over what was sent,
`WakeUpKeeps` that 0x55 between packets leaves nothing behind.

`ReplyFaultProofs`: `ChangeIsNoticed` is `ChangeNoticed` under `OneWrongByte`: at most one
byte is changed, and faults come behind the length field. Until the change the
parser keeps step (`LineInv`); afterwards it still knows where it is in the packet, but
its sum, or the checksum it has read, is off by the change (`OutOfStep`), which no later
byte repairs, so that the comparison fails and the parser stays in ERROR (`Caught`). All
of this ends when a byte is lost (`FaultInv`), and what is lost stays lost
(`LostForEver`). Hypothesis and conclusion are as wide as the checksum: a lost byte or a
changed length compares the sum with other bytes of the line, which may happen to fit
(`parser_lost`, and the packet 0, 18, 226 above), and two changes may cancel out.

`LegacySensorProofs`: `TypeCorrect`, `StandbyOff`, `SleepQuiet` and `WaitedReady`, from one
invariant, `DriverInv`. What the properties do not say and the induction needs:

* `Statements`: which state and pin go with each place in `loop`: an interrupt
  between the statements of STATE_STANDBY is undone by the one that follows;
* `ReadyTimed`: while READY is being timed, `quiet` is at least the time the driver
  computes from its stamp, so that the driver's wait is never longer than the
  history's; a stamp of 0 begins a new wait, which can only sleep later;
* `WaitTimed`: the same for `powered` and the wait for readiness.

`SleepQuiet` and `WaitedReady` are action properties; they follow from the invariant in
the state before the step. The argument needs that `loop` runs at least once a
millisecond (`ticked`): a longer pause could let the clock wrap round unseen.

`ReadoutProofs`: `TypeCorrect`, `CopiesWithin`, `CompleteCopied` and `OwnBytes`, from one
invariant, `ReadoutInv`. Its parts beyond the properties:

* `Handshake`: who may be where at the same time: a packet is handled only in the
  state of the call that waits, READY is set only when the machine is at rest;
* `FrameInv`: `rxFrame` holds zeros, or bytes of the present call's reply; this makes
  `OwnBytes` inductive, as a caller may read at any time after READY, and it rests on
  the frame being empty before a packet;
* `TransferInv`: between packets the offset is the number of bytes sent or the
  capacity, whichever is less, `size` is still the capacity, and the buffer holds
  the bytes up to the offset; from it the unsigned difference never wraps round;
* `Reading`: how far the reads of a method are.

Model-checked only: liveness (`CallsReturn`, `WaitsEnd`, `AllDelivered`, `TouchWakes`,
`ReadyEnds`) and the progress that `ImplementsService` adds to `MachineServes`: there is no
prover for fairness. Every invariant and every action property of a passing run is also
stated by a theorem, in full or under the hypotheses above.

## 5. Not modelled

The contents of commands, and which command a method sends (`search()` sends the wrong
one, a hazard in the list); the caller's time-out together with the readout of data;
the legacy driver's `handShake` and `readSysPara`, which only transmit; start-up before
the threads exist; `end()`/`errorHandler()` of the machine, which delete the queue; engine
actions the sensor does not use (`Maybe`, `Terminate`, `ReissueEvent`); names, texts and
logging; the shell's parsing and printing. Board support, HAL, CMSIS, ThreadX and NetX
Duo are generated or vendored and make up nearly all lines of the repository; they are
represented by the scheduling of threads and by interrupts at any time. The libsmart
libraries (queue, event flags, serial buffer, pins) are not in this tree.

## 6. Plan

1. Composition of the byte level with the machine: `ReplyParser`'s deliveries as
   `SensorFsm`'s packets, on an instance with one command.
2. The disciplined machine with interrupts: which of its properties survive the double
   time-out, and an invariant in which the queue may hold events besides the current one
   (`NoCallDropped` and the two result properties are candidates).
