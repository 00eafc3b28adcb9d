------------------------------ MODULE SensorFsm ------------------------------
(***************************************************************************)
(* The command service of SensorHiLinkZw0608: one blocking caller (the     *)
(* shell thread), the state machine thread (loop), the I/O thread          *)
(* (loopIo), the detect interrupt and the fingerprint module at the other  *)
(* end of the serial line.  The state machine is driven from two threads:  *)
(* loop() dispatches queued events and LoopEvent, while parseReply()       *)
(* dispatches DataReceivedEvent directly in the I/O thread.  Every         *)
(* dispatch is therefore cut at the points where the threads can meet:     *)
(* reading current_state_, running the handler, writing current_state_,    *)
(* running onEnter.                                                        *)
(*                                                                         *)
(* Time is abstracted: a deadline may pass at any moment (Expire,          *)
(* AwaitTimeout) unless Disciplined restricts it.                          *)
(***************************************************************************)
EXTENDS Integers, Sequences

CONSTANTS
  CallKinds,     \* the event types that the API methods in use enqueue
  AppEvents,     \* the event types the application enqueues by itself
  MaxCalls,      \* bound: API calls in a behaviour
  MaxAppEvents,  \* bound: events enqueued by the application
  MaxDetects,    \* bound: detect interrupts
  QueueSize,     \* capacity of the event queue (10 in the source)
  Disciplined    \* TRUE: no deadline races an answer, the caller outwaits
                 \* the machine, and the first call follows the hand shake,
                 \* other events of the application one at a time before it

DataStates == {"PsUpChar", "PsUpImage", "PsReadSysPara", "PsAutoIdentify",
               "PsAutoEnroll"}
AutoStates == {"PsAutoIdentify", "PsAutoEnroll"}
TimedStates == DataStates \union
               {"Command", "PsCancel", "PsDownImage", "PsReadInfPage",
                "GetChipSn", "HandShake"}
States == TimedStates \union
          {"Uninitialized", "Initialize", "Ready", "Reset", "Error"}
EventTypes == TimedStates \union
              {"Initialize", "InitOkReceived", "Detect", "Timeout", "Reset",
               "Error"}
Codes == {"UNKNOWN", "OK", "ERROR_SENSOR", "ERROR_TIMEOUT"}

ASSUME ConstantsAssumption ==
  /\ CallKinds \subseteq DataStates \union {"Command", "PsReadInfPage"}
  /\ AppEvents \subseteq {"Command", "HandShake", "PsCancel", "PsDownImage",
                          "GetChipSn", "InitOkReceived", "Reset", "Error"}
  /\ MaxCalls \in Nat /\ MaxAppEvents \in Nat /\ MaxDetects \in Nat
  /\ QueueSize \in Nat \ {0}
  /\ Disciplined \in BOOLEAN

VARIABLES
  current_state,      \* StateMachine::current_state_
  queue,              \* ThreadXStateMachine::queue
  ready,              \* the READY bit of flags
  lcc,                \* lastConfirmationCode
  ignoreConfirmation, \* PsCancelState::ignoreConfirmation
  expired,            \* the timed states whose deadline has passed
  sink,               \* per data state: the call its result pointer belongs to
  fsm,                \* program counter and locals of the state machine thread
  io,                 \* program counter and locals of the I/O thread
  caller,             \* program counter and locals of the calling thread
  pending,            \* commands the module has not finished answering
  budget,             \* application events and interrupts still to come
  results,            \* what each call returned
  carriedOut,         \* history: calls whose command the module carried out
  failed,             \* history: calls whose refusal a state took while they waited
  okDuring            \* history: calls during which some OK was accepted

hostVars == <<current_state, queue, ready, lcc, ignoreConfirmation, expired,
              sink, fsm, io, caller, results>>
history == <<carriedOut, failed, okDuring>>
vars == <<hostVars, pending, budget, history>>

------------------------------------------------------------------------------
(* Values. *)

CallIds == 0..MaxCalls   \* 0: not on behalf of an API call
Kinds == CallKinds \union {"none"}
Event(type, call) == [type |-> type, call |-> call]
Events == [type : EventTypes, call : CallIds]
NoEvent == Event("Timeout", 0)

Pids == {"ack", "data", "end"}       \* packet identifiers 0x07, 0x02, 0x08
PlainLength == 3                     \* a confirmation code and the checksum
EnrollLength == 5                    \* ... and two parameter bytes
IdentifyLength == 8                  \* ... and the id and score of a match
Confs == {"OK", "ERROR_SENSOR"}
Stages == 0..6                       \* parameter 1; 2..4 are handled like 1
Frames == [call : CallIds, pid : Pids, conf : Confs,
           len : {PlainLength, EnrollLength, IdentifyLength}, stage : Stages]
NoFrame == [call |-> 0, pid |-> "ack", conf |-> "OK", len |-> PlainLength,
            stage |-> 0]
Jobs == [state : TimedStates, call : CallIds, step : 0..6]

FsmIdle == [pc |-> "dequeue", at |-> "Ready", to |-> "Ready", event |-> NoEvent]
FsmPcs == {"dequeue", "transition", "enter", "visit", "loop", "resetAwait"}
IoIdle == [pc |-> "idle", at |-> "Ready", frame |-> NoFrame]
IoPcs == {"idle", "handle", "transition", "enter"}
CallerPcs == {"idle", "clearFlag", "enqueue", "await", "read"}

Init ==
  /\ current_state = "Uninitialized"
  /\ queue = <<Event("Initialize", 0)>>
  /\ ready = FALSE
  /\ lcc = "UNKNOWN"
  /\ ignoreConfirmation = FALSE
  /\ expired = {}
  /\ sink = [s \in DataStates |-> 0]
  /\ fsm = FsmIdle
  /\ io = IoIdle
  /\ caller = [pc |-> "idle", call |-> 0, kind |-> "none"]
  /\ pending = <<>>
  /\ budget = [app |-> MaxAppEvents, detect |-> MaxDetects]
  /\ results = [c \in 1..MaxCalls |-> "none"]
  /\ carriedOut = {} /\ failed = {} /\ okDuring = {}

------------------------------------------------------------------------------
(* The transition table: On<Event, TransitionTo<State>> of every state.    *)
(* Any other pair is ByDefault<DoNothing>.                                 *)

\* Deliberately wrong, for sensitivity: HandShakeState ignores its time-out.
TimeoutTargetNoHandShake(s) ==
  IF s \in AutoStates THEN "PsCancel" ELSE IF s = "HandShake" THEN s ELSE "Ready"

\* Deliberately wrong, for sensitivity: PsCancelState ignores its time-out.
TimeoutTargetNoCancel(s) ==
  IF s \in AutoStates THEN "PsCancel" ELSE IF s = "PsCancel" THEN s ELSE "Ready"

\* On<TimeoutEvent, ...> of the states that wait for the module.
TimeoutTarget(s) == IF s \in AutoStates THEN "PsCancel" ELSE "Ready"

OnEvent(s, type) ==
  CASE type = "Reset" -> "Reset"
    [] s = "Uninitialized" /\ type = "Initialize" -> "Initialize"
    [] s = "Initialize" /\ type = "HandShake" -> "HandShake"
    [] s = "Initialize" /\ type = "InitOkReceived" -> "Ready"
    [] s = "Ready" /\ type \in TimedStates -> type
    [] s \in TimedStates /\ type = "Timeout" -> TimeoutTarget(s)
    [] s \in AutoStates /\ type = "Error" -> "Reset"
    [] OTHER -> s

HasTransition(s, type) ==
  OnEvent(s, type) # s \/ type = "Reset"

\* Deliberately wrong, for sensitivity: the queue takes one event more.
EnqueueOneTooMany(q, e) == IF Len(q) <= QueueSize THEN Append(q, e) ELSE q

\* enqueueEvent: TX_NO_WAIT, a full queue drops the event.
Enqueue(q, e) == IF Len(q) < QueueSize THEN Append(q, e) ELSE q

------------------------------------------------------------------------------
(* handle(const DataReceivedEvent &) of every state.                       *)

\* What a handler does with a packet: store its confirmation byte in
\* lastConfirmationCode, call restartTimeout(), write through the result pointer,
\* return TransitionTo<ReadyState>.
Outcome(stores, restarts, writes, done) ==
  [stores |-> stores, restarts |-> restarts, writes |-> writes, done |-> done]

CommandState(f) == Outcome(TRUE, FALSE, FALSE, TRUE)

\* Deliberately wrong, for sensitivity: ignoreConfirmation is not looked at.
CancelAlwaysStores(f) == Outcome(TRUE, FALSE, FALSE, TRUE)

\* The cancel that follows a time-out must not replace the time-out's code.
PsCancelState(f) == Outcome(~ignoreConfirmation, FALSE, FALSE, TRUE)

HandShakeState(f) == Outcome(TRUE, FALSE, FALSE, f.conf = "OK")

GetChipSnState(f) == Outcome(FALSE, FALSE, FALSE, f.conf = "OK")

PsReadSysParaState(f) == Outcome(TRUE, FALSE, f.conf = "OK", f.conf = "OK")

\* The confirmation is read from every packet, data packets included.
PsReadInfPageState(f) == Outcome(TRUE, FALSE, FALSE, f.pid = "end")

\* Deliberately wrong, for sensitivity: the first data packet ends the transfer.
UpCharDoneAtFirstData(f) ==
  Outcome(f.pid = "ack", TRUE, f.pid # "ack", f.pid # "ack" \/ f.conf # "OK")

\* Deliberately wrong, for sensitivity: the confirmation is read from data, too.
UpCharStoresData(f) ==
  Outcome(TRUE, TRUE, f.pid # "ack",
          f.pid = "end" \/ (f.pid = "ack" /\ f.conf # "OK"))

PsUpCharState(f) ==
  Outcome(f.pid = "ack", TRUE, f.pid # "ack",
          f.pid = "end" \/ (f.pid = "ack" /\ f.conf # "OK"))

PsUpImageState(f) == Outcome(f.pid = "ack", TRUE, f.pid # "ack", f.pid = "end")

PsDownImageState(f) == Outcome(f.pid = "ack", TRUE, FALSE, f.pid = "end")

PsAutoIdentifyState(f) ==
  LET stage == f.pid = "ack" /\ f.len = IdentifyLength
  IN Outcome(stage, TRUE, stage /\ f.stage \in {0, 1, 5},
             stage /\ f.stage = 5 /\ f.conf = "OK")

\* Deliberately wrong, for sensitivity: a later OK overwrites the error.
EnrollKeepsNoError(f) ==
  LET stage == f.pid = "ack" /\ f.len = EnrollLength
  IN Outcome(stage, TRUE, stage /\ f.stage = 0,
             stage /\ (f.stage = 6 \/ (f.stage \in {0, 5} /\ f.conf # "OK")))

\* The first error of an enrolment is not overwritten by a later stage's OK.
PsAutoEnrollState(f) ==
  LET stage == f.pid = "ack" /\ f.len = EnrollLength
  IN Outcome(stage /\ lcc \in {"OK", "UNKNOWN"}, TRUE, stage /\ f.stage = 0,
             stage /\ (f.stage = 6 \/ (f.stage \in {0, 5} /\ f.conf # "OK")))

\* The visit; every other state inherits ByDefault<DoNothing>.
Handle(s, f) ==
  CASE s = "Command" -> CommandState(f)
    [] s = "PsCancel" -> PsCancelState(f)
    [] s = "HandShake" -> HandShakeState(f)
    [] s = "GetChipSn" -> GetChipSnState(f)
    [] s = "PsReadSysPara" -> PsReadSysParaState(f)
    [] s = "PsReadInfPage" -> PsReadInfPageState(f)
    [] s = "PsUpChar" -> PsUpCharState(f)
    [] s = "PsUpImage" -> PsUpImageState(f)
    [] s = "PsDownImage" -> PsDownImageState(f)
    [] s = "PsAutoIdentify" -> PsAutoIdentifyState(f)
    [] s = "PsAutoEnroll" -> PsAutoEnrollState(f)
    [] OTHER -> Outcome(FALSE, FALSE, FALSE, FALSE)

\* Deliberately wrong, for sensitivity: an OK is never overwritten.
CodeAfterKeepingOk(s, f) == IF Handle(s, f).stores /\ lcc # "OK" THEN f.conf ELSE lcc

CodeAfter(s, f) == IF Handle(s, f).stores THEN f.conf ELSE lcc

\* Deliberately wrong, for sensitivity: the deadline is not restarted.
NoRestart(s) == expired

\* stateEnteredMillis = millis(), on entry and in restartTimeout().
Restart(s) == expired \ {s}

\* sendCommand and sendPacket: one more command for the module.
SendCommand(s, call) == Append(pending, [state |-> s, call |-> call, step |-> 0])

\* Deliberately wrong, for sensitivity: onEnter keeps the old pointer.
KeepSink(s, call) == sink

\* onEnter keeps the pointer of its event: result, tpl, image, sysPara.
SinkAfter(s, call) == IF s \in DataStates THEN [sink EXCEPT ![s] = call] ELSE sink

\* PsCancelState was entered by an event other than a PsCancelEvent.
IgnoreAfter(s, type) ==
  IF s = "PsCancel" THEN type # "PsCancel" ELSE ignoreConfirmation

------------------------------------------------------------------------------
(* The fingerprint module (external): it works through the commands in     *)
(* order and answers each with one packet, with a confirmation followed by *)
(* data packets, or with one stage packet after the other.  A packet comes *)
(* into being when the I/O thread has parsed it: nobody else sees it.      *)

StageLength(s) == IF s = "PsAutoIdentify" THEN IdentifyLength ELSE EnrollLength

Reply(job, pid, conf, len, stage, step) ==
  [frame |-> [call |-> job.call, pid |-> pid, conf |-> conf, len |-> len,
              stage |-> stage],
   step |-> step]

\* The stages in order: legality, picture, check (a match), storage.
NextStage(s, stage) ==
  CASE stage = 0 -> 1
    [] stage = 1 -> 5
    [] stage = 5 /\ s = "PsAutoEnroll" -> 6
    [] OTHER -> 0

\* A stage packet; an error ends the job, but a failed picture may be retaken.
StageReplies(job) ==
  LET next == NextStage(job.state, job.step)
      stage(c, n) == Reply(job, "ack", c, StageLength(job.state), job.step, n)
  IN {stage("OK", next), stage("ERROR_SENSOR", 0)}
       \union {stage("ERROR_SENSOR", n) : n \in {m \in {next} : job.step = 1}}

\* The confirmation, then up to two data packets, the last one marked.
BulkReplies(job) ==
  IF job.step = 0
  THEN {Reply(job, "ack", "OK", PlainLength, 0, 1),
        Reply(job, "ack", "ERROR_SENSOR", PlainLength, 0, 0)}
  ELSE {Reply(job, "end", c, PlainLength, 0, 0) : c \in Confs}
         \union {Reply(job, "data", c, PlainLength, 0, 2) :
                   c \in {d \in Confs : job.step = 1}}

\* One packet; e.g. the score that answers PS_Match gives it a stage's length.
PlainReplies(job) ==
  {Reply(job, "ack", c, len, 0, 0) :
     c \in Confs,
     len \in {PlainLength} \union {l \in {EnrollLength} :
               job.state = "Command" /\ "PsAutoEnroll" \in CallKinds}}

\* What the module may send next for a command, and the step it is at then;
\* step 0 afterwards means that the command is finished.
Replies(job) ==
  CASE job.state \in AutoStates -> StageReplies(job)
    [] job.state \in {"PsUpChar", "PsUpImage", "PsReadInfPage"} -> BulkReplies(job)
    [] OTHER -> PlainReplies(job)

\* The packet that ends a command the module has carried out: a success, or the
\* last of the data, whatever its first byte is.
Completes(r) == r.step = 0 /\ (r.frame.pid = "end" \/ r.frame.conf = "OK")

\* A command that is lost, or whose (remaining) answer never comes.
SensorSilent ==
  /\ pending # <<>>
  /\ pending' = Tail(pending)
  /\ UNCHANGED <<hostVars, budget, history>>

------------------------------------------------------------------------------
(* The I/O thread: loopIo -> parseReply -> handle(DataReceivedEvent).      *)

\* A complete packet: std::visit reads current_state_ for the dispatch.
ReceiveFrame ==
  /\ io.pc = "idle" /\ pending # <<>>
  /\ \E r \in Replies(Head(pending)) :
       /\ carriedOut' = IF Completes(r) THEN carriedOut \union {r.frame.call}
                        ELSE carriedOut
       /\ io' = [pc |-> "handle", at |-> current_state, frame |-> r.frame]
       /\ pending' = IF r.step = 0 THEN Tail(pending)
                     ELSE <<[Head(pending) EXCEPT !.step = r.step]>> \o Tail(pending)
  /\ UNCHANGED <<current_state, queue, ready, lcc, ignoreConfirmation, expired,
                 sink, fsm, caller, results, budget, failed, okDuring>>

\* The handler of the visited state, which need not be current any more.
HandleData ==
  LET s == io.at
      f == io.frame
      outcome == Handle(s, f)
      code == CodeAfter(s, f)
      refused == /\ outcome.stores /\ f.pid = "ack" /\ f.conf # "OK"
                 /\ s # "PsAutoIdentify" \* a later stage supersedes the error
                 /\ f.call = caller.call /\ caller.pc # "idle"
  IN /\ io.pc = "handle"
     /\ lcc' = code
     /\ expired' = IF outcome.restarts THEN Restart(s) ELSE expired
     /\ io' = IF outcome.done THEN [io EXCEPT !.pc = "transition"] ELSE IoIdle
     /\ failed' = IF refused THEN failed \union {f.call} ELSE failed
     /\ okDuring' = IF outcome.stores /\ f.conf = "OK"
                    THEN okDuring \union {caller.call} ELSE okDuring
     /\ UNCHANGED <<current_state, queue, ready, ignoreConfirmation, sink, fsm,
                    caller, results, pending, budget, carriedOut>>

\* TransitionTo<ReadyState>::Execute: transitionTo, whatever is current now.
IoTransition ==
  /\ io.pc = "transition"
  /\ current_state' = "Ready"
  /\ io' = [io EXCEPT !.pc = "enter"]
  /\ UNCHANGED <<queue, ready, lcc, ignoreConfirmation, expired, sink, fsm,
                 caller, results, pending, budget, history>>

\* ... and ReadyState::onEnter.
IoEnter ==
  /\ io.pc = "enter"
  /\ ready' = TRUE
  /\ io' = IoIdle
  /\ UNCHANGED <<current_state, queue, lcc, ignoreConfirmation, expired, sink,
                 fsm, caller, results, pending, budget, history>>

IoThread == HandleData \/ IoTransition \/ IoEnter

------------------------------------------------------------------------------
(* The state machine thread: loop().                                       *)

\* dequeueEvent and std::visit: the transition is chosen from the state seen.
Dequeue ==
  LET e == Head(queue)
      s == current_state
  IN /\ fsm.pc = "dequeue" /\ queue # <<>>
     /\ queue' = Tail(queue)
     /\ fsm' = IF HasTransition(s, e.type)
               THEN [pc |-> "transition", at |-> s, to |-> OnEvent(s, e.type),
                     event |-> e]
               ELSE [FsmIdle EXCEPT !.pc = "visit"]
     /\ UNCHANGED <<current_state, ready, lcc, ignoreConfirmation, expired, sink,
                    io, caller, results, pending, budget, history>>

\* receive() gives up after its wait: EventQueueEmptyException is swallowed.
DequeueEmpty ==
  /\ fsm.pc = "dequeue" /\ queue = <<>>
  /\ fsm' = [FsmIdle EXCEPT !.pc = "visit"]
  /\ UNCHANGED <<current_state, queue, ready, lcc, ignoreConfirmation, expired,
                 sink, io, caller, results, pending, budget, history>>

\* TransitionTo<Target>::Execute up to and including transitionTo.
Transition ==
  /\ fsm.pc = "transition"
  /\ current_state' = fsm.to
  /\ fsm' = [fsm EXCEPT !.pc = "enter"]
  /\ UNCHANGED <<queue, ready, lcc, ignoreConfirmation, expired, sink, io,
                 caller, results, pending, budget, history>>

\* onEnter of a state that waits for the module: restart its deadline, keep the
\* result pointer of the event, transmit the command.
EnterTimed ==
  LET s == fsm.to
  IN /\ fsm.pc = "enter" /\ s \in TimedStates
     /\ expired' = Restart(s)
     /\ sink' = SinkAfter(s, fsm.event.call)
     /\ ignoreConfirmation' = IgnoreAfter(s, fsm.event.type)
     /\ pending' = SendCommand(s, fsm.event.call)
     /\ fsm' = [FsmIdle EXCEPT !.pc = "visit"]
     /\ UNCHANGED <<current_state, queue, ready, lcc, io, caller, results,
                    budget, history>>

\* ReadyState::onEnter announces readiness; InitializeState::onEnter switches
\* the supply pin on, which is not part of the state here.
EnterUntimed ==
  /\ fsm.pc = "enter" /\ fsm.to \in {"Ready", "Initialize"}
  /\ ready' = (ready \/ fsm.to = "Ready")
  /\ fsm' = [FsmIdle EXCEPT !.pc = "visit"]
  /\ UNCHANGED <<current_state, queue, lcc, ignoreConfirmation, expired, sink,
                 io, caller, results, pending, budget, history>>

\* ResetState::onEnter calls the blocking cancel() in the thread that would
\* have to serve it ...
EnterReset ==
  /\ fsm.pc = "enter" /\ fsm.to = "Reset"
  /\ lcc' = "UNKNOWN"
  /\ ready' = FALSE
  /\ queue' = Enqueue(queue, Event("Command", 0))
  /\ fsm' = [fsm EXCEPT !.pc = "resetAwait"]
  /\ UNCHANGED <<current_state, ignoreConfirmation, expired, sink, io, caller,
                 results, pending, budget, history>>

\* ... waits for READY or the time-out, and forces Ready without its onEnter.
ResetReturns ==
  /\ fsm.pc = "resetAwait"
  /\ lcc' \in {"ERROR_TIMEOUT"} \union (IF ready THEN {lcc} ELSE {})
  /\ current_state' = "Ready"
  /\ fsm' = [FsmIdle EXCEPT !.pc = "visit"]
  /\ UNCHANGED <<queue, ready, ignoreConfirmation, expired, sink, io, caller,
                 results, pending, budget, history>>

\* handle(LoopEvent{}): std::visit ...
VisitLoop ==
  /\ fsm.pc = "visit"
  /\ fsm' = [FsmIdle EXCEPT !.pc = "loop", !.at = current_state]
  /\ UNCHANGED <<current_state, queue, ready, lcc, ignoreConfirmation, expired,
                 sink, io, caller, results, pending, budget, history>>

\* ... and the state's handler, which polls its deadline.
HandleLoop ==
  LET s == fsm.at
      timeout == s \in TimedStates /\ s \in expired
  IN /\ fsm.pc = "loop"
     /\ queue' = IF timeout THEN Enqueue(queue, Event("Timeout", 0)) ELSE queue
     /\ lcc' = IF timeout /\ (\/ s \in AutoStates
                              \/ s = "PsCancel" /\ ~ignoreConfirmation)
               THEN "ERROR_TIMEOUT" ELSE lcc
     /\ fsm' = FsmIdle
     /\ UNCHANGED <<current_state, ready, ignoreConfirmation, expired, sink, io,
                    caller, results, pending, budget, history>>

FsmThread ==
  \/ Dequeue \/ DequeueEmpty \/ Transition
  \/ EnterTimed \/ EnterUntimed \/ EnterReset \/ ResetReturns
  \/ VisitLoop \/ HandleLoop

------------------------------------------------------------------------------
(* Deadlines.  In a disciplined environment the module answers in time or  *)
(* not at all (a state's deadline passes only while no answer is under     *)
(* way), and the caller is more patient than every state: it gives up only *)
(* when the host has nothing left to do for it.                            *)

NoAnswerUnderWay == pending = <<>> /\ io.pc = "idle"

HostAtRest ==
  /\ NoAnswerUnderWay
  /\ queue = <<>>
  /\ current_state \notin TimedStates
  /\ fsm.pc \in {"dequeue", "visit", "loop"}

\* millis() - stateEnteredMillis passes TIMEOUT_CMD in the current state.
Expire ==
  /\ current_state \in TimedStates \ expired
  /\ Disciplined => NoAnswerUnderWay
  /\ expired' = expired \union {current_state}
  /\ UNCHANGED <<current_state, queue, ready, lcc, ignoreConfirmation, sink, fsm,
                 io, caller, results, pending, budget, history>>

------------------------------------------------------------------------------
(* The API methods, called by one thread: clearReadyFlag, enqueueEvent,    *)
(* awaitReadyFlag, and the evaluation of lastConfirmationCode.             *)

\* Deliberately wrong, for sensitivity: lastConfirmationCode is not cleared.
NotClearedCode == lcc

ClearedCode == "UNKNOWN"

\* clearReadyFlag, first statement.  A disciplined application starts its
\* first call after the hand shake.
ClearCode ==
  /\ caller.pc = "idle" /\ caller.call < MaxCalls
  /\ Disciplined /\ caller.call = 0 => HostAtRest /\ current_state = "Ready"
  /\ \E k \in CallKinds :
       caller' = [pc |-> "clearFlag", call |-> caller.call + 1, kind |-> k]
  /\ lcc' = ClearedCode
  /\ UNCHANGED <<current_state, queue, ready, ignoreConfirmation, expired, sink,
                 fsm, io, results, pending, budget, history>>

\* Deliberately wrong, for sensitivity: READY is not cleared.
ClearFlagNot ==
  /\ caller.pc = "clearFlag"
  /\ caller' = [caller EXCEPT !.pc = "enqueue"]
  /\ UNCHANGED <<current_state, queue, ready, lcc, ignoreConfirmation, expired, sink,
                 fsm, io, results, pending, budget, history>>

\* clearReadyFlag, second statement.
ClearFlag ==
  /\ caller.pc = "clearFlag"
  /\ ready' = FALSE
  /\ caller' = [caller EXCEPT !.pc = "enqueue"]
  /\ UNCHANGED <<current_state, queue, lcc, ignoreConfirmation, expired, sink,
                 fsm, io, results, pending, budget, history>>

\* enqueueEvent, whose result every method ignores.
EnqueueCall ==
  /\ caller.pc = "enqueue"
  /\ queue' = Enqueue(queue, Event(caller.kind, caller.call))
  /\ caller' = [caller EXCEPT !.pc = "await"]
  /\ UNCHANGED <<current_state, ready, lcc, ignoreConfirmation, expired, sink,
                 fsm, io, results, pending, budget, history>>

\* awaitReadyFlag: TX_SUCCESS ...
AwaitReady ==
  /\ caller.pc = "await" /\ ready
  /\ caller' = [caller EXCEPT !.pc = "read"]
  /\ UNCHANGED <<current_state, queue, ready, lcc, ignoreConfirmation, expired,
                 sink, fsm, io, results, pending, budget, history>>

\* Deliberately wrong, for sensitivity: no time-out before the machine is Ready.
AwaitUntilMachineReady ==
  /\ caller.pc = "await" /\ ~ready /\ current_state = "Ready"
  /\ lcc' = "ERROR_TIMEOUT"
  /\ caller' = [caller EXCEPT !.pc = "read"]
  /\ UNCHANGED <<current_state, queue, ready, ignoreConfirmation, expired, sink,
                 fsm, io, results, pending, budget, history>>

\* ... or TX_NO_EVENTS.
AwaitTimeout ==
  /\ caller.pc = "await" /\ ~ready
  /\ Disciplined => HostAtRest
  /\ lcc' = "ERROR_TIMEOUT"
  /\ caller' = [caller EXCEPT !.pc = "read"]
  /\ UNCHANGED <<current_state, queue, ready, ignoreConfirmation, expired, sink,
                 fsm, io, results, pending, budget, history>>

\* lastConfirmationCode == OK ? ok() : err(lastConfirmationCode).
ReadResult ==
  /\ caller.pc = "read"
  /\ results' = [results EXCEPT ![caller.call] = lcc]
  /\ caller' = [caller EXCEPT !.pc = "idle", !.kind = "none"]
  /\ UNCHANGED <<current_state, queue, ready, lcc, ignoreConfirmation, expired,
                 sink, fsm, io, pending, budget, history>>

CallReturns == ClearFlag \/ EnqueueCall \/ AwaitReady \/ AwaitTimeout \/ ReadResult

\* `fp start' and other events the same thread enqueues between its calls; a
\* disciplined application does so before its first call, one at a time.
AppEnqueue ==
  /\ caller.pc = "idle" /\ budget.app > 0
  /\ Disciplined => caller.call = 0 /\ HostAtRest
  /\ \E type \in AppEvents : queue' = Enqueue(queue, Event(type, 0))
  /\ budget' = [budget EXCEPT !.app = @ - 1]
  /\ UNCHANGED <<current_state, ready, lcc, ignoreConfirmation, expired, sink,
                 fsm, io, caller, results, pending, history>>

\* isrDetect: a finger touches the sensor.
IsrDetect ==
  /\ budget.detect > 0
  /\ queue' = Enqueue(queue, Event("Detect", 0))
  /\ budget' = [budget EXCEPT !.detect = @ - 1]
  /\ UNCHANGED <<current_state, ready, lcc, ignoreConfirmation, expired, sink,
                 fsm, io, caller, results, pending, history>>

------------------------------------------------------------------------------
Next == FsmThread \/ IoThread \/ CallReturns \/ ClearCode \/ AppEnqueue
        \/ IsrDetect \/ Expire \/ ReceiveFrame \/ SensorSilent

Spec == Init /\ [][Next]_vars

\* Both threads run every tick (RunThreadEvery), a blocked call resumes when its
\* wait ends, time passes, and the module gets to every command or drops it.
\* Nothing forces calls, application events or interrupts to happen.
FairSpec ==
  Spec /\ WF_vars(FsmThread) /\ WF_vars(IoThread) /\ WF_vars(CallReturns)
       /\ WF_vars(Expire) /\ WF_vars(ReceiveFrame \/ SensorSilent)

------------------------------------------------------------------------------
(* Properties. *)

\* Every variable holds a value of its type; the queue never exceeds its
\* capacity.
TypeOK ==
  /\ current_state \in States
  /\ queue \in Seq(Events) /\ Len(queue) <= QueueSize
  /\ ready \in BOOLEAN
  /\ lcc \in Codes
  /\ ignoreConfirmation \in BOOLEAN
  /\ expired \in SUBSET TimedStates
  /\ sink \in [DataStates -> CallIds]
  /\ fsm \in [pc : FsmPcs, at : States, to : States, event : Events]
  /\ io \in [pc : IoPcs, at : States, frame : Frames]
  /\ caller \in [pc : CallerPcs, call : CallIds, kind : Kinds]
  /\ caller.pc \in {"clearFlag", "enqueue"} => caller.kind \in CallKinds
  /\ pending \in Seq(Jobs)
  /\ budget \in [app : Nat, detect : Nat]
  /\ results \in [1..MaxCalls -> Codes \union {"none"}]
  /\ carriedOut \in SUBSET CallIds
  /\ failed \in SUBSET CallIds
  /\ okDuring \in SUBSET CallIds

\* No call reports success unless a state accepted a success confirmation after
\* that call had cleared lastConfirmationCode: a success left over from an
\* earlier call, or from a race with one, is never returned.
SuccessIsConfirmed ==
  \A c \in 1..MaxCalls : results[c] = "OK" => c \in okDuring

\* Once a state has stored the module's refusal of the waiting call's own command,
\* this call never returns ok(): no packet that follows, of its own command or of
\* an earlier one, no time-out and no touch replaces the error.  It says nothing of
\* a refusal that comes when another answer has already ended the wait: ReadyState
\* ignores that one, and SuccessIsOwn is the property that fails.  Nor of those of
\* an identification, which a later stage supersedes.  An enrolment keeps it only
\* if its deadline does not pass while a packet is handled.
RefusalIsReported ==
  \A c \in 1..MaxCalls : results[c] = "OK" => c \notin failed

\* ok() means that the module carried out the command of this very call.
SuccessIsOwn ==
  \A c \in 1..MaxCalls : results[c] = "OK" => c \in carriedOut

\* A call whose command the module carried out without any refusal returns ok():
\* no left-over time-out, deadline or cancel spoils it.
CompletionIsReported ==
  \A c \in carriedOut \ (failed \union {0}) : results[c] \in {"none", "OK"}

\* A transition leaves the state that decided on it: no thread moves the
\* machine from a state that has not seen the event.
TransitionFromDecidingState ==
  [][/\ IoTransition => current_state = io.at
     /\ Transition => current_state = fsm.at]_vars

\* A result pointer is followed only while the call it came from still waits,
\* so that it never points into a returned stack frame.
NoWriteAfterReturn ==
  [][HandleData /\ Handle(io.at, io.frame).writes =>
       sink[io.at] = caller.call /\ caller.pc \in {"await", "read"}]_vars

\* A command is transmitted only when the module owes no answer.
HalfDuplex ==
  [][EnterTimed => NoAnswerUnderWay]_vars

\* A call's event finds the machine in a state that acts on it: the call before
\* returned only when the machine was ready for the next one.
NoCallDropped ==
  [][Dequeue /\ Head(queue).call > 0 =>
       HasTransition(current_state, Head(queue).type)]_vars

\* Every call returns.
CallsReturn == caller.pc # "idle" ~> caller.pc = "idle"

\* Every state that waits for the module, and the blocking reset, is left again.
WaitsEnd ==
  \A s \in TimedStates \union {"Reset"} : current_state = s ~> current_state # s

\* What the caller is promised: the machine, seen through what the module did,
\* is a service that carries out one command at a time.
Service == INSTANCE CommandService WITH
  busy <- caller.pc # "idle",
  call <- caller.call,
  served <- caller.pc # "idle" /\ caller.call \in carriedOut \ failed,
  succeeded <- {c \in 1..MaxCalls : results[c] = "OK"}

\* The disciplined machine implements that service, its progress included.
ImplementsService == Service!Spec

=============================================================================
