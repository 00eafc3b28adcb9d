--------------------------- MODULE SensorQuietProofs ---------------------------
(***************************************************************************)
(* Theorems about SensorFsm in a quiet environment: deadlines do not race  *)
(* with answers, no finger touches the sensor and the application does not *)
(* reset the machine.  Then only one command is under way at a time, and   *)
(* what a method returns is what the module did for it.  The number of     *)
(* calls and of the application's events, the capacity of the queue and    *)
(* the methods in use are arbitrary.                                       *)
(***************************************************************************)
EXTENDS SensorFsmProofs, SequenceTheorems

------------------------------------------------------------------------------
(* The environment. *)

\* What the theorems of this module assume of the environment.
QuietEnvironment == Disciplined /\ MaxDetects = 0 /\ "Reset" \notin AppEvents

------------------------------------------------------------------------------
(* One command at a time. *)

\* The state machine thread is between two transitions.
Polling == fsm.pc \in {"dequeue", "visit", "loop"}

\* Somebody has a command, or an event that may become one, in hand.
Busy ==
  \/ queue # <<>>
  \/ fsm.pc \in {"transition", "enter"}
  \/ current_state \in TimedStates
  \/ io.pc # "idle"
  \/ pending # <<>>

\* The states that only a method's event leads to.
MethodStates == DataStates \union {"PsReadInfPage"}

\* The machine may be waiting in s: for a method, or for the cancel after it, or,
\* before the first method, for the application.
MayWait(s) ==
  /\ s \in TimedStates
  /\ IF caller.call = 0 THEN s \notin MethodStates ELSE s \in CallKinds \union {"PsCancel"}

\* The call on whose behalf the machine waits in s: a cancel is nobody's.
CallOf(s) == IF s = "PsCancel" THEN 0 ELSE caller.call

\* The steps a command in state s goes through.
StepsOf(s) ==
  CASE s = "PsAutoEnroll" -> {0, 1, 5, 6}
    [] s = "PsAutoIdentify" -> {0, 1, 5}
    [] s \in {"PsUpChar", "PsUpImage", "PsReadInfPage"} -> {0, 1, 2}
    [] OTHER -> {0}

\* The thread never blocks in Reset; no interrupts are left.
Unreached ==
  /\ fsm.pc # "resetAwait" /\ budget.detect = 0
  /\ current_state \in TimedStates \union {"Uninitialized", "Initialize", "Ready"}

\* The queue holds at most one event: the time-out of the waiting state, the event
\* of the waiting method, or, before the first method, one of the application.
QueueInv ==
  queue # <<>> =>
    /\ Len(queue) = 1 /\ NoAnswerUnderWay /\ Polling
    /\ \/ /\ Head(queue) = NoEvent /\ current_state \in TimedStates
          /\ fsm.pc = "dequeue"
       \/ /\ Head(queue).type \in CallKinds /\ Head(queue).call = caller.call
          /\ current_state = "Ready" /\ caller.pc = "await"
       \/ /\ Head(queue).type \in AppEvents \union {"Initialize"}
          /\ Head(queue).call = 0 /\ current_state \notin TimedStates
          /\ caller.call = 0

\* While the thread moves the machine, nobody else does.
MoveInv ==
  fsm.pc \in {"transition", "enter"} =>
    /\ queue = <<>> /\ NoAnswerUnderWay
    /\ current_state = IF fsm.pc = "transition" THEN fsm.at ELSE fsm.to
    /\ \/ fsm.to = "Ready"
       \/ fsm.to = "Initialize" /\ caller.call = 0
       \/ /\ MayWait(fsm.to) /\ fsm.event.call = CallOf(fsm.to)
          /\ fsm.to = "PsCancel" /\ caller.call > 0 => fsm.event.type # "PsCancel"

\* A deadline that the thread is about to act on has passed in the current state,
\* and nobody is about to leave that state.
LoopInv ==
  fsm.pc = "loop" /\ fsm.at \in TimedStates /\ fsm.at \in expired =>
    current_state = fsm.at /\ NoAnswerUnderWay /\ queue = <<>>

\* What onEnter has set up holds as long as the machine waits.
WaitInv ==
  current_state \in TimedStates /\ Polling =>
    /\ MayWait(current_state)
    /\ current_state \in DataStates => sink[current_state] = caller.call
    /\ current_state = "PsCancel" /\ caller.call > 0 => ignoreConfirmation
    /\ ~NoAnswerUnderWay => current_state \notin expired

\* The module owes at most the answer the current state waits for.
PendingInv ==
  pending # <<>> =>
    /\ Len(pending) = 1 /\ queue = <<>> /\ Polling
    /\ io.pc \in {"idle", "handle"}
    /\ current_state \in TimedStates
    /\ Head(pending).state = current_state
    /\ Head(pending).call = CallOf(current_state)
    /\ Head(pending).step \in StepsOf(current_state)

\* The I/O thread handles a packet in the state that waits for it, and leaves that
\* state only when the module has finished.
IoInv ==
  io.pc # "idle" =>
    /\ queue = <<>> /\ Polling
    /\ IF io.pc = "enter" THEN current_state = "Ready"
       ELSE io.at = current_state /\ current_state \in TimedStates
    /\ IF io.pc = "handle"
       THEN /\ io.frame.call = CallOf(current_state)
            /\ Handle(io.at, io.frame).done => pending = <<>>
       ELSE pending = <<>>

\* The machine works for the method that waits, or for the application before the
\* first method; when it has nothing to do, it is ready and has said so.
CallerInv ==
  /\ caller.pc # "idle" => caller.call > 0
  /\ caller.pc = "enqueue" => ~ready
  /\ Busy => \/ caller.pc = "await" /\ ~ready
             \/ caller.pc = "idle" /\ caller.call = 0
  /\ ~Busy /\ caller.pc = "await" => ready
  /\ ~Busy /\ caller.call > 0 => current_state = "Ready"

\* At most one command is under way, and the waiting method knows whose it is.
TurnInv ==
  /\ Unreached /\ QueueInv /\ MoveInv /\ LoopInv /\ WaitInv /\ PendingInv /\ IoInv
  /\ CallerInv

------------------------------------------------------------------------------
(* What the module may answer, and what the states make of it. *)

\* When a handler leaves its state, and when it stores the confirmation.
LEMMA HandlerOutcomes ==
  ASSUME NEW f
  PROVE  /\ CommandState(f).done /\ CommandState(f).stores
         /\ PsCancelState(f).done /\ (PsCancelState(f).stores <=> ~ignoreConfirmation)
         /\ (HandShakeState(f).done <=> f.conf = "OK") /\ HandShakeState(f).stores
         /\ (GetChipSnState(f).done <=> f.conf = "OK") /\ ~GetChipSnState(f).stores
         /\ (PsReadSysParaState(f).done <=> f.conf = "OK") /\ PsReadSysParaState(f).stores
         /\ (PsReadInfPageState(f).done <=> f.pid = "end") /\ PsReadInfPageState(f).stores
         /\ PsUpCharState(f).done <=> f.pid = "end" \/ (f.pid = "ack" /\ f.conf # "OK")
         /\ PsUpCharState(f).stores <=> f.pid = "ack"
         /\ PsUpImageState(f).done <=> f.pid = "end"
         /\ PsUpImageState(f).stores <=> f.pid = "ack"
         /\ PsDownImageState(f).done <=> f.pid = "end"
         /\ PsDownImageState(f).stores <=> f.pid = "ack"
BY DEF CommandState, PsCancelState, HandShakeState, GetChipSnState, PsReadSysParaState,
       PsReadInfPageState, PsUpCharState, PsUpImageState, PsDownImageState, Outcome


\* ... for the packets of a stage.
LEMMA StageOutcomes ==
  ASSUME NEW f
  PROVE  /\ f.pid = "ack" /\ f.len = IdentifyLength =>
              /\ PsAutoIdentifyState(f).done <=> f.stage = 5 /\ f.conf = "OK"
              /\ PsAutoIdentifyState(f).stores
         /\ f.pid = "ack" /\ f.len = EnrollLength =>
              /\ PsAutoEnrollState(f).done <=>
                   f.stage = 6 \/ (f.stage \in {0, 5} /\ f.conf # "OK")
              /\ PsAutoEnrollState(f).stores <=> lcc \in {"OK", "UNKNOWN"}
BY DEF PsAutoIdentifyState, PsAutoEnrollState, Outcome

\* The visit of each state that waits.
LEMMA HandleOf ==
  ASSUME NEW f
  PROVE  /\ Handle("Command", f) = CommandState(f)
         /\ Handle("PsCancel", f) = PsCancelState(f)
         /\ Handle("HandShake", f) = HandShakeState(f)
         /\ Handle("GetChipSn", f) = GetChipSnState(f)
         /\ Handle("PsReadSysPara", f) = PsReadSysParaState(f)
         /\ Handle("PsReadInfPage", f) = PsReadInfPageState(f)
         /\ Handle("PsUpChar", f) = PsUpCharState(f)
         /\ Handle("PsUpImage", f) = PsUpImageState(f)
         /\ Handle("PsDownImage", f) = PsDownImageState(f)
         /\ Handle("PsAutoIdentify", f) = PsAutoIdentifyState(f)
         /\ Handle("PsAutoEnroll", f) = PsAutoEnrollState(f)
BY SMT DEF Handle

\* Whether a packet ends its state does not depend on what is stored elsewhere.
LEMMA DoneNext ==
  ASSUME NEW s, NEW f, io'.at = s, io'.frame = f
  PROVE  Handle(io.at, io.frame).done' <=> Handle(s, f).done
BY DEF Handle, CommandState, PsCancelState, HandShakeState, GetChipSnState,
       PsReadSysParaState, PsReadInfPageState, PsUpCharState, PsUpImageState,
       PsDownImageState, PsAutoIdentifyState, PsAutoEnrollState, Outcome

\* ... as long as the packet is the same.
LEMMA DoneStable ==
  ASSUME io' = io
  PROVE  Handle(io.at, io.frame).done' <=> Handle(io.at, io.frame).done
BY DEF Handle, CommandState, PsCancelState, HandShakeState, GetChipSnState,
       PsReadSysParaState, PsReadInfPageState, PsUpCharState, PsUpImageState,
       PsDownImageState, PsAutoIdentifyState, PsAutoEnrollState, Outcome

\* A stage packet ends the state only if it is the last of its command.
LEMMA StageFacts ==
  ASSUME NEW job \in Jobs, job.step \in StepsOf(job.state),
         NEW r \in StageReplies(job), job.state \in AutoStates
  PROVE  /\ r.frame.call = job.call
         /\ r.frame.pid = "ack"
         /\ r.frame.len = StageLength(job.state)
         /\ r.step \in StepsOf(job.state)
         /\ Handle(job.state, r.frame).done => r.step = 0
         /\ r.frame.conf = "OK" => (r.step = 0 <=> Handle(job.state, r.frame).done)
         /\ r.step # 0 /\ r.frame.conf # "OK" => job.state = "PsAutoEnroll" \/ job.step = 1
<1>1. PICK c \in {"OK", "ERROR_SENSOR"},
           n \in {NextStage(job.state, job.step), 0} :
        /\ r = Reply(job, "ack", c, StageLength(job.state), job.step, n)
        /\ c = "OK" => n = NextStage(job.state, job.step)
        /\ c # "OK" => n = 0 \/ job.step = 1
  BY SMT DEF StageReplies
<1>2. /\ r.frame = [call |-> job.call, pid |-> "ack", conf |-> c,
                    len |-> StageLength(job.state), stage |-> job.step]
      /\ r.step = n
  BY <1>1 DEF Reply
<1>3. NextStage(job.state, job.step) \in StepsOf(job.state) /\ 0 \in StepsOf(job.state)
  BY SMT DEF NextStage, StepsOf, AutoStates
<1>4. CASE job.state = "PsAutoEnroll"
  <2>1. Handle(job.state, r.frame).done <=>
          job.step = 6 \/ (job.step \in {0, 5} /\ c # "OK")
    <3>1. Handle(job.state, r.frame) = PsAutoEnrollState(r.frame)
      BY <1>4, HandleOf
    <3>2. r.frame.len = EnrollLength
      BY <1>2, <1>4 DEF StageLength
    <3> QED BY <1>2, <3>1, <3>2, StageOutcomes
  <2> QED BY <1>1, <1>2, <1>3, <1>4, <2>1, SMT DEF NextStage, StepsOf
<1>5. CASE job.state = "PsAutoIdentify"
  <2>1. Handle(job.state, r.frame).done <=> job.step = 5 /\ c = "OK"
    <3>1. Handle(job.state, r.frame) = PsAutoIdentifyState(r.frame)
      BY <1>5, HandleOf
    <3>2. r.frame.len = IdentifyLength
      BY <1>2, <1>5 DEF StageLength
    <3> QED BY <1>2, <3>1, <3>2, StageOutcomes
  <2> QED BY <1>1, <1>2, <1>3, <1>5, <2>1, SMT DEF NextStage, StepsOf
<1> QED BY <1>4, <1>5 DEF AutoStates

\* Data follow a successful confirmation, and the packet marked as the last ends
\* the command.
LEMMA BulkFacts ==
  ASSUME NEW job \in Jobs, job.step \in StepsOf(job.state), NEW r \in BulkReplies(job),
         job.state \in {"PsUpChar", "PsUpImage", "PsReadInfPage"}
  PROVE  /\ r.frame.call = job.call
         /\ r.step \in StepsOf(job.state)
         /\ Handle(job.state, r.frame).done => r.step = 0
         /\ r.frame.pid = "ack" <=> job.step = 0
         /\ r.frame.pid = "ack" => r.step = IF r.frame.conf = "OK" THEN 1 ELSE 0
         /\ r.frame.pid # "ack" => (r.step = 0 <=> r.frame.pid = "end")
<1>1. PICK pid \in {"ack", "data", "end"}, c \in Confs, n \in {0, 1, 2} :
        /\ r = Reply(job, pid, c, PlainLength, 0, n)
        /\ pid = "ack" <=> job.step = 0
        /\ pid = "ack" => n = IF c = "OK" THEN 1 ELSE 0
        /\ pid = "data" => n = 2
        /\ pid = "end" => n = 0
  BY SMT DEF BulkReplies, Confs
<1>2. /\ r.frame = [call |-> job.call, pid |-> pid, conf |-> c,
                    len |-> PlainLength, stage |-> 0]
      /\ r.step = n
  BY <1>1 DEF Reply
<1>3. StepsOf(job.state) = {0, 1, 2}
  BY DEF StepsOf
<1>4. Handle(job.state, r.frame).done => pid = "end" \/ (pid = "ack" /\ c # "OK")
  <2>1. CASE job.state = "PsUpChar"
    <3>1. Handle(job.state, r.frame) = PsUpCharState(r.frame)
      BY <2>1, HandleOf
    <3> QED BY <1>2, <3>1, HandlerOutcomes
  <2>2. CASE job.state = "PsUpImage"
    <3>1. Handle(job.state, r.frame) = PsUpImageState(r.frame)
      BY <2>2, HandleOf
    <3> QED BY <1>2, <3>1, HandlerOutcomes
  <2>3. CASE job.state = "PsReadInfPage"
    <3>1. Handle(job.state, r.frame) = PsReadInfPageState(r.frame)
      BY <2>3, HandleOf
    <3> QED BY <1>2, <3>1, HandlerOutcomes
  <2> QED BY <2>1, <2>2, <2>3
<1> QED BY <1>1, <1>2, <1>3, <1>4, SMT

\* One packet answers any other command.
LEMMA PlainFacts ==
  ASSUME NEW job \in Jobs, job.step \in StepsOf(job.state), NEW r \in PlainReplies(job),
         job.state \notin AutoStates \union {"PsUpChar", "PsUpImage", "PsReadInfPage"}
  PROVE  /\ r.frame.call = job.call
         /\ r.frame.pid = "ack"
         /\ r.step = 0
         /\ r.step \in StepsOf(job.state)
<1>1. PICK c \in Confs, len \in {PlainLength, EnrollLength} :
        r = Reply(job, "ack", c, len, 0, 0)
  BY SMT DEF PlainReplies
<1>2. StepsOf(job.state) = {0}
  BY DEF StepsOf, AutoStates
<1> QED BY <1>1, <1>2, SMT DEF Reply

\* Whatever the module answers belongs to its command, and ends the state that
\* handles it only if nothing more is to come.
LEMMA ReplyFacts ==
  ASSUME NEW job \in Jobs, job.step \in StepsOf(job.state), NEW r \in Replies(job)
  PROVE  /\ r.frame.call = job.call
         /\ r.step \in StepsOf(job.state)
         /\ Handle(job.state, r.frame).done => r.step = 0
<1>1. CASE job.state \in AutoStates
  <2>1. r \in StageReplies(job)
    BY <1>1 DEF Replies, AutoStates
  <2> QED BY <1>1, <2>1, StageFacts
<1>2. CASE job.state \in {"PsUpChar", "PsUpImage", "PsReadInfPage"}
  <2>1. job.state \notin AutoStates
    BY <1>2 DEF AutoStates
  <2>2. r \in BulkReplies(job)
    BY <1>2, <2>1 DEF Replies
  <2> QED BY <1>2, <2>2, BulkFacts
<1>3. CASE job.state \notin AutoStates \union {"PsUpChar", "PsUpImage", "PsReadInfPage"}
  <2>1. r \in PlainReplies(job)
    BY <1>3 DEF Replies
  <2> QED BY <1>3, <2>1, PlainFacts
<1> QED BY <1>1, <1>2, <1>3

------------------------------------------------------------------------------
(* One command at a time: the steps of the state machine thread. *)

\* An empty queue has room for an event.
LEMMA EnqueueFirst == \A e : Enqueue(<<>>, e) = <<e>>
<1>1. QueueSize > 0 /\ QueueSize \in Nat
  BY ConstantsAssumption
<1>2. Len(<<>>) = 0
  OBVIOUS
<1>3. \A e : Append(<<>>, e) = <<e>>
  OBVIOUS
<1> QED BY <1>1, <1>2, <1>3 DEF Enqueue

\* A queue of one event holds just that event.
LEMMA OneEvent == \A e : Head(<<e>>) = e /\ Len(<<e>>) = 1 /\ <<e>> # <<>>
OBVIOUS

\* Taking the only member empties a sequence.
LEMMA TakeLast ==
  ASSUME NEW S, NEW q \in Seq(S), Len(q) = 1
  PROVE  Tail(q) = <<>> /\ Head(q) \in S
<1>1. q # <<>>
  OBVIOUS
<1>2. Tail(q) \in Seq(S) /\ Len(Tail(q)) = 0 /\ Head(q) \in S
  BY <1>1, HeadTailProperties
<1> QED BY <1>2, EmptySeq

\* Where an event that is no method's leads.
LEMMA ForeignEvents ==
  ASSUME QuietEnvironment, NEW type \in AppEvents \union {"Initialize"},
         NEW s \in {"Uninitialized", "Initialize", "Ready"}
  PROVE  \/ ~HasTransition(s, type)
         \/ OnEvent(s, type) \in {"Ready", "Initialize", "Command", "HandShake",
                                  "PsCancel", "PsDownImage", "GetChipSn"}
<1>1. type \in {"Command", "HandShake", "PsCancel", "PsDownImage", "GetChipSn",
                "InitOkReceived", "Error", "Initialize"}
  BY ConstantsAssumption DEF QuietEnvironment
<1>2. type # "Reset" /\ type # "Timeout" /\ s \notin TimedStates /\ s \notin AutoStates
  BY <1>1 DEF TimedStates, DataStates, AutoStates
<1>3. OnEvent(s, type) =
        IF s = "Uninitialized" /\ type = "Initialize" THEN "Initialize"
        ELSE IF s = "Initialize" /\ type = "HandShake" THEN "HandShake"
        ELSE IF s = "Initialize" /\ type = "InitOkReceived" THEN "Ready"
        ELSE IF s = "Ready" /\ type \in TimedStates THEN type ELSE s
  BY <1>2, SMT DEF OnEvent
<1>4. type \in TimedStates => type \in {"Command", "HandShake", "PsCancel",
                                        "PsDownImage", "GetChipSn"}
  BY <1>1 DEF TimedStates, DataStates
<1> QED BY <1>2, <1>3, <1>4, SMT DEF HasTransition

\* Where a time-out leads.
LEMMA TimeoutLeaves ==
  ASSUME NEW s \in TimedStates
  PROVE  HasTransition(s, "Timeout") /\ OnEvent(s, "Timeout") \in {"Ready", "PsCancel"}
<1>1. s \notin {"Uninitialized", "Initialize", "Ready"}
  BY DEF TimedStates, DataStates
<1>2. OnEvent(s, "Timeout") = TimeoutTarget(s)
  BY <1>1, SMT DEF OnEvent
<1>3. TimeoutTarget(s) # s /\ TimeoutTarget(s) \in {"Ready", "PsCancel"}
  BY <1>1 DEF TimeoutTarget, AutoStates
<1> QED BY <1>2, <1>3 DEF HasTransition

\* A method's event moves the machine that is ready for it.
LEMMA MethodEvents ==
  ASSUME NEW k \in CallKinds
  PROVE  /\ HasTransition("Ready", k) /\ OnEvent("Ready", k) = k
         /\ k \in TimedStates \ {"PsCancel"}
<1>1. k \in DataStates \union {"Command", "PsReadInfPage"}
  BY ConstantsAssumption
<1>2. k \in TimedStates \ {"PsCancel", "Ready"} /\ k # "Reset" /\ "Ready" \notin TimedStates
  BY <1>1 DEF TimedStates, DataStates
<1>3. OnEvent("Ready", k) = k
  BY <1>2, SMT DEF OnEvent, AutoStates
<1> QED BY <1>2, <1>3 DEF HasTransition

\* The event that is dequeued moves the machine, if at all, for whom it belongs to.
LEMMA DequeueTurn ==
  ASSUME QuietEnvironment, TypeOK, TurnInv, Dequeue
  PROVE  TurnInv'
<1>1. /\ Unreached /\ QueueInv /\ MoveInv /\ LoopInv /\ WaitInv /\ PendingInv /\ IoInv
      /\ CallerInv
  BY DEF TurnInv
<1>2. queue # <<>> /\ fsm.pc = "dequeue" /\ Len(queue) = 1 /\ NoAnswerUnderWay
  BY <1>1 DEF Dequeue, QueueInv
<1>3. PICK e \in Events : e = Head(queue) /\ queue' = <<>>
  BY <1>2, TakeLast DEF Dequeue, TypeOK
<1>4. /\ UNCHANGED <<current_state, ready, ignoreConfirmation, expired, sink,
                     io, caller, pending, budget>>
      /\ NoAnswerUnderWay'
  BY <1>2 DEF Dequeue, NoAnswerUnderWay
<1>5. \/ /\ HasTransition(current_state, e.type)
         /\ fsm' = [pc |-> "transition", at |-> current_state,
                    to |-> OnEvent(current_state, e.type), event |-> e]
      \/ /\ ~HasTransition(current_state, e.type)
         /\ fsm' = [FsmIdle EXCEPT !.pc = "visit"]
  BY <1>3 DEF Dequeue
<1>6. fsm'.pc \in {"transition", "visit"}
  BY <1>5 DEF FsmIdle
<1>7. Busy
  BY <1>2 DEF Busy
<1>8. QueueInv' /\ PendingInv' /\ IoInv'
  BY <1>3, <1>4 DEF NoAnswerUnderWay, QueueInv, PendingInv, IoInv
<1>9. LoopInv' /\ Unreached'
  BY <1>1, <1>4, <1>6 DEF LoopInv, Unreached
<1>10. WaitInv'
  BY <1>1, <1>2, <1>4 DEF WaitInv, Polling, MayWait, NoAnswerUnderWay
<1>11. MoveInv' /\ CallerInv'
  <2>1. ASSUME fsm'.pc = "transition" PROVE CallerInv'
    BY <1>1, <1>4, <1>7, <2>1 DEF CallerInv, Busy
  <2>2. CASE e = NoEvent /\ current_state \in TimedStates
    <3>1. e.type = "Timeout" /\ e.call = 0
      BY <2>2 DEF NoEvent, Event
    <3>2. /\ fsm'.pc = "transition" /\ fsm'.at = current_state
          /\ fsm'.to \in {"Ready", "PsCancel"} /\ fsm'.event = e
      BY <1>5, <2>2, <3>1, TimeoutLeaves
    <3>3. MayWait("PsCancel")'
      BY DEF MayWait, MethodStates, TimedStates, DataStates
    <3>4. CallOf("PsCancel")' = 0
      BY DEF CallOf
    <3>5. MoveInv'
      BY <1>3, <1>4, <3>1, <3>2, <3>3, <3>4 DEF MoveInv
    <3> QED BY <2>1, <3>2, <3>5
  <2>3. CASE /\ e.type \in CallKinds /\ e.call = caller.call
             /\ current_state = "Ready" /\ caller.pc = "await"
    <3>1. /\ fsm'.pc = "transition" /\ fsm'.at = current_state
          /\ fsm'.to = e.type /\ fsm'.event = e
      BY <1>5, <2>3, MethodEvents
    <3>2. caller.call > 0 /\ caller.call # 0
      BY <1>1, <2>3 DEF CallerInv
    <3>3. MayWait(e.type)' /\ CallOf(e.type)' = caller.call /\ e.type # "PsCancel"
      BY <1>4, <2>3, <3>2, MethodEvents DEF MayWait, CallOf
    <3>4. MoveInv'
      BY <1>3, <1>4, <2>3, <3>1, <3>3 DEF MoveInv
    <3> QED BY <2>1, <3>1, <3>4
  <2>4. CASE /\ e.type \in AppEvents \union {"Initialize"}
             /\ e.call = 0 /\ current_state \notin TimedStates
             /\ caller.call = 0
    <3>1. current_state \in {"Uninitialized", "Initialize", "Ready"}
      BY <1>1, <2>4 DEF Unreached
    <3>2. CASE HasTransition(current_state, e.type)
      <4>1. /\ fsm'.pc = "transition" /\ fsm'.at = current_state
            /\ fsm'.to = OnEvent(current_state, e.type) /\ fsm'.event = e
        BY <1>5, <3>2
      <4>2. fsm'.to \in {"Ready", "Initialize"} \/ MayWait(fsm.to)'
        BY <1>4, <2>4, <3>1, <3>2, <4>1, ForeignEvents
           DEF MayWait, MethodStates, TimedStates, DataStates
      <4>3. CallOf(fsm.to)' = 0
        BY <1>4, <2>4 DEF CallOf
      <4>4. MoveInv'
        BY <1>3, <1>4, <2>4, <4>1, <4>2, <4>3 DEF MoveInv
      <4> QED BY <2>1, <4>1, <4>4
    <3>3. CASE ~HasTransition(current_state, e.type)
      <4>1. fsm'.pc = "visit"
        BY <1>5, <3>3 DEF FsmIdle
      <4>2. ~Busy'
        BY <1>3, <1>4, <2>4, <4>1 DEF Busy, NoAnswerUnderWay
      <4>3. caller.pc = "idle"
        BY <1>1, <1>7, <2>4 DEF CallerInv
      <4> QED BY <1>4, <2>4, <4>1, <4>2, <4>3 DEF MoveInv, CallerInv
    <3> QED BY <3>2, <3>3
  <2> QED BY <1>1, <1>2, <1>3, <2>2, <2>3, <2>4 DEF QueueInv
<1> QED BY <1>8, <1>9, <1>10, <1>11 DEF TurnInv

\* An empty queue: the thread goes on to poll the deadline.
LEMMA DequeueEmptyTurn ==
  ASSUME TurnInv, DequeueEmpty
  PROVE  TurnInv'
<1>1. /\ Unreached /\ QueueInv /\ MoveInv /\ LoopInv /\ WaitInv /\ PendingInv /\ IoInv
      /\ CallerInv
  BY DEF TurnInv
<1>2. /\ fsm.pc = "dequeue" /\ fsm'.pc = "visit"
      /\ UNCHANGED <<current_state, queue, ready, lcc, ignoreConfirmation, expired,
                     sink, io, caller, pending, budget>>
  BY DEF DequeueEmpty, FsmIdle
<1>3. queue = <<>>
  BY DEF DequeueEmpty
<1>4. Polling /\ Polling' /\ (NoAnswerUnderWay' <=> NoAnswerUnderWay) /\ (Busy' <=> Busy)
  BY <1>2 DEF Polling, NoAnswerUnderWay, Busy
<1>5. Unreached' /\ QueueInv' /\ MoveInv' /\ LoopInv'
  BY <1>1, <1>2, <1>3 DEF Unreached, QueueInv, MoveInv, LoopInv
<1>6. WaitInv' /\ PendingInv'
  BY <1>1, <1>2, <1>4 DEF WaitInv, PendingInv, MayWait, CallOf
<1>7. IoInv'
  BY <1>1, <1>2, <1>4, DoneStable DEF IoInv, CallOf
<1>8. CallerInv'
  BY <1>1, <1>2, <1>4 DEF CallerInv
<1> QED BY <1>5, <1>6, <1>7, <1>8 DEF TurnInv

\* The machine moves to where the dequeued event leads.
LEMMA TransitionTurn ==
  ASSUME TurnInv, Transition, TypeOK
  PROVE  TurnInv'
<1>1. /\ Unreached /\ QueueInv /\ MoveInv /\ LoopInv /\ WaitInv /\ PendingInv /\ IoInv
      /\ CallerInv
  BY DEF TurnInv
<1>2. /\ fsm.pc = "transition" /\ fsm'.pc = "enter" /\ current_state' = fsm.to
      /\ fsm'.to = fsm.to /\ fsm'.event = fsm.event
      /\ UNCHANGED <<queue, ready, lcc, ignoreConfirmation, expired,
                     sink, io, caller, pending, budget>>
  BY DEF Transition, TypeOK
<1>3. queue = <<>> /\ NoAnswerUnderWay /\ queue' = <<>> /\ NoAnswerUnderWay'
  BY <1>1, <1>2 DEF MoveInv, NoAnswerUnderWay
<1>4. ~Polling' /\ Busy /\ Busy'
  BY <1>2 DEF Polling, Busy
<1>5. QueueInv' /\ PendingInv' /\ IoInv'
  BY <1>3 DEF NoAnswerUnderWay, QueueInv, PendingInv, IoInv
<1>6. Unreached' /\ LoopInv' /\ WaitInv'
  BY <1>1, <1>2, <1>4 DEF Unreached, LoopInv, WaitInv, MoveInv, MayWait
<1>7. MoveInv'
  BY <1>1, <1>2, <1>3 DEF MoveInv, MayWait, CallOf
<1>8. CallerInv'
  BY <1>1, <1>2, <1>4 DEF CallerInv
<1> QED BY <1>5, <1>6, <1>7, <1>8 DEF TurnInv

\* The command is transmitted: the module owes its answer, and nothing else.
LEMMA EnterTimedTurn ==
  ASSUME TurnInv, EnterTimed, TypeOK
  PROVE  TurnInv'
<1>1. /\ Unreached /\ QueueInv /\ MoveInv /\ LoopInv /\ WaitInv /\ PendingInv /\ IoInv
      /\ CallerInv
  BY DEF TurnInv
<1>2. PICK s \in TimedStates : s = fsm.to
  BY DEF EnterTimed
<1>3. /\ fsm.pc = "enter" /\ fsm'.pc = "visit"
      /\ expired' = expired \ {s} /\ sink' = SinkAfter(s, fsm.event.call)
      /\ ignoreConfirmation' = IgnoreAfter(s, fsm.event.type)
      /\ pending' = SendCommand(s, fsm.event.call)
      /\ UNCHANGED <<current_state, queue, ready, io, caller, budget>>
  BY <1>2 DEF EnterTimed, FsmIdle, Restart
<1>4. s \notin {"Ready", "Initialize"}
  BY DEF TimedStates, DataStates
<1>5. /\ queue = <<>> /\ pending = <<>> /\ io.pc = "idle" /\ current_state = s
      /\ MayWait(s) /\ fsm.event.call = CallOf(s)
      /\ s = "PsCancel" /\ caller.call > 0 => fsm.event.type # "PsCancel"
  BY <1>1, <1>2, <1>3, <1>4 DEF MoveInv, NoAnswerUnderWay
<1>6. PICK job : /\ pending' = <<job>> /\ job = [state |-> s, call |-> CallOf(s), step |-> 0]
  BY <1>3, <1>5 DEF SendCommand
<1>7. Polling' /\ Busy /\ Busy' /\ ~NoAnswerUnderWay'
  BY <1>3, <1>6, OneEvent DEF Polling, Busy, NoAnswerUnderWay
<1>8. Unreached' /\ QueueInv' /\ MoveInv' /\ LoopInv' /\ IoInv'
  BY <1>1, <1>3, <1>5 DEF Unreached, QueueInv, MoveInv, LoopInv, IoInv
<1>9. PendingInv'
  <2>1. 0 \in StepsOf(s)
    BY SMT DEF StepsOf
  <2>2. Len(pending') = 1 /\ Head(pending') = job
    BY <1>6, OneEvent
  <2>3. CallOf(s)' = CallOf(s)
    BY <1>3 DEF CallOf
  <2>4. StepsOf(current_state)' = StepsOf(s)
    BY <1>3, <1>5 DEF StepsOf
  <2> QED BY <1>3, <1>5, <1>6, <1>7, <2>1, <2>2, <2>3, <2>4 DEF PendingInv
<1>10. WaitInv'
  <2>1. MayWait(current_state)'
    BY <1>3, <1>5 DEF MayWait
  <2>2. s \in DataStates => sink'[s] = caller.call
    BY <1>3, <1>5 DEF SinkAfter, CallOf, TypeOK, DataStates
  <2>3. s = "PsCancel" /\ caller.call > 0 => ignoreConfirmation'
    BY <1>3, <1>5 DEF IgnoreAfter
  <2>4. s \notin expired'
    BY <1>3
  <2> QED BY <1>3, <1>5, <2>1, <2>2, <2>3, <2>4 DEF WaitInv
<1>11. CallerInv'
  BY <1>1, <1>3, <1>7 DEF CallerInv
<1> QED BY <1>8, <1>9, <1>10, <1>11 DEF TurnInv

\* Entering Ready announces it; nothing is left under way.
LEMMA EnterUntimedTurn ==
  ASSUME TurnInv, EnterUntimed, TypeOK
  PROVE  TurnInv'
<1>1. /\ Unreached /\ QueueInv /\ MoveInv /\ LoopInv /\ WaitInv /\ PendingInv /\ IoInv
      /\ CallerInv
  BY DEF TurnInv
<1>2. /\ fsm.pc = "enter" /\ fsm'.pc = "visit" /\ fsm.to \in {"Ready", "Initialize"}
      /\ ready' = (ready \/ fsm.to = "Ready")
      /\ UNCHANGED <<current_state, queue, lcc, ignoreConfirmation, expired,
                     sink, io, caller, pending, budget>>
  BY DEF EnterUntimed, FsmIdle
<1>3. /\ queue' = <<>> /\ NoAnswerUnderWay' /\ current_state' = fsm.to
      /\ fsm.to # "Ready" => caller.call = 0
  BY <1>1, <1>2 DEF MoveInv, NoAnswerUnderWay, MayWait, TimedStates, DataStates
<1>4. current_state' \notin TimedStates
  BY <1>2, <1>3 DEF TimedStates, DataStates
<1>5. Busy /\ ~Busy'
  BY <1>2, <1>3, <1>4 DEF Busy, NoAnswerUnderWay
<1>6. Unreached' /\ QueueInv' /\ MoveInv' /\ LoopInv' /\ WaitInv' /\ PendingInv' /\ IoInv'
  BY <1>1, <1>2, <1>3, <1>4
     DEF Unreached, QueueInv, MoveInv, LoopInv, WaitInv, PendingInv, IoInv,
         NoAnswerUnderWay
<1>7. CallerInv'
  <2>1. /\ caller.pc \in {"await", "idle"} /\ caller' = caller
        /\ caller.pc # "idle" => caller.call > 0
    BY <1>1, <1>2, <1>5 DEF CallerInv
  <2>2. caller.pc = "await" \/ caller.call > 0 => fsm.to = "Ready"
    BY <1>3, <2>1
  <2>3. fsm.to = "Ready" => ready'
    BY <1>2
  <2> QED BY <1>3, <1>5, <2>1, <2>2, <2>3 DEF CallerInv
<1> QED BY <1>6, <1>7 DEF TurnInv

\* Nobody enters Reset.
LEMMA NoReset ==
  ASSUME TurnInv
  PROVE  ~EnterReset /\ ~ResetReturns
<1>1. ~ResetReturns
  BY DEF TurnInv, Unreached, ResetReturns
<1>2. ~EnterReset
  BY DEF TurnInv, MoveInv, EnterReset, MayWait, TimedStates, DataStates
<1> QED BY <1>1, <1>2

\* The visited state is the current one; if its deadline has passed, it stays.
LEMMA VisitLoopTurn ==
  ASSUME TurnInv, VisitLoop, TypeOK
  PROVE  TurnInv'
<1>1. /\ Unreached /\ QueueInv /\ MoveInv /\ LoopInv /\ WaitInv /\ PendingInv /\ IoInv
      /\ CallerInv
  BY DEF TurnInv
<1>2. /\ fsm.pc = "visit" /\ fsm'.pc = "loop" /\ fsm'.at = current_state
      /\ UNCHANGED <<current_state, queue, ready, lcc, ignoreConfirmation, expired,
                     sink, io, caller, pending, budget>>
  BY DEF VisitLoop, FsmIdle
<1>3. Polling /\ Polling' /\ (NoAnswerUnderWay' <=> NoAnswerUnderWay) /\ (Busy' <=> Busy)
  BY <1>2 DEF Polling, NoAnswerUnderWay, Busy
<1>4. LoopInv'
  BY <1>1, <1>2, <1>3 DEF LoopInv, WaitInv, QueueInv, TimedStates, DataStates
<1>5. Unreached' /\ QueueInv' /\ MoveInv'
  BY <1>1, <1>2, <1>3 DEF Unreached, QueueInv, MoveInv
<1>6. WaitInv' /\ PendingInv'
  BY <1>1, <1>2, <1>3 DEF WaitInv, PendingInv, MayWait, CallOf
<1>7. IoInv'
  BY <1>1, <1>2, <1>3, DoneStable DEF IoInv, CallOf
<1>8. CallerInv'
  BY <1>1, <1>2, <1>3 DEF CallerInv
<1> QED BY <1>4, <1>5, <1>6, <1>7, <1>8 DEF TurnInv

\* A deadline that has passed enqueues its time-out, in the state that waits.
LEMMA HandleLoopTurn ==
  ASSUME TurnInv, HandleLoop, TypeOK
  PROVE  TurnInv'
<1>1. /\ Unreached /\ QueueInv /\ MoveInv /\ LoopInv /\ WaitInv /\ PendingInv /\ IoInv
      /\ CallerInv
  BY DEF TurnInv
<1>2. /\ fsm.pc = "loop" /\ fsm'.pc = "dequeue"
      /\ UNCHANGED <<current_state, ready, ignoreConfirmation, expired,
                     sink, io, caller, pending, budget>>
  BY DEF HandleLoop, FsmIdle
<1>3. Polling /\ Polling' /\ (NoAnswerUnderWay' <=> NoAnswerUnderWay)
  BY <1>2 DEF Polling, NoAnswerUnderWay
<1>4. Unreached' /\ MoveInv' /\ LoopInv'
  BY <1>1, <1>2 DEF Unreached, MoveInv, LoopInv
<1>5. WaitInv'
  BY <1>1, <1>2, <1>3 DEF WaitInv, MayWait
<1>6. CASE fsm.at \in TimedStates /\ fsm.at \in expired
  <2>1. /\ current_state = fsm.at /\ NoAnswerUnderWay /\ queue = <<>>
        /\ queue' = <<NoEvent>>
    BY <1>1, <1>2, <1>6, EnqueueFirst DEF LoopInv, HandleLoop, NoEvent
  <2>2. QueueInv'
    BY <1>2, <1>3, <1>6, <2>1, OneEvent DEF QueueInv
  <2>3. PendingInv' /\ IoInv'
    BY <1>3, <2>1 DEF NoAnswerUnderWay, PendingInv, IoInv
  <2>4. CallerInv'
    BY <1>1, <1>2, <1>6, <2>1 DEF CallerInv, Busy
  <2> QED BY <1>4, <1>5, <2>2, <2>3, <2>4 DEF TurnInv
<1>7. CASE ~(fsm.at \in TimedStates /\ fsm.at \in expired)
  <2>1. queue' = queue /\ lcc' = lcc
    BY <1>7 DEF HandleLoop
  <2>2. Busy' <=> Busy
    BY <1>2, <2>1 DEF Busy
  <2>3. QueueInv'
    BY <1>1, <1>2, <1>3, <2>1 DEF QueueInv
  <2>4. PendingInv'
    BY <1>1, <1>2, <1>3, <2>1 DEF PendingInv, CallOf
  <2>5. IoInv'
    BY <1>1, <1>2, <1>3, <2>1, DoneStable DEF IoInv, CallOf
  <2>6. CallerInv'
    BY <1>1, <1>2, <2>2 DEF CallerInv
  <2> QED BY <1>4, <1>5, <2>3, <2>4, <2>5, <2>6 DEF TurnInv
<1> QED BY <1>6, <1>7

------------------------------------------------------------------------------
(* One command at a time: the I/O thread, the module, the deadlines. *)

\* A packet is parsed in the state that waits for it.
LEMMA ReceiveFrameTurn ==
  ASSUME TurnInv, ReceiveFrame, TypeOK
  PROVE  TurnInv'
<1>1. /\ Unreached /\ QueueInv /\ MoveInv /\ LoopInv /\ WaitInv /\ PendingInv /\ IoInv
      /\ CallerInv
  BY DEF TurnInv
<1>2. /\ io.pc = "idle" /\ pending # <<>>
      /\ UNCHANGED <<current_state, queue, ready, lcc, ignoreConfirmation, expired,
                     sink, fsm, caller, budget>>
  BY DEF ReceiveFrame
<1>3. /\ Len(pending) = 1 /\ queue = <<>> /\ Polling /\ current_state \in TimedStates
  BY <1>1, <1>2 DEF PendingInv
<1>4. PICK job \in Jobs : /\ job = Head(pending) /\ Tail(pending) = <<>>
                          /\ job.state = current_state /\ job.call = CallOf(current_state)
                          /\ job.step \in StepsOf(job.state)
  BY <1>1, <1>2, <1>3, TakeLast DEF TypeOK, PendingInv
<1>5. PICK r \in Replies(job) :
        /\ io' = [pc |-> "handle", at |-> current_state, frame |-> r.frame]
        /\ pending' = IF r.step = 0 THEN <<>>
                      ELSE <<[job EXCEPT !.step = r.step]>> \o <<>>
  BY <1>4 DEF ReceiveFrame
<1>6. PICK s \in TimedStates : s = current_state /\ s = job.state /\ job.call = CallOf(s)
  BY <1>3, <1>4
<1>7. /\ io'.pc = "handle" /\ io'.at = s /\ io'.frame = r.frame
  BY <1>5, <1>6
<1>8. /\ r.frame.call = CallOf(s) /\ r.step \in StepsOf(s)
      /\ Handle(s, r.frame).done => r.step = 0
  BY <1>4, <1>6, ReplyFacts
<1>9. PICK next : next = [job EXCEPT !.step = r.step]
  OBVIOUS
<1>10. /\ next.state = s /\ next.call = CallOf(s) /\ next.step = r.step
  BY <1>6, <1>9 DEF Jobs
<1>11. pending' = <<>> \/ (r.step # 0 /\ pending' = <<next>>)
  BY <1>5, <1>9
<1>12. Polling' /\ ~NoAnswerUnderWay /\ ~NoAnswerUnderWay' /\ Busy /\ Busy'
  BY <1>2, <1>3, <1>7 DEF Polling, NoAnswerUnderWay, Busy
<1>13. Unreached' /\ QueueInv' /\ MoveInv' /\ LoopInv'
  BY <1>1, <1>2, <1>3, <1>12 DEF Unreached, QueueInv, MoveInv, LoopInv, Polling
<1>14. WaitInv'
  BY <1>1, <1>2, <1>3, <1>12 DEF WaitInv, MayWait
<1>15. CallOf(s)' = CallOf(s) /\ current_state' = s /\ StepsOf(current_state)' = StepsOf(s)
  BY <1>2, <1>6 DEF CallOf, StepsOf
<1>16. PendingInv'
  BY <1>2, <1>3, <1>7, <1>8, <1>10, <1>11, <1>12, <1>15, OneEvent DEF PendingInv
<1>17. IoInv'
  <2>1. PICK f : f = r.frame
    OBVIOUS
  <2>2. Handle(io.at, io.frame).done' <=> Handle(s, f).done
    BY <1>7, <2>1, DoneNext
  <2> QED BY <1>2, <1>3, <1>5, <1>7, <1>8, <1>11, <1>12, <1>15, <2>1, <2>2 DEF IoInv
<1>18. CallerInv'
  BY <1>1, <1>2, <1>12 DEF CallerInv
<1> QED BY <1>13, <1>14, <1>16, <1>17, <1>18 DEF TurnInv

\* The module falls silent: what it owed is forgotten.
LEMMA SensorSilentTurn ==
  ASSUME TurnInv, SensorSilent, TypeOK
  PROVE  TurnInv'
<1>1. /\ Unreached /\ QueueInv /\ MoveInv /\ LoopInv /\ WaitInv /\ PendingInv /\ IoInv
      /\ CallerInv
  BY DEF TurnInv
<1>2. /\ pending # <<>>
      /\ UNCHANGED <<current_state, queue, ready, lcc, ignoreConfirmation, expired,
                     sink, fsm, io, caller, budget>>
  BY DEF SensorSilent, hostVars
<1>3. /\ Len(pending) = 1 /\ queue = <<>> /\ Polling /\ current_state \in TimedStates
  BY <1>1, <1>2 DEF PendingInv
<1>4. pending' = <<>>
  BY <1>3, TakeLast DEF SensorSilent, TypeOK
<1>5. Polling' /\ ~NoAnswerUnderWay /\ Busy /\ Busy'
  BY <1>2, <1>3 DEF Polling, NoAnswerUnderWay, Busy
<1>6. Unreached' /\ QueueInv' /\ MoveInv' /\ LoopInv' /\ PendingInv'
  BY <1>1, <1>2, <1>3, <1>4, <1>5
     DEF Unreached, QueueInv, MoveInv, LoopInv, PendingInv, Polling
<1>7. WaitInv'
  BY <1>1, <1>2, <1>3, <1>5 DEF WaitInv, MayWait
<1>8. IoInv'
  BY <1>1, <1>2, <1>4, <1>5, DoneStable DEF IoInv, CallOf
<1>9. CallerInv'
  BY <1>1, <1>2, <1>5 DEF CallerInv
<1> QED BY <1>6, <1>7, <1>8, <1>9 DEF TurnInv

\* The handler leaves the state it belongs to only when nothing more is to come.
LEMMA HandleDataTurn ==
  ASSUME TurnInv, HandleData, TypeOK
  PROVE  TurnInv'
<1>1. /\ Unreached /\ QueueInv /\ MoveInv /\ LoopInv /\ WaitInv /\ PendingInv /\ IoInv
      /\ CallerInv
  BY DEF TurnInv
<1>2. /\ io.pc = "handle" /\ expired' \subseteq expired
      /\ UNCHANGED <<current_state, queue, ready, ignoreConfirmation, sink, fsm,
                     caller, pending, budget>>
  BY DEF HandleData, Restart
<1>3. \/ /\ Handle(io.at, io.frame).done
         /\ io' = [io EXCEPT !.pc = "transition"]
      \/ io' = IoIdle
  BY DEF HandleData
<1>4. /\ io'.pc \in {"transition", "idle"}
      /\ io'.pc = "transition" => io'.at = io.at /\ Handle(io.at, io.frame).done
  BY <1>3 DEF IoIdle, TypeOK
<1>5. /\ queue = <<>> /\ Polling /\ current_state \in TimedStates /\ io.at = current_state
      /\ Handle(io.at, io.frame).done => pending = <<>>
  BY <1>1, <1>2 DEF IoInv
<1>6. Polling' /\ ~NoAnswerUnderWay /\ Busy /\ Busy'
  BY <1>2, <1>5 DEF Polling, NoAnswerUnderWay, Busy
<1>7. Unreached' /\ QueueInv' /\ MoveInv' /\ LoopInv'
  BY <1>1, <1>2, <1>5, <1>6 DEF Unreached, QueueInv, MoveInv, LoopInv, Polling
<1>8. WaitInv'
  BY <1>1, <1>2, <1>5, <1>6 DEF WaitInv, MayWait
<1>9. PendingInv'
  BY <1>1, <1>2, <1>4, <1>5, <1>6 DEF PendingInv, CallOf
<1>10. IoInv'
  BY <1>2, <1>4, <1>5, <1>6 DEF IoInv
<1>11. CallerInv'
  BY <1>1, <1>2, <1>6 DEF CallerInv
<1> QED BY <1>7, <1>8, <1>9, <1>10, <1>11 DEF TurnInv

\* The I/O thread makes the machine ready: the module has finished.
LEMMA IoTransitionTurn ==
  ASSUME TurnInv, IoTransition, TypeOK
  PROVE  TurnInv'
<1>1. /\ Unreached /\ QueueInv /\ MoveInv /\ LoopInv /\ WaitInv /\ PendingInv /\ IoInv
      /\ CallerInv
  BY DEF TurnInv
<1>2. /\ io.pc = "transition" /\ io'.pc = "enter" /\ current_state' = "Ready"
      /\ UNCHANGED <<queue, ready, lcc, ignoreConfirmation, expired, sink, fsm,
                     caller, pending, budget>>
  BY DEF IoTransition, TypeOK
<1>3. queue = <<>> /\ Polling /\ pending = <<>>
  BY <1>1, <1>2 DEF IoInv
<1>4. Polling' /\ ~NoAnswerUnderWay /\ Busy /\ Busy' /\ "Ready" \notin TimedStates
  BY <1>2, <1>3 DEF Polling, NoAnswerUnderWay, Busy, TimedStates, DataStates
<1>5. /\ Unreached' /\ QueueInv' /\ MoveInv' /\ LoopInv' /\ WaitInv' /\ PendingInv'
      /\ IoInv'
  BY <1>1, <1>2, <1>3, <1>4
     DEF Unreached, QueueInv, MoveInv, LoopInv, WaitInv, PendingInv, IoInv, Polling
<1>6. CallerInv'
  BY <1>1, <1>2, <1>4 DEF CallerInv
<1> QED BY <1>5, <1>6 DEF TurnInv

\* ... and says so.
LEMMA IoEnterTurn ==
  ASSUME TurnInv, IoEnter, TypeOK
  PROVE  TurnInv'
<1>1. /\ Unreached /\ QueueInv /\ MoveInv /\ LoopInv /\ WaitInv /\ PendingInv /\ IoInv
      /\ CallerInv
  BY DEF TurnInv
<1>2. /\ io.pc = "enter" /\ io'.pc = "idle" /\ ready' = TRUE
      /\ UNCHANGED <<current_state, queue, lcc, ignoreConfirmation, expired, sink, fsm,
                     caller, pending, budget>>
  BY DEF IoEnter, IoIdle
<1>3. queue = <<>> /\ Polling /\ pending = <<>> /\ current_state = "Ready"
  BY <1>1, <1>2 DEF IoInv
<1>4. Polling' /\ ~NoAnswerUnderWay /\ Busy /\ ~Busy' /\ "Ready" \notin TimedStates
  BY <1>2, <1>3 DEF Polling, NoAnswerUnderWay, Busy, TimedStates, DataStates
<1>5. /\ Unreached' /\ QueueInv' /\ MoveInv' /\ LoopInv' /\ WaitInv' /\ PendingInv'
      /\ IoInv'
  BY <1>1, <1>2, <1>3, <1>4
     DEF Unreached, QueueInv, MoveInv, LoopInv, WaitInv, PendingInv, IoInv, Polling
<1>6. CallerInv'
  BY <1>1, <1>2, <1>3, <1>4 DEF CallerInv
<1> QED BY <1>5, <1>6 DEF TurnInv

\* A deadline passes only when no answer is under way.
LEMMA ExpireTurn ==
  ASSUME QuietEnvironment, TurnInv, Expire, TypeOK
  PROVE  TurnInv'
<1>1. /\ Unreached /\ QueueInv /\ MoveInv /\ LoopInv /\ WaitInv /\ PendingInv /\ IoInv
      /\ CallerInv
  BY DEF TurnInv
<1>2. /\ current_state \in TimedStates /\ NoAnswerUnderWay
      /\ expired' = expired \union {current_state}
      /\ UNCHANGED <<current_state, queue, ready, lcc, ignoreConfirmation, sink, fsm,
                     io, caller, pending, budget>>
  BY DEF Expire, QuietEnvironment
<1>3. /\ Polling' <=> Polling
      /\ NoAnswerUnderWay'
      /\ Busy' <=> Busy
  BY <1>2 DEF Polling, NoAnswerUnderWay, Busy
<1>4. Unreached' /\ QueueInv' /\ MoveInv'
  BY <1>1, <1>2, <1>3 DEF Unreached, QueueInv, MoveInv, MayWait, CallOf
<1>5. LoopInv'
  BY <1>1, <1>2, <1>3 DEF LoopInv, QueueInv, TimedStates, DataStates
<1>6. WaitInv'
  BY <1>1, <1>2, <1>3 DEF WaitInv, MayWait
<1>7. PendingInv' /\ IoInv'
  BY <1>3 DEF PendingInv, IoInv, NoAnswerUnderWay
<1>8. CallerInv'
  BY <1>1, <1>2, <1>3 DEF CallerInv
<1> QED BY <1>4, <1>5, <1>6, <1>7, <1>8 DEF TurnInv

------------------------------------------------------------------------------
(* One command at a time: the calling thread. *)

\* Between two commands only the caller moves.
LEMMA CallerTurn ==
  ASSUME TurnInv, TypeOK, ClearFlag \/ AwaitReady \/ ReadResult
  PROVE  TurnInv'
<1>1. /\ Unreached /\ QueueInv /\ MoveInv /\ LoopInv /\ WaitInv /\ PendingInv /\ IoInv
      /\ CallerInv
  BY DEF TurnInv
<1>2. /\ UNCHANGED <<current_state, queue, ignoreConfirmation, expired, sink, fsm, io,
                     pending, budget>>
      /\ caller'.call = caller.call /\ caller'.pc # "await" /\ caller.pc # "idle"
      /\ caller'.pc = "idle" <=> caller.pc = "read"
      /\ caller'.pc = "enqueue" => ready' = FALSE
  BY DEF ClearFlag, AwaitReady, ReadResult, TypeOK
<1>3. caller.pc # "await" \/ ready
  BY DEF ClearFlag, AwaitReady, ReadResult
<1>4. ~Busy /\ ~Busy'
  BY <1>1, <1>2, <1>3 DEF Busy, CallerInv
<1>5. /\ Unreached' /\ QueueInv' /\ MoveInv' /\ LoopInv' /\ WaitInv' /\ PendingInv'
      /\ IoInv'
  BY <1>1, <1>2, <1>4
     DEF Busy, Unreached, QueueInv, MoveInv, LoopInv, WaitInv, PendingInv, IoInv,
         NoAnswerUnderWay
<1>6. CallerInv'
  BY <1>1, <1>2, <1>4 DEF CallerInv
<1> QED BY <1>5, <1>6 DEF TurnInv

\* A call begins when nothing is under way and the machine is ready.
LEMMA ClearCodeTurn ==
  ASSUME QuietEnvironment, TurnInv, TypeOK, ClearCode
  PROVE  TurnInv' /\ ~Busy
<1>1. /\ Unreached /\ QueueInv /\ MoveInv /\ LoopInv /\ WaitInv /\ PendingInv /\ IoInv
      /\ CallerInv
  BY DEF TurnInv
<1>2. /\ caller.pc = "idle" /\ caller'.pc = "clearFlag" /\ caller'.call = caller.call + 1
      /\ UNCHANGED <<current_state, queue, ready, ignoreConfirmation, expired, sink,
                     fsm, io, pending, budget>>
      /\ caller.call = 0 => HostAtRest /\ current_state = "Ready"
  BY DEF ClearCode, QuietEnvironment
<1>3. ~Busy
  BY <1>1, <1>2 DEF Busy, CallerInv, HostAtRest, NoAnswerUnderWay
<1>4. ~Busy'
  BY <1>2, <1>3 DEF Busy
<1>5. caller.call \in Nat
  BY ConstantsAssumption DEF TypeOK, CallIds
<1>6. caller'.call > 0 /\ (caller.call = 0 \/ caller.call > 0)
  BY <1>2, <1>5
<1>7. current_state' = "Ready"
  BY <1>1, <1>2, <1>3, <1>6 DEF CallerInv
<1>8. /\ Unreached' /\ QueueInv' /\ MoveInv' /\ LoopInv' /\ WaitInv' /\ PendingInv'
      /\ IoInv'
  BY <1>1, <1>2, <1>3, <1>4
     DEF Busy, Unreached, QueueInv, MoveInv, LoopInv, WaitInv, PendingInv, IoInv,
         NoAnswerUnderWay
<1>9. CallerInv'
  BY <1>2, <1>4, <1>6, <1>7 DEF CallerInv
<1> QED BY <1>3, <1>8, <1>9 DEF TurnInv

\* The method's event finds an empty queue and a machine that is ready.
LEMMA EnqueueCallTurn ==
  ASSUME TurnInv, TypeOK, EnqueueCall
  PROVE  /\ TurnInv'
         /\ ~Busy /\ queue' = <<Event(caller.kind, caller.call)>>
<1>1. /\ Unreached /\ QueueInv /\ MoveInv /\ LoopInv /\ WaitInv /\ PendingInv /\ IoInv
      /\ CallerInv
  BY DEF TurnInv
<1>2. /\ caller.pc = "enqueue" /\ caller'.pc = "await" /\ caller'.call = caller.call
      /\ UNCHANGED <<current_state, ready, ignoreConfirmation, expired, sink,
                     fsm, io, pending, budget>>
      /\ caller.kind \in CallKinds
  BY DEF EnqueueCall, TypeOK
<1>3. ~Busy /\ caller.call > 0 /\ ~ready /\ current_state = "Ready"
  BY <1>1, <1>2 DEF CallerInv
<1>4. PICK e : e = Event(caller.kind, caller.call)
  OBVIOUS
<1>5. queue = <<>> /\ queue' = <<e>>
  BY <1>3, <1>4, EnqueueFirst DEF Busy, EnqueueCall
<1>6. Head(queue') = e /\ Len(queue') = 1 /\ queue' # <<>>
  BY <1>5, OneEvent
<1>7. Busy'
  BY <1>6 DEF Busy
<1>8. /\ NoAnswerUnderWay' /\ Polling' /\ current_state \notin TimedStates
  BY <1>2, <1>3 DEF Busy, NoAnswerUnderWay, Polling, TypeOK, FsmPcs, Unreached, TurnInv
<1>9. QueueInv'
  BY <1>2, <1>3, <1>4, <1>6, <1>8 DEF QueueInv, Event
<1>10. Unreached' /\ MoveInv' /\ LoopInv' /\ WaitInv' /\ PendingInv' /\ IoInv'
  BY <1>1, <1>2, <1>3, <1>8
     DEF Busy, Unreached, MoveInv, LoopInv, WaitInv, PendingInv, IoInv, NoAnswerUnderWay,
         Polling
<1>11. CallerInv'
  BY <1>2, <1>3, <1>7 DEF CallerInv
<1> QED BY <1>3, <1>4, <1>5, <1>9, <1>10, <1>11 DEF TurnInv

\* The caller outwaits the machine: its own time-out never strikes.
LEMMA NoAwaitTimeout ==
  ASSUME QuietEnvironment, TurnInv
  PROVE  ~AwaitTimeout
<1> SUFFICES ASSUME AwaitTimeout PROVE FALSE
  OBVIOUS
<1>1. caller.pc = "await" /\ ~ready /\ HostAtRest
  BY DEF AwaitTimeout, QuietEnvironment
<1>2. ~Busy
  BY <1>1 DEF HostAtRest, NoAnswerUnderWay, Busy
<1> QED BY <1>1, <1>2 DEF TurnInv, CallerInv

\* Before the first call the application enqueues its events one by one.
LEMMA AppEnqueueTurn ==
  ASSUME QuietEnvironment, TurnInv, TypeOK, AppEnqueue
  PROVE  TurnInv'
<1>1. /\ Unreached /\ QueueInv /\ MoveInv /\ LoopInv /\ WaitInv /\ PendingInv /\ IoInv
      /\ CallerInv
  BY DEF TurnInv
<1>2. /\ caller.pc = "idle" /\ caller.call = 0 /\ HostAtRest
      /\ UNCHANGED <<current_state, ready, ignoreConfirmation, expired, sink,
                     fsm, io, caller, pending>>
      /\ budget'.detect = budget.detect
  BY DEF AppEnqueue, QuietEnvironment, TypeOK
<1>3. queue = <<>> /\ NoAnswerUnderWay /\ Polling /\ current_state \notin TimedStates
  BY <1>2 DEF HostAtRest, Polling
<1>4. PICK e : queue' = <<e>> /\ \E type \in AppEvents : e = Event(type, 0)
  BY <1>3, EnqueueFirst DEF AppEnqueue
<1>5. Head(queue') = e /\ Len(queue') = 1 /\ e.type \in AppEvents /\ e.call = 0
  BY <1>4, OneEvent DEF Event
<1>6. NoAnswerUnderWay' /\ Polling'
  BY <1>2, <1>3 DEF NoAnswerUnderWay, Polling
<1>7. QueueInv'
  BY <1>2, <1>3, <1>5, <1>6 DEF QueueInv
<1>8. Unreached' /\ MoveInv' /\ LoopInv' /\ WaitInv' /\ PendingInv' /\ IoInv'
  BY <1>1, <1>2, <1>3
     DEF Unreached, MoveInv, LoopInv, WaitInv, PendingInv, IoInv, NoAnswerUnderWay,
         Polling
<1>9. CallerInv'
  BY <1>2 DEF CallerInv
<1> QED BY <1>7, <1>8, <1>9 DEF TurnInv

------------------------------------------------------------------------------
(* One command at a time: the invariant. *)

\* At first only the event with which the machine starts is queued.
LEMMA InitTurn == QuietEnvironment /\ Init => TurnInv
<1> SUFFICES ASSUME QuietEnvironment, Init PROVE TurnInv
  OBVIOUS
<1>1. PICK e : e = Event("Initialize", 0) /\ queue = <<e>>
  BY DEF Init
<1>2. Head(queue) = e /\ Len(queue) = 1 /\ e.type = "Initialize" /\ e.call = 0
  BY <1>1, OneEvent DEF Event
<1>3. /\ fsm.pc = "dequeue" /\ io.pc = "idle" /\ caller.pc = "idle" /\ caller.call = 0
      /\ pending = <<>> /\ current_state = "Uninitialized" /\ expired = {}
      /\ budget.detect = 0
  BY DEF Init, FsmIdle, IoIdle, QuietEnvironment
<1>4. "Uninitialized" \notin TimedStates
  BY DEF TimedStates, DataStates
<1>5. QueueInv
  BY <1>2, <1>3, <1>4 DEF QueueInv, NoAnswerUnderWay, Polling
<1>6. Unreached /\ MoveInv /\ LoopInv /\ WaitInv /\ PendingInv /\ IoInv /\ CallerInv
  BY <1>3, <1>4 DEF Unreached, MoveInv, LoopInv, WaitInv, PendingInv, IoInv, CallerInv
<1> QED BY <1>5, <1>6 DEF TurnInv

\* No interrupt is left to strike.
LEMMA NoDetect ==
  ASSUME TurnInv
  PROVE  ~IsrDetect
BY DEF TurnInv, Unreached, IsrDetect

\* Every step of every thread, of the module and of the environment passes the turn
\* on to at most one other.
LEMMA NextTurn == QuietEnvironment /\ TypeOK /\ TurnInv /\ [Next]_vars => TurnInv'
<1> SUFFICES ASSUME QuietEnvironment, TypeOK, TurnInv, [Next]_vars PROVE TurnInv'
  OBVIOUS
<1>1. CASE FsmThread
  BY <1>1, DequeueTurn, DequeueEmptyTurn, TransitionTurn, EnterTimedTurn,
     EnterUntimedTurn, NoReset, VisitLoopTurn, HandleLoopTurn DEF FsmThread
<1>2. CASE IoThread
  BY <1>2, HandleDataTurn, IoTransitionTurn, IoEnterTurn DEF IoThread
<1>3. CASE CallReturns \/ ClearCode
  BY <1>3, CallerTurn, EnqueueCallTurn, NoAwaitTimeout, ClearCodeTurn DEF CallReturns
<1>4. CASE AppEnqueue \/ IsrDetect \/ Expire \/ ReceiveFrame \/ SensorSilent
  BY <1>4, AppEnqueueTurn, NoDetect, ExpireTurn, ReceiveFrameTurn, SensorSilentTurn
<1>5. CASE UNCHANGED vars
  <2>1. UNCHANGED <<current_state, queue, ready, ignoreConfirmation, expired, sink, fsm,
                    io, caller, pending, budget>>
    BY <1>5 DEF vars, hostVars
  <2>2. /\ Polling' <=> Polling
        /\ NoAnswerUnderWay' <=> NoAnswerUnderWay
        /\ Busy' <=> Busy
    BY <2>1 DEF Polling, NoAnswerUnderWay, Busy
  <2>3. Unreached' /\ QueueInv' /\ MoveInv' /\ LoopInv' /\ WaitInv' /\ PendingInv'
    BY <2>1, <2>2 DEF TurnInv, Unreached, QueueInv, MoveInv, LoopInv, WaitInv,
                      PendingInv, MayWait, CallOf
  <2>4. IoInv'
    BY <2>1, <2>2, DoneStable DEF TurnInv, IoInv, CallOf
  <2>5. CallerInv'
    BY <2>1, <2>2 DEF TurnInv, CallerInv
  <2> QED BY <2>3, <2>4, <2>5 DEF TurnInv
<1> QED BY <1>1, <1>2, <1>3, <1>4, <1>5, Zenon DEF Next

\* In a quiet environment at most one command is under way, and the machine is where
\* the waiting method needs it.
THEOREM OneCommandAtATime ==
  ASSUME QuietEnvironment
  PROVE  Spec => [](TypeOK /\ TurnInv)
BY InitTypeOK, NextTypeOK, InitTurn, NextTurn, PTL DEF Spec

------------------------------------------------------------------------------
(* What follows from taking turns. *)

\* A command is transmitted only when the module owes no answer, so that packets of
\* two commands are never mixed on the line.
THEOREM TransmitsWhenIdle ==
  ASSUME QuietEnvironment
  PROVE  Spec => HalfDuplex
<1>1. TurnInv => [EnterTimed => NoAnswerUnderWay]_vars
  BY DEF TurnInv, MoveInv, EnterTimed
<1> QED BY <1>1, OneCommandAtATime, PTL DEF HalfDuplex

\* The two threads that move the machine never move it from under each other.
THEOREM TransitionsAreCurrent ==
  ASSUME QuietEnvironment
  PROVE  Spec => TransitionFromDecidingState
<1>1. TurnInv => [/\ IoTransition => current_state = io.at
                  /\ Transition => current_state = fsm.at]_vars
  BY DEF TurnInv, MoveInv, IoInv, Transition, IoTransition
<1> QED BY <1>1, OneCommandAtATime, PTL DEF TransitionFromDecidingState

\* Only the states that were given a result pointer follow it.
LEMMA WritingStates ==
  ASSUME NEW s \in TimedStates, NEW f, Handle(s, f).writes
  PROVE  s \in DataStates
<1>1. /\ ~CommandState(f).writes /\ ~PsCancelState(f).writes
      /\ ~HandShakeState(f).writes /\ ~GetChipSnState(f).writes
      /\ ~PsReadInfPageState(f).writes /\ ~PsDownImageState(f).writes
  BY DEF CommandState, PsCancelState, HandShakeState, GetChipSnState,
         PsReadInfPageState, PsDownImageState, Outcome
<1> QED BY <1>1, HandleOf DEF TimedStates

\* A result pointer is followed only for the method that waits for the result.
THEOREM PointersAreAlive ==
  ASSUME QuietEnvironment
  PROVE  Spec => NoWriteAfterReturn
<1>1. ASSUME TypeOK, TurnInv, HandleData, Handle(io.at, io.frame).writes
      PROVE  sink[io.at] = caller.call /\ caller.pc \in {"await", "read"}
  <2>1. /\ io.pc = "handle" /\ io.at = current_state /\ current_state \in TimedStates
        /\ Polling
    BY <1>1 DEF HandleData, TurnInv, IoInv
  <2>2. MayWait(current_state)
    BY <1>1, <2>1 DEF TurnInv, WaitInv
  <2>3. io.at \in DataStates
    BY <1>1, <2>1, WritingStates
  <2>4. sink[io.at] = caller.call
    BY <1>1, <2>1, <2>3 DEF TurnInv, WaitInv
  <2>5. caller.call # 0
    BY <2>1, <2>2, <2>3 DEF MayWait, MethodStates
  <2>6. caller.pc = "await"
    BY <1>1, <2>1, <2>5 DEF TurnInv, CallerInv, Busy
  <2> QED BY <2>4, <2>6
<1>2. TypeOK /\ TurnInv => [HandleData /\ Handle(io.at, io.frame).writes =>
        sink[io.at] = caller.call /\ caller.pc \in {"await", "read"}]_vars
  BY <1>1
<1> QED BY <1>2, OneCommandAtATime, PTL DEF NoWriteAfterReturn

\* The machine is ready for every method's event when it takes it.
THEOREM CallsAreTaken ==
  ASSUME QuietEnvironment
  PROVE  Spec => NoCallDropped
<1>1. ASSUME TypeOK, TurnInv, Dequeue, Head(queue).call > 0
      PROVE  HasTransition(current_state, Head(queue).type)
  <2>1. queue # <<>> /\ Head(queue).call # 0 /\ Head(queue) # NoEvent
    BY <1>1 DEF Dequeue, NoEvent, Event
  <2>2. Head(queue).type \in CallKinds /\ current_state = "Ready"
    BY <1>1, <2>1 DEF TurnInv, QueueInv
  <2> QED BY <2>2, MethodEvents
<1>2. TypeOK /\ TurnInv => [Dequeue /\ Head(queue).call > 0 =>
        HasTransition(current_state, Head(queue).type)]_vars
  BY <1>1
<1> QED BY <1>2, OneCommandAtATime, PTL DEF NoCallDropped

------------------------------------------------------------------------------
(* What became of the call. *)

\* A method is under way.
Called == caller.pc # "idle"

\* Only calls that have been made were carried out, refused or have returned.
Made ==
  /\ carriedOut \subseteq 0..caller.call
  /\ failed \subseteq 1..caller.call
  /\ \A c \in 1..MaxCalls :
       results[c] # "none" => c <= caller.call /\ (c = caller.call => ~Called)

\* The present call's command has not been transmitted.
NotSent ==
  \/ caller.pc \in {"clearFlag", "enqueue"}
  \/ Called /\ queue # <<>> /\ Head(queue).call = caller.call
  \/ Called /\ fsm.pc \in {"transition", "enter"} /\ fsm.to \in CallKinds

\* Before, nothing has happened to it.
FreshCall ==
  NotSent => lcc = "UNKNOWN" /\ caller.call \notin carriedOut \union failed

\* A command that has been carried out is about to be answered for, or has been.
ServedInv ==
  Called /\ Busy /\ caller.call \in carriedOut =>
    /\ io.pc # "idle" /\ pending = <<>>
    /\ io.pc = "handle" => Handle(io.at, io.frame).done

\* A refusal is remembered: no later packet is stored over it.
RefusedInv ==
  Called /\ caller.call \in failed =>
    /\ lcc \in {"ERROR_SENSOR", "ERROR_TIMEOUT"}
    /\ pending # <<>> \/ io.pc = "handle" =>
         current_state \in {"PsAutoEnroll", "PsCancel"}

\* A refusal is the last packet of its command, but for the stages, and no command
\* is refused after it has been carried out.
RefusalEnds ==
  io.pc = "handle" /\ io.frame.pid = "ack" /\ io.frame.conf # "OK" =>
    /\ io.at \notin AutoStates => pending = <<>>
    /\ Called => caller.call \notin carriedOut

\* What RefusalIsReported needs to be inductive.
RefusalInv ==
  Made /\ FreshCall /\ ServedInv /\ RefusedInv /\ RefusalEnds /\ RefusalIsReported

\* A step that neither stores nor returns anything, nor takes a command back.
LEMMA RefusalKept ==
  ASSUME RefusalInv,
         UNCHANGED <<io, caller, lcc, carriedOut, failed, results>>,
         pending' \in {pending, <<>>},
         pending # <<>> \/ io.pc = "handle" => current_state' = current_state,
         NotSent' => NotSent,
         Called /\ Busy' => Busy
  PROVE  RefusalInv'
<1>1. Made /\ FreshCall /\ ServedInv /\ RefusedInv /\ RefusalEnds /\ RefusalIsReported
  BY DEF RefusalInv
<1>2. Called' <=> Called
  BY DEF Called
<1>3. Made' /\ FreshCall' /\ RefusalIsReported'
  BY <1>1, <1>2 DEF Made, FreshCall, RefusalIsReported
<1>4. ServedInv'
  BY <1>1, <1>2, DoneStable DEF ServedInv
<1>5. RefusedInv' /\ RefusalEnds'
  BY <1>1, <1>2 DEF RefusedInv, RefusalEnds
<1> QED BY <1>3, <1>4, <1>5 DEF RefusalInv

\* While a command is in hand, or answered, it is past NotSent.
LEMMA SentWhileAnswering ==
  ASSUME TurnInv, ~NoAnswerUnderWay
  PROVE  ~NotSent /\ Busy /\ Polling /\ queue = <<>>
<1>1. Busy
  BY DEF NoAnswerUnderWay, Busy
<1>2. caller.pc \in {"await", "idle"} /\ queue = <<>> /\ Polling
  BY <1>1 DEF TurnInv, CallerInv, NoAnswerUnderWay, PendingInv, IoInv
<1> QED BY <1>1, <1>2 DEF NotSent, Polling

\* The steps of the state machine thread that move it without touching the command.
LEMMA MachineRefusal ==
  ASSUME QuietEnvironment, TypeOK, TurnInv, TurnInv', RefusalInv,
         Dequeue \/ DequeueEmpty \/ Transition \/ EnterUntimed \/ VisitLoop
  PROVE  RefusalInv'
<1>1. UNCHANGED <<io, caller, lcc, carriedOut, failed, results, pending>>
  BY DEF Dequeue, DequeueEmpty, Transition, EnterUntimed, VisitLoop, history
<1>2. Called' <=> Called
  BY <1>1 DEF Called
<1>3. CASE Dequeue
  <2>1. /\ queue # <<>> /\ queue' = <<>> /\ current_state' = current_state /\ Busy
        /\ fsm.pc = "dequeue"
    BY <1>3, TakeLast DEF Dequeue, TurnInv, QueueInv, TypeOK, Busy
  <2>2. PICK e : e = Head(queue)
    OBVIOUS
  <2>3. NotSent' => NotSent
    <3>1. SUFFICES ASSUME Called, fsm'.pc = "transition", fsm'.to \in CallKinds
                   PROVE  e.call = caller.call
      BY <1>1, <1>2, <1>3, <2>1, <2>2 DEF NotSent, Dequeue, FsmIdle
    <3>2. fsm'.to = OnEvent(current_state, e.type)
      BY <1>3, <2>2, <3>1 DEF Dequeue, FsmIdle
    <3>3. caller.call # 0
      BY <3>1 DEF TurnInv, CallerInv, Called
    <3>4. ~(e = NoEvent /\ current_state \in TimedStates)
      <4>1. e = NoEvent => e.type = "Timeout"
        BY DEF NoEvent, Event
      <4>2. fsm'.to \notin {"Ready", "PsCancel"}
        BY <3>1, MethodEvents DEF TimedStates, DataStates
      <4> QED BY <3>2, <4>1, <4>2, TimeoutLeaves
    <3> QED BY <2>1, <2>2, <3>3, <3>4 DEF TurnInv, QueueInv
  <2> QED BY <1>1, <2>1, <2>3, RefusalKept
<1>4. CASE DequeueEmpty \/ VisitLoop
  <2>1. UNCHANGED <<queue, current_state>> /\ fsm.pc \in {"dequeue", "visit"}
        /\ fsm'.pc \in {"visit", "loop"}
    BY <1>4 DEF DequeueEmpty, VisitLoop, FsmIdle
  <2>2. (NotSent' => NotSent) /\ (Busy' => Busy)
    BY <1>1, <1>2, <2>1 DEF NotSent, Busy
  <2> QED BY <1>1, <2>1, <2>2, RefusalKept
<1>5. CASE Transition \/ EnterUntimed
  <2>1. NoAnswerUnderWay /\ Busy /\ queue' = queue /\ fsm.pc \in {"transition", "enter"}
        /\ (fsm'.pc \in {"transition", "enter"} => fsm'.to = fsm.to)
    BY <1>5 DEF TurnInv, MoveInv, Busy, Transition, EnterUntimed, TypeOK, FsmIdle
  <2>2. NotSent' => NotSent
    BY <1>1, <1>2, <2>1 DEF NotSent
  <2> QED BY <1>1, <2>1, <2>2, RefusalKept DEF NoAnswerUnderWay
<1> QED BY <1>3, <1>4, <1>5

\* A command is transmitted for a call that was not refused, or it is a cancel.
LEMMA EnterTimedRefusal ==
  ASSUME TypeOK, TurnInv, TurnInv', RefusalInv, EnterTimed
  PROVE  RefusalInv'
<1>1. Made /\ FreshCall /\ ServedInv /\ RefusedInv /\ RefusalEnds /\ RefusalIsReported
  BY DEF RefusalInv
<1>2. /\ UNCHANGED <<io, caller, lcc, carriedOut, failed, results, current_state, queue>>
      /\ fsm.pc = "enter" /\ fsm'.pc = "visit" /\ fsm.to \in TimedStates
  BY DEF EnterTimed, history, FsmIdle
<1>3. /\ NoAnswerUnderWay /\ queue = <<>> /\ Busy /\ current_state = fsm.to
      /\ fsm.to = "Ready" \/ fsm.to = "Initialize" \/ MayWait(fsm.to)
  BY <1>2 DEF TurnInv, MoveInv, Busy
<1>4. (Called' <=> Called) /\ io.pc = "idle" /\ io'.pc = "idle"
  BY <1>2, <1>3 DEF Called, NoAnswerUnderWay
<1>5. ~NotSent'
  <2>1. caller.pc \in {"await", "idle"}
    BY <1>3 DEF TurnInv, CallerInv
  <2> QED BY <1>2, <1>3, <2>1 DEF NotSent
<1>6. Made' /\ FreshCall' /\ RefusalIsReported' /\ RefusalEnds'
  BY <1>1, <1>2, <1>4, <1>5 DEF Made, FreshCall, RefusalIsReported, RefusalEnds
<1>7. ServedInv'
  BY <1>1, <1>2, <1>3, <1>4 DEF ServedInv
<1>8. RefusedInv'
  <2>1. SUFFICES ASSUME Called, caller.call \in failed PROVE current_state = "PsCancel"
    BY <1>1, <1>2, <1>4 DEF RefusedInv
  <2>2. ~NotSent
    BY <1>1, <2>1 DEF FreshCall
  <2>3. fsm.to \notin CallKinds
    BY <1>2, <2>1, <2>2 DEF NotSent
  <2>4. caller.call # 0
    BY <2>1 DEF TurnInv, CallerInv, Called
  <2>5. MayWait(fsm.to)
    BY <1>2, <1>3 DEF TimedStates, DataStates
  <2> QED BY <1>3, <2>3, <2>4, <2>5 DEF MayWait
<1> QED BY <1>6, <1>7, <1>8 DEF RefusalInv

\* A time-out is an error, too.
LEMMA HandleLoopRefusal ==
  ASSUME TypeOK, TurnInv, TurnInv', RefusalInv, HandleLoop
  PROVE  RefusalInv'
<1>1. Made /\ FreshCall /\ ServedInv /\ RefusedInv /\ RefusalEnds /\ RefusalIsReported
  BY DEF RefusalInv
<1>2. /\ UNCHANGED <<io, caller, carriedOut, failed, results, current_state, pending>>
      /\ fsm.pc = "loop" /\ fsm'.pc = "dequeue" /\ lcc' \in {lcc, "ERROR_TIMEOUT"}
  BY DEF HandleLoop, history, FsmIdle
<1>3. (Called' <=> Called)
  BY <1>2 DEF Called
<1>4. CASE fsm.at \in TimedStates /\ fsm.at \in expired
  <2>1. /\ NoAnswerUnderWay /\ queue = <<>> /\ current_state \in TimedStates
        /\ queue' = <<NoEvent>>
    BY <1>2, <1>4, EnqueueFirst DEF TurnInv, LoopInv, HandleLoop, NoEvent
  <2>2. Busy /\ caller.pc \in {"await", "idle"} /\ (Called => caller.call # 0)
    BY <2>1 DEF Busy, TurnInv, CallerInv, Called
  <2>3. Head(queue').call = 0
    BY <2>1, OneEvent DEF NoEvent, Event
  <2>4. ~NotSent'
    BY <1>2, <1>3, <2>2, <2>3 DEF NotSent
  <2>5. Made' /\ FreshCall' /\ RefusalIsReported' /\ RefusalEnds'
    BY <1>1, <1>2, <1>3, <2>4 DEF Made, FreshCall, RefusalIsReported, RefusalEnds
  <2>6. ServedInv'
    BY <1>1, <1>2, <1>3, <2>1, <2>2 DEF ServedInv, NoAnswerUnderWay
  <2>7. RefusedInv'
    BY <1>1, <1>2, <1>3 DEF RefusedInv
  <2> QED BY <2>5, <2>6, <2>7 DEF RefusalInv
<1>5. CASE ~(fsm.at \in TimedStates /\ fsm.at \in expired)
  <2>1. UNCHANGED <<queue, lcc>>
    BY <1>5 DEF HandleLoop
  <2>2. (NotSent' => NotSent) /\ (Busy' => Busy)
    BY <1>2, <1>3, <2>1 DEF NotSent, Busy
  <2> QED BY <1>2, <2>1, <2>2, RefusalKept
<1> QED BY <1>4, <1>5

\* The packet with which the module finishes a command ends the state that waits for
\* it: all but the state in which nobody waits for the end of a download.
LEMMA CompletionEnds ==
  ASSUME NEW job \in Jobs, job.step \in StepsOf(job.state), NEW r \in Replies(job),
         Completes(r), job.state # "PsDownImage"
  PROVE  r.step = 0 /\ Handle(job.state, r.frame).done
<1>1. r.step = 0 /\ (r.frame.pid = "end" \/ r.frame.conf = "OK")
  BY DEF Completes
<1>2. CASE job.state \in AutoStates
  <2>1. r \in StageReplies(job)
    BY <1>2 DEF Replies, AutoStates
  <2> QED BY <1>1, <1>2, <2>1, StageFacts
<1>3. CASE job.state \in {"PsUpChar", "PsUpImage", "PsReadInfPage"}
  <2>1. job.state \notin AutoStates
    BY <1>3 DEF AutoStates
  <2>2. r \in BulkReplies(job)
    BY <1>3, <2>1 DEF Replies
  <2>3. r.frame.pid = "end"
    BY <1>1, <1>3, <2>2, BulkFacts, SMT
  <2> QED BY <1>1, <1>3, <2>3, HandleOf, HandlerOutcomes
<1>4. CASE job.state \notin AutoStates \union {"PsUpChar", "PsUpImage", "PsReadInfPage"}
  <2>1. r \in PlainReplies(job)
    BY <1>4 DEF Replies
  <2>2. r.frame.conf = "OK"
    BY <1>1, <1>4, <2>1, PlainFacts
  <2>3. job.state \in {"Command", "PsReadSysPara", "PsCancel", "GetChipSn", "HandShake"}
    BY <1>4 DEF Jobs, TimedStates, DataStates, AutoStates
  <2> QED BY <1>1, <2>2, <2>3, HandleOf, HandlerOutcomes
<1> QED BY <1>2, <1>3, <1>4

\* A refusal completes nothing, and only a stage may follow it.
LEMMA RefusalIsLast ==
  ASSUME NEW job \in Jobs, job.step \in StepsOf(job.state), NEW r \in Replies(job),
         r.frame.pid = "ack", r.frame.conf # "OK"
  PROVE  ~Completes(r) /\ (job.state \notin AutoStates => r.step = 0)
<1>1. ~Completes(r)
  BY DEF Completes
<1>2. CASE job.state \in {"PsUpChar", "PsUpImage", "PsReadInfPage"}
  <2>1. job.state \notin AutoStates
    BY <1>2 DEF AutoStates
  <2>2. r \in BulkReplies(job)
    BY <1>2, <2>1 DEF Replies
  <2> QED BY <1>1, <1>2, <2>2, BulkFacts, SMT
<1>3. CASE job.state \notin AutoStates \union {"PsUpChar", "PsUpImage", "PsReadInfPage"}
  <2>1. r \in PlainReplies(job)
    BY <1>3 DEF Replies
  <2> QED BY <1>1, <1>3, <2>1, PlainFacts
<1> QED BY <1>1, <1>2, <1>3

\* What a parsed packet is, in terms of the state that waits for it.
LEMMA ReceivedPacket ==
  ASSUME TypeOK, TurnInv, ReceiveFrame
  PROVE  \E job \in Jobs : \E r \in Replies(job) :
           /\ job.state = current_state /\ job.call = CallOf(current_state)
           /\ job.step \in StepsOf(job.state) /\ job = Head(pending)
           /\ io' = [pc |-> "handle", at |-> current_state, frame |-> r.frame]
           /\ pending' = IF r.step = 0 THEN <<>> ELSE <<[job EXCEPT !.step = r.step]>>
           /\ carriedOut' = IF Completes(r) THEN carriedOut \union {r.frame.call}
                            ELSE carriedOut
<1>1. Len(pending) = 1 /\ pending # <<>>
  BY DEF ReceiveFrame, TurnInv, PendingInv
<1>2. PICK job \in Jobs : /\ job = Head(pending) /\ Tail(pending) = <<>>
                          /\ job.state = current_state /\ job.call = CallOf(current_state)
                          /\ job.step \in StepsOf(job.state)
  BY <1>1, TakeLast DEF TypeOK, TurnInv, PendingInv
<1>3. PICK r \in Replies(job) :
        /\ io' = [pc |-> "handle", at |-> current_state, frame |-> r.frame]
        /\ pending' = IF r.step = 0 THEN <<>>
                      ELSE <<[job EXCEPT !.step = r.step]>> \o <<>>
        /\ carriedOut' = IF Completes(r) THEN carriedOut \union {r.frame.call}
                         ELSE carriedOut
  BY <1>2 DEF ReceiveFrame
<1>4. <<[job EXCEPT !.step = r.step]>> \o <<>> = <<[job EXCEPT !.step = r.step]>>
  OBVIOUS
<1> QED BY <1>2, <1>3, <1>4

\* The packet that completes a command is its last, and it is this call's.
LEMMA ReceiveFrameRefusal ==
  ASSUME TypeOK, TurnInv, TurnInv', RefusalInv, ReceiveFrame
  PROVE  RefusalInv'
<1>1. Made /\ FreshCall /\ ServedInv /\ RefusedInv /\ RefusalEnds /\ RefusalIsReported
  BY DEF RefusalInv
<1>2. PICK job \in Jobs : \E r \in Replies(job) :
        /\ job.state = current_state /\ job.call = CallOf(current_state)
        /\ job.step \in StepsOf(job.state)
        /\ io' = [pc |-> "handle", at |-> current_state, frame |-> r.frame]
        /\ pending' = IF r.step = 0 THEN <<>> ELSE <<[job EXCEPT !.step = r.step]>>
        /\ carriedOut' = IF Completes(r) THEN carriedOut \union {r.frame.call}
                         ELSE carriedOut
  BY ReceivedPacket
<1>3. PICK r \in Replies(job) :
        /\ job.state = current_state /\ job.call = CallOf(current_state)
        /\ job.step \in StepsOf(job.state)
        /\ io' = [pc |-> "handle", at |-> current_state, frame |-> r.frame]
        /\ pending' = IF r.step = 0 THEN <<>> ELSE <<[job EXCEPT !.step = r.step]>>
        /\ carriedOut' = IF Completes(r) THEN carriedOut \union {r.frame.call}
                         ELSE carriedOut
  BY <1>2
<1>4. /\ UNCHANGED <<current_state, queue, lcc, fsm, caller, results, failed>>
      /\ io.pc = "idle" /\ pending # <<>>
  BY DEF ReceiveFrame
<1>5. PICK f : f = r.frame /\ f.call = CallOf(current_state)
  BY <1>3, ReplyFacts
<1>6. PICK s \in TimedStates : s = current_state /\ s = job.state /\ MayWait(s)
  BY <1>3, <1>4 DEF TurnInv, PendingInv, WaitInv
<1>7. /\ io'.pc = "handle" /\ io'.at = s /\ io'.frame = f
  BY <1>3, <1>5, <1>6
<1>8. Called' <=> Called
  BY <1>4 DEF Called
<1>9. Busy /\ (Called => caller.call \notin carriedOut)
  BY <1>1, <1>4 DEF Busy, ServedInv
<1>10. Made'
  <2>1. caller.call \in Nat
    BY ConstantsAssumption DEF TypeOK, CallIds
  <2>2. f.call \in 0..caller.call
    BY <1>5, <2>1 DEF CallOf
  <2> QED BY <1>1, <1>3, <1>4, <1>5, <1>8, <2>2 DEF Made
<1>11. FreshCall' /\ RefusalIsReported'
  <2>1. ~NotSent'
    BY <1>4, <1>7, SentWhileAnswering, <1>8 DEF NotSent, NoAnswerUnderWay
  <2> QED BY <1>1, <1>4, <2>1 DEF FreshCall, RefusalIsReported
<1>12. ServedInv'
  <2>1. SUFFICES ASSUME Called, caller.call \in carriedOut'
                 PROVE  pending' = <<>> /\ Handle(io.at, io.frame).done'
    BY <1>4, <1>7, <1>8 DEF ServedInv
  <2>2. Completes(r) /\ f.call = caller.call
    BY <1>3, <1>5, <1>9, <2>1
  <2>3. s # "PsDownImage"
    <3>1. caller.call # 0
      BY <2>1 DEF TurnInv, CallerInv, Called
    <3> QED BY <1>6, <3>1, MethodEvents, ConstantsAssumption DEF MayWait, DataStates
  <2>4. r.step = 0 /\ Handle(s, f).done
    BY <1>3, <1>5, <1>6, <2>2, <2>3, CompletionEnds
  <2> QED BY <1>3, <1>7, <2>4, DoneNext
<1>13. RefusedInv'
  BY <1>1, <1>4, <1>8 DEF RefusedInv
<1>14. RefusalEnds'
  <2>1. SUFFICES ASSUME f.pid = "ack", f.conf # "OK"
                 PROVE  /\ s \notin AutoStates => pending' = <<>>
                        /\ Called => caller.call \notin carriedOut'
    BY <1>4, <1>7, <1>8 DEF RefusalEnds
  <2>2. ~Completes(r) /\ (s \notin AutoStates => r.step = 0)
    BY <1>3, <1>5, <1>6, <2>1, RefusalIsLast
  <2> QED BY <1>3, <1>9, <2>2
<1> QED BY <1>10, <1>11, <1>12, <1>13, <1>14 DEF RefusalInv

\* A refusal is stored, and nothing is stored over it.
LEMMA HandleDataRefusal ==
  ASSUME TypeOK, TurnInv, TurnInv', RefusalInv, HandleData
  PROVE  RefusalInv'
<1>1. Made /\ FreshCall /\ ServedInv /\ RefusedInv /\ RefusalEnds /\ RefusalIsReported
  BY DEF RefusalInv
<1>2. /\ UNCHANGED <<current_state, queue, fsm, caller, results, carriedOut, pending>>
      /\ io.pc = "handle"
  BY DEF HandleData
<1>3. Called' <=> Called
  BY <1>2 DEF Called
<1>4. /\ io.at = current_state /\ current_state \in TimedStates /\ Polling
      /\ io.frame.conf \in Confs /\ ~NoAnswerUnderWay
  BY <1>2 DEF TurnInv, IoInv, TypeOK, Frames, NoAnswerUnderWay
<1>5. \/ Handle(io.at, io.frame).done /\ io' = [io EXCEPT !.pc = "transition"]
      \/ ~Handle(io.at, io.frame).done /\ io' = IoIdle
  BY DEF HandleData
<1>6. io'.pc \in {"transition", "idle"}
  BY <1>5 DEF IoIdle, TypeOK
<1>7. ~NotSent'
  BY <1>2, <1>3, <1>4, SentWhileAnswering DEF NotSent
<1>8. lcc' = IF Handle(io.at, io.frame).stores THEN io.frame.conf ELSE lcc
  BY DEF HandleData, CodeAfter
<1>9. ServedInv'
  <2>1. Called /\ caller.call \in carriedOut =>
          Handle(io.at, io.frame).done /\ pending = <<>>
    BY <1>1, <1>2, <1>4, SentWhileAnswering DEF ServedInv
  <2>2. Handle(io.at, io.frame).done => io'.pc = "transition"
    BY <1>5 DEF TypeOK
  <2> QED BY <1>2, <1>3, <2>1, <2>2 DEF ServedInv
<1>10. FreshCall' /\ RefusalEnds'
  BY <1>6, <1>7 DEF FreshCall, RefusalEnds
<1>11. CASE /\ Handle(io.at, io.frame).stores /\ io.frame.pid = "ack"
            /\ io.frame.conf # "OK" /\ io.at # "PsAutoIdentify"
            /\ io.frame.call = caller.call /\ Called
  <2>1. failed' = failed \union {caller.call}
    BY <1>11 DEF HandleData, Called
  <2>2. caller.call \in 1..caller.call
    BY <1>11, ConstantsAssumption DEF TurnInv, CallerInv, Called, TypeOK, CallIds
  <2>3. Made'
    BY <1>1, <1>2, <1>3, <2>1, <2>2 DEF Made
  <2>4. RefusalIsReported'
    BY <1>1, <1>2, <1>11, <2>1 DEF Made, RefusalIsReported
  <2>5. lcc' = "ERROR_SENSOR"
    BY <1>4, <1>8, <1>11 DEF Confs
  <2>6. pending # <<>> => current_state = "PsAutoEnroll"
    BY <1>1, <1>2, <1>4, <1>11 DEF RefusalEnds, AutoStates
  <2>7. RefusedInv'
    BY <1>2, <1>6, <2>5, <2>6 DEF RefusedInv
  <2> QED BY <1>9, <1>10, <2>3, <2>4, <2>7 DEF RefusalInv
<1>12. CASE ~(/\ Handle(io.at, io.frame).stores /\ io.frame.pid = "ack"
              /\ io.frame.conf # "OK" /\ io.at # "PsAutoIdentify"
              /\ io.frame.call = caller.call /\ Called)
  <2>1. failed' = failed
    BY <1>12 DEF HandleData, Called
  <2>2. Made' /\ RefusalIsReported'
    BY <1>1, <1>2, <1>3, <2>1 DEF Made, RefusalIsReported
  <2>3. RefusedInv'
    <3>1. SUFFICES ASSUME Called, caller.call \in failed
                   PROVE  lcc' = lcc
      BY <1>1, <1>2, <1>3, <1>6, <2>1 DEF RefusedInv
    <3>2. lcc \notin {"OK", "UNKNOWN"} /\ io.at \in {"PsAutoEnroll", "PsCancel"}
      BY <1>1, <1>2, <1>4, <3>1 DEF RefusedInv
    <3>3. caller.call > 0
      BY <3>1 DEF TurnInv, CallerInv, Called
    <3>4. io.at = "PsCancel" => ignoreConfirmation
      BY <1>4, <3>3 DEF TurnInv, WaitInv
    <3>5. ~Handle(io.at, io.frame).stores
      <4>1. ~PsAutoEnrollState(io.frame).stores
        BY <3>2 DEF PsAutoEnrollState, Outcome
      <4>2. CASE io.at = "PsAutoEnroll"
        <5>1. Handle(io.at, io.frame) = PsAutoEnrollState(io.frame)
          BY <4>2, HandleOf
        <5> QED BY <4>1, <5>1
      <4>3. CASE io.at = "PsCancel"
        <5>1. Handle(io.at, io.frame) = PsCancelState(io.frame)
          BY <4>3, HandleOf
        <5>2. ~PsCancelState(io.frame).stores
          BY <3>4, <4>3, HandlerOutcomes
        <5> QED BY <5>1, <5>2
      <4> QED BY <3>2, <4>2, <4>3
    <3> QED BY <1>8, <3>5
  <2> QED BY <1>9, <1>10, <2>2, <2>3 DEF RefusalInv
<1> QED BY <1>11, <1>12

\* The answered machine becomes ready.
LEMMA IoRefusal ==
  ASSUME TypeOK, TurnInv, TurnInv', RefusalInv, IoTransition \/ IoEnter
  PROVE  RefusalInv'
<1>1. Made /\ FreshCall /\ ServedInv /\ RefusedInv /\ RefusalEnds /\ RefusalIsReported
  BY DEF RefusalInv
<1>2. /\ UNCHANGED <<queue, lcc, fsm, caller, results, carriedOut, failed, pending>>
      /\ io.pc \in {"transition", "enter"}
      /\ IF io.pc = "enter" THEN io'.pc = "idle" ELSE io'.pc = "enter"
      /\ io.pc = "enter" => current_state' = current_state
  BY DEF IoTransition, IoEnter, history, IoIdle, TypeOK
<1>3. Called' <=> Called
  BY <1>2 DEF Called
<1>4. pending = <<>> /\ queue = <<>> /\ Polling /\ ~NoAnswerUnderWay
  BY <1>2 DEF TurnInv, IoInv, NoAnswerUnderWay
<1>5. ~NotSent'
  BY <1>2, <1>3, <1>4, SentWhileAnswering DEF NotSent
<1>6. ServedInv'
  <2>1. io.pc = "enter" => ~Busy'
    BY <1>2, <1>4 DEF TurnInv, IoInv, Busy, Polling, TimedStates, DataStates
  <2> QED BY <1>1, <1>2, <1>4, <2>1 DEF ServedInv
<1>7. Made' /\ FreshCall' /\ RefusalIsReported' /\ RefusedInv' /\ RefusalEnds'
  BY <1>1, <1>2, <1>3, <1>4, <1>5
     DEF Made, FreshCall, RefusalIsReported, RefusedInv, RefusalEnds
<1> QED BY <1>6, <1>7 DEF RefusalInv

\* A new call starts from nothing.
LEMMA ClearCodeRefusal ==
  ASSUME QuietEnvironment, TypeOK, TurnInv, RefusalInv, ClearCode
  PROVE  RefusalInv'
<1>1. Made /\ FreshCall /\ ServedInv /\ RefusedInv /\ RefusalEnds /\ RefusalIsReported
  BY DEF RefusalInv
<1>2. /\ UNCHANGED <<current_state, queue, fsm, io, results, carriedOut, failed, pending>>
      /\ lcc' = "UNKNOWN" /\ caller'.call = caller.call + 1
      /\ caller'.pc = "clearFlag"
  BY DEF ClearCode, ClearedCode, history
<1>3. ~Busy
  BY ClearCodeTurn
<1>4. io.pc = "idle" /\ pending = <<>> /\ ~Busy'
  BY <1>2, <1>3 DEF Busy
<1>5. caller.call \in Nat
  BY ConstantsAssumption DEF TypeOK, CallIds
<1>6. caller'.call \notin carriedOut \union failed
  BY <1>1, <1>2, <1>5 DEF Made
<1>7. Made'
  <2>1. carriedOut \subseteq 0..caller.call /\ failed \subseteq 1..caller.call
    BY <1>1 DEF Made
  <2>2. 0..caller.call \subseteq 0..(caller.call + 1) /\ 1..caller.call \subseteq 1..(caller.call + 1)
    BY <1>5
  <2>3. ASSUME NEW c \in 1..MaxCalls, results[c] # "none"
        PROVE  c <= caller'.call /\ c # caller'.call
    BY <1>1, <1>2, <1>5, <2>3, ConstantsAssumption DEF Made
  <2> QED BY <1>2, <2>1, <2>2, <2>3 DEF Made
<1>8. /\ FreshCall' /\ ServedInv' /\ RefusedInv' /\ RefusalEnds'
      /\ RefusalIsReported'
  BY <1>1, <1>2, <1>4, <1>6
     DEF FreshCall, ServedInv, RefusedInv, RefusalEnds, RefusalIsReported
<1> QED BY <1>7, <1>8 DEF RefusalInv

\* The caller clears the flag, enqueues its event and wakes up.
LEMMA CallerRefusal ==
  ASSUME TypeOK, TurnInv, RefusalInv, ClearFlag \/ EnqueueCall \/ AwaitReady
  PROVE  RefusalInv'
<1>1. Made /\ FreshCall /\ ServedInv /\ RefusedInv /\ RefusalEnds /\ RefusalIsReported
  BY DEF RefusalInv
<1>2. /\ UNCHANGED <<current_state, lcc, fsm, io, results, carriedOut, failed, pending>>
      /\ caller.pc # "idle" /\ caller'.pc # "idle" /\ caller'.call = caller.call
      /\ caller.pc \in {"clearFlag", "enqueue"} \/ queue' = queue
      /\ caller'.pc \in {"clearFlag", "enqueue"} => caller.pc \in {"clearFlag", "enqueue"}
  BY DEF ClearFlag, EnqueueCall, AwaitReady, history, TypeOK
<1>3. Called /\ Called'
  BY <1>2 DEF Called
<1>4. ~Busy
  BY CallerTurn, EnqueueCallTurn DEF TurnInv, CallerInv, ClearFlag, EnqueueCall, AwaitReady
<1>5. io.pc = "idle" /\ pending = <<>>
  BY <1>4 DEF Busy
<1>6. NotSent' => NotSent
  BY <1>2, <1>3 DEF NotSent
<1>7. Made' /\ FreshCall' /\ RefusedInv' /\ RefusalEnds' /\ RefusalIsReported'
  BY <1>1, <1>2, <1>3, <1>5, <1>6
     DEF Made, FreshCall, RefusedInv, RefusalEnds, RefusalIsReported
<1>8. ServedInv'
  <2>1. CASE caller.pc \in {"clearFlag", "enqueue"}
    BY <1>1, <1>2, <2>1 DEF FreshCall, NotSent, ServedInv
  <2>2. CASE queue' = queue
    <3>1. ~Busy'
      BY <1>2, <1>4, <2>2 DEF Busy
    <3> QED BY <3>1 DEF ServedInv
  <2> QED BY <1>2, <2>1, <2>2
<1> QED BY <1>7, <1>8 DEF RefusalInv

\* A refused call returns what was stored for it.
LEMMA ReadResultRefusal ==
  ASSUME TypeOK, TurnInv, RefusalInv, ReadResult
  PROVE  RefusalInv'
<1>1. Made /\ FreshCall /\ ServedInv /\ RefusedInv /\ RefusalEnds /\ RefusalIsReported
  BY DEF RefusalInv
<1>2. /\ UNCHANGED <<current_state, queue, lcc, fsm, io, carriedOut, failed, pending>>
      /\ caller.pc = "read" /\ caller'.pc = "idle" /\ caller'.call = caller.call
      /\ results' = [results EXCEPT ![caller.call] = lcc]
  BY DEF ReadResult, history, TypeOK
<1>3. Called /\ ~Called' /\ caller.call \in Nat
  BY <1>2, ConstantsAssumption DEF Called, TypeOK, CallIds
<1>4. ~Busy
  BY <1>2 DEF TurnInv, CallerInv
<1>5. io.pc = "idle" /\ pending = <<>>
  BY <1>4 DEF Busy
<1>6. \A c \in 1..MaxCalls : results'[c] = IF c = caller.call THEN lcc ELSE results[c]
  BY <1>2 DEF TypeOK
<1>7. Made'
  BY <1>1, <1>2, <1>3, <1>6 DEF Made
<1>8. FreshCall' /\ ServedInv' /\ RefusedInv' /\ RefusalEnds'
  BY <1>2, <1>3, <1>5 DEF FreshCall, NotSent, ServedInv, RefusedInv, RefusalEnds
<1>9. RefusalIsReported'
  <2>1. lcc = "OK" => caller.call \notin failed
    BY <1>1, <1>3 DEF RefusedInv
  <2> QED BY <1>1, <1>2, <1>6, <2>1 DEF RefusalIsReported
<1> QED BY <1>7, <1>8, <1>9 DEF RefusalInv

\* The environment: the application's events, deadlines, and silence.
LEMMA OthersRefusal ==
  ASSUME QuietEnvironment, TypeOK, TurnInv, RefusalInv,
         AppEnqueue \/ Expire \/ SensorSilent \/ UNCHANGED vars
  PROVE  RefusalInv'
<1>1. UNCHANGED <<io, caller, lcc, carriedOut, failed, results, current_state, fsm>>
  BY DEF AppEnqueue, Expire, SensorSilent, vars, hostVars, history
<1>2. Called' <=> Called
  BY <1>1 DEF Called
<1>3. pending' \in {pending, <<>>}
  <2>1. CASE SensorSilent
    BY <2>1, TakeLast DEF SensorSilent, TurnInv, PendingInv, TypeOK
  <2>2. CASE ~SensorSilent
    BY <2>2 DEF AppEnqueue, Expire, vars
  <2> QED BY <2>1, <2>2
<1>4. Called => queue' = queue
  BY DEF AppEnqueue, Expire, SensorSilent, vars, hostVars, Called
<1>5. (NotSent' => NotSent) /\ (Called /\ Busy' => Busy)
  <2>1. pending' # <<>> => pending # <<>>
    BY <1>3
  <2> QED BY <1>1, <1>2, <1>4, <2>1 DEF NotSent, Busy, Called
<1> QED BY <1>1, <1>3, <1>5, RefusalKept

\* At first there was no call.
LEMMA InitRefusal == Init => RefusalInv
<1> SUFFICES ASSUME Init PROVE RefusalInv
  OBVIOUS
<1>1. Made /\ RefusalIsReported
  BY DEF Init, Made, RefusalIsReported
<1>2. FreshCall /\ ServedInv /\ RefusedInv /\ RefusalEnds
  BY DEF Init, FreshCall, NotSent, ServedInv, RefusedInv, RefusalEnds, Called, IoIdle
<1> QED BY <1>1, <1>2 DEF RefusalInv

\* Every step keeps what became of the call.
LEMMA NextRefusal ==
  QuietEnvironment /\ TypeOK /\ TurnInv /\ TurnInv' /\ RefusalInv /\ [Next]_vars
    => RefusalInv'
<1> SUFFICES ASSUME QuietEnvironment, TypeOK, TurnInv, TurnInv', RefusalInv, [Next]_vars
             PROVE  RefusalInv'
  OBVIOUS
<1>1. CASE FsmThread
  BY <1>1, MachineRefusal, EnterTimedRefusal, HandleLoopRefusal, NoReset DEF FsmThread
<1>2. CASE IoThread
  BY <1>2, HandleDataRefusal, IoRefusal DEF IoThread
<1>3. CASE CallReturns \/ ClearCode
  BY <1>3, CallerRefusal, ReadResultRefusal, NoAwaitTimeout, ClearCodeRefusal
     DEF CallReturns
<1>4. CASE AppEnqueue \/ IsrDetect \/ Expire \/ SensorSilent \/ UNCHANGED vars
  BY <1>4, OthersRefusal, NoDetect
<1>5. CASE ReceiveFrame
  BY <1>5, ReceiveFrameRefusal
<1> QED BY <1>1, <1>2, <1>3, <1>4, <1>5, Zenon DEF Next

\* The invariant that the refusals rest on.
LEMMA RefusalInvariant ==
  ASSUME QuietEnvironment
  PROVE  Spec => [](TypeOK /\ TurnInv /\ RefusalInv)
BY InitTypeOK, NextTypeOK, InitTurn, NextTurn, InitRefusal, NextRefusal, PTL DEF Spec

\* A call never returns ok() once a state has stored the module's refusal of its
\* command: no later packet, time-out or cancel makes its caller believe that the
\* command was carried out.
THEOREM RefusalsAreReported ==
  ASSUME QuietEnvironment
  PROVE  Spec => []RefusalIsReported
<1>1. RefusalInv => RefusalIsReported
  BY DEF RefusalInv
<1> QED BY <1>1, RefusalInvariant, PTL

================================================================================
