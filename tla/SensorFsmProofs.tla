---------------------------- MODULE SensorFsmProofs ----------------------------
(***************************************************************************)
(* Theorems about SensorFsm, for every choice of the constants: any number *)
(* of calls, application events and interrupts, any queue capacity, and    *)
(* any race the undisciplined environment allows.                          *)
(***************************************************************************)
EXTENDS SensorFsm, TLAPS

------------------------------------------------------------------------------
(* Types of the operators.                                                 *)

\* The transition table leads from states to states.
LEMMA OnEventType ==
  ASSUME NEW s \in States, NEW type \in EventTypes
  PROVE  OnEvent(s, type) \in States
BY SMT DEF OnEvent, TimeoutTarget, States, EventTypes, TimedStates, DataStates,
           AutoStates

\* Enqueueing keeps a queue of events within its capacity.
LEMMA EnqueueType ==
  ASSUME NEW q \in Seq(Events), Len(q) <= QueueSize, NEW e \in Events
  PROVE  /\ Enqueue(q, e) \in Seq(Events)
         /\ Len(Enqueue(q, e)) <= QueueSize
<1>1. QueueSize \in Nat
  BY ConstantsAssumption
<1> QED BY <1>1, SMT DEF Enqueue

\* Every state that waits is a state, and so is the type of its event.
LEMMA TimedStateTypes == TimedStates \subseteq States /\ TimedStates \subseteq EventTypes
BY DEF States, EventTypes

\* The resting values of the program counters are typed.
LEMMA IdleTypes ==
  /\ FsmIdle \in [pc : FsmPcs, at : States, to : States, event : Events]
  /\ IoIdle \in [pc : IoPcs, at : States, frame : Frames]
  /\ 0 \in CallIds
<1>1. MaxCalls \in Nat
  BY ConstantsAssumption
<1>2. 0 \in CallIds
  BY <1>1, SMT DEF CallIds
<1>3. NoEvent \in Events
  BY <1>2 DEF NoEvent, Event, Events, EventTypes
<1>4. NoFrame \in Frames
  BY <1>2, SMT DEF NoFrame, Frames, Pids, Confs, PlainLength, EnrollLength, IdentifyLength, Stages
<1> QED BY <1>2, <1>3, <1>4 DEF FsmIdle, IoIdle, FsmPcs, IoPcs, States

\* A reply built from typed parts is typed.
LEMMA ReplyType ==
  ASSUME NEW job \in Jobs, NEW pid \in Pids, NEW conf \in Confs,
         NEW len \in {PlainLength, EnrollLength, IdentifyLength},
         NEW stage \in Stages, NEW step \in 0..6
  PROVE  /\ Reply(job, pid, conf, len, stage, step).frame \in Frames
         /\ Reply(job, pid, conf, len, stage, step).step \in 0..6
BY DEF Reply, Frames, Jobs

\* Whatever the module answers is a packet, and leaves its job well formed.
LEMMA RepliesType ==
  ASSUME NEW job \in Jobs, NEW r \in Replies(job)
  PROVE  r.frame \in Frames /\ r.step \in 0..6
<1>1. CASE r \in StageReplies(job)
  <2>1. NextStage(job.state, job.step) \in 0..6
    BY SMT DEF NextStage
  <2>2. StageLength(job.state) \in {PlainLength, EnrollLength, IdentifyLength}
    BY DEF StageLength
  <2>3. PICK c \in Confs, n \in 0..6 :
          r = Reply(job, "ack", c, StageLength(job.state), job.step, n)
    BY <1>1, <2>1, SMT DEF StageReplies, Confs
  <2>4. job.step \in Stages /\ "ack" \in Pids
    BY DEF Jobs, Stages, Pids
  <2> QED BY <2>2, <2>3, <2>4, ReplyType
<1>2. CASE r \in BulkReplies(job)
  <2>1. PICK pid \in Pids, c \in Confs, n \in 0..6 :
          r = Reply(job, pid, c, PlainLength, 0, n)
    BY <1>2, SMT DEF BulkReplies, Confs, Pids
  <2>2. PlainLength \in {PlainLength, EnrollLength, IdentifyLength} /\ 0 \in Stages
    BY DEF Stages
  <2>3. /\ Reply(job, pid, c, PlainLength, 0, n).frame \in Frames
        /\ Reply(job, pid, c, PlainLength, 0, n).step \in 0..6
    BY <2>2, ReplyType
  <2> QED BY <2>1, <2>3
<1>3. CASE r \in PlainReplies(job)
  <2>1. PICK c \in Confs, len \in {PlainLength, EnrollLength, IdentifyLength} :
          r = Reply(job, "ack", c, len, 0, 0)
    BY <1>3, SMT DEF PlainReplies
  <2>2. "ack" \in Pids /\ 0 \in Stages /\ 0 \in 0..6
    BY DEF Stages, Pids
  <2>3. /\ Reply(job, "ack", c, len, 0, 0).frame \in Frames
        /\ Reply(job, "ack", c, len, 0, 0).step \in 0..6
    BY <2>2, ReplyType
  <2> QED BY <2>1, <2>3
<1> QED BY <1>1, <1>2, <1>3, Zenon DEF Replies

------------------------------------------------------------------------------
(* Type correctness.                                                       *)

\* The initial values are typed.
LEMMA InitTypeOK == Init => TypeOK
<1> SUFFICES ASSUME Init PROVE TypeOK
  OBVIOUS
<1>1. MaxCalls \in Nat /\ MaxAppEvents \in Nat /\ MaxDetects \in Nat /\ QueueSize \in Nat \ {0}
  BY ConstantsAssumption
<1>2. Event("Initialize", 0) \in Events
  BY IdleTypes DEF Event, Events, EventTypes
<1>3. queue \in Seq(Events) /\ Len(queue) <= QueueSize
  BY <1>1, <1>2, SMT DEF Init
<1>4. [pc |-> "idle", call |-> 0, kind |-> "none"]
        \in [pc : CallerPcs, call : CallIds, kind : Kinds]
  BY IdleTypes DEF CallerPcs, Kinds
<1>5. pending \in Seq(Jobs)
  BY SMT DEF Init
<1> QED BY <1>1, <1>3, <1>4, <1>5, IdleTypes DEF Init, TypeOK, States, Codes

\* Every step of every thread, of the module and of the environment keeps the
\* variables within their types.
LEMMA NextTypeOK == TypeOK /\ [Next]_vars => TypeOK'
<1> SUFFICES ASSUME TypeOK, [Next]_vars PROVE TypeOK'
  OBVIOUS
<1> USE DEF TypeOK, history
<1>0. MaxCalls \in Nat
  BY ConstantsAssumption
<1>1. CASE HandleData
  <2>1. lcc' \in Codes
    BY <1>1 DEF HandleData, CodeAfter, Codes, Frames, Confs
  <2>2. expired' \in SUBSET TimedStates
    BY <1>1 DEF HandleData, Restart
  <2>3. io' \in [pc : IoPcs, at : States, frame : Frames]
    BY <1>1, IdleTypes DEF HandleData, IoPcs
  <2>4. failed' \in SUBSET CallIds
    BY <1>1 DEF HandleData, Frames
  <2>5. okDuring' \in SUBSET CallIds
    BY <1>1 DEF HandleData
  <2> QED BY <1>1, <2>1, <2>2, <2>3, <2>4, <2>5 DEF HandleData
<1>2. CASE IoTransition
  BY <1>2 DEF IoTransition, IoPcs, States
<1>3. CASE IoEnter
  BY <1>3, IdleTypes DEF IoEnter
<1>4. CASE Dequeue
  <2>1. Head(queue) \in Events /\ Tail(queue) \in Seq(Events) /\ Len(Tail(queue)) <= QueueSize
    <3>1. QueueSize \in Nat
      BY ConstantsAssumption
    <3> QED BY <1>4, <3>1, SMT DEF Dequeue
  <2>2. Head(queue).type \in EventTypes
    BY <2>1 DEF Events
  <2>3. OnEvent(current_state, Head(queue).type) \in States
    BY <2>2, OnEventType
  <2>4. fsm' \in [pc : FsmPcs, at : States, to : States, event : Events]
    BY <1>4, <2>1, <2>3, IdleTypes DEF Dequeue, FsmPcs
  <2> QED BY <1>4, <2>1, <2>4 DEF Dequeue
<1>5. CASE DequeueEmpty
  BY <1>5, IdleTypes DEF DequeueEmpty, FsmPcs
<1>6. CASE Transition
  BY <1>6 DEF Transition, FsmPcs
<1>7. CASE EnterTimed
  <2>1. [state |-> fsm.to, call |-> fsm.event.call, step |-> 0] \in Jobs
    BY <1>7, SMT DEF EnterTimed, Jobs, Events
  <2>2. pending' \in Seq(Jobs)
    BY <1>7, <2>1, SMT DEF EnterTimed, SendCommand
  <2>3. sink' \in [DataStates -> CallIds]
    BY <1>7 DEF EnterTimed, SinkAfter, Events
  <2>4. ignoreConfirmation' \in BOOLEAN
    BY <1>7 DEF EnterTimed, IgnoreAfter
  <2>5. expired' \in SUBSET TimedStates
    BY <1>7 DEF EnterTimed, Restart
  <2>6. fsm' \in [pc : FsmPcs, at : States, to : States, event : Events]
    BY <1>7, IdleTypes DEF EnterTimed, FsmPcs
  <2> QED BY <1>7, <2>2, <2>3, <2>4, <2>5, <2>6 DEF EnterTimed
<1>8. CASE EnterUntimed
  BY <1>8, IdleTypes DEF EnterUntimed, FsmPcs
<1>9. CASE EnterReset
  <2>1. Event("Command", 0) \in Events
    BY IdleTypes, TimedStateTypes DEF Event, Events, TimedStates
  <2> QED BY <1>9, <2>1, EnqueueType DEF EnterReset, FsmPcs, Codes
<1>10. CASE ResetReturns
  BY <1>10, IdleTypes DEF ResetReturns, FsmPcs, Codes, States
<1>11. CASE VisitLoop
  BY <1>11, IdleTypes DEF VisitLoop, FsmPcs
<1>12. CASE HandleLoop
  <2>1. Event("Timeout", 0) \in Events
    BY IdleTypes DEF Event, Events, EventTypes
  <2> QED BY <1>12, <2>1, EnqueueType, IdleTypes DEF HandleLoop, Codes
<1>13. CASE ClearFlag
  BY <1>13 DEF ClearFlag, CallerPcs
<1>14. CASE EnqueueCall
  <2>1. Kinds \subseteq EventTypes \union {"none"}
    BY ConstantsAssumption DEF Kinds, EventTypes, TimedStates, DataStates
  <2>2. Event(caller.kind, caller.call) \in Events
    BY <1>14, <2>1, ConstantsAssumption
       DEF EnqueueCall, Event, Events, EventTypes, TimedStates, DataStates
  <2> QED BY <1>14, <2>2, EnqueueType DEF EnqueueCall, CallerPcs
<1>15. CASE AwaitReady
  BY <1>15 DEF AwaitReady, CallerPcs
<1>16. CASE AwaitTimeout
  BY <1>16 DEF AwaitTimeout, CallerPcs, Codes
<1>17. CASE ReadResult
  BY <1>17 DEF ReadResult, CallerPcs, Kinds
<1>18. CASE ClearCode
  <2>1. caller.call + 1 \in CallIds
    BY <1>0, <1>18, SMT DEF ClearCode, CallIds
  <2> QED BY <1>18, <2>1 DEF ClearCode, ClearedCode, CallerPcs, Kinds, Codes
<1>19. CASE AppEnqueue
  <2>1. AppEvents \subseteq EventTypes
    BY ConstantsAssumption DEF EventTypes, TimedStates
  <2>2. PICK type \in AppEvents : queue' = Enqueue(queue, Event(type, 0))
    BY <1>19 DEF AppEnqueue
  <2>3. Event(type, 0) \in Events
    BY <2>1, IdleTypes DEF Event, Events
  <2>4. queue' \in Seq(Events) /\ Len(queue') <= QueueSize
    BY <2>2, <2>3, EnqueueType
  <2>5. budget' \in [app : Nat, detect : Nat]
    BY <1>19, SMT DEF AppEnqueue
  <2> QED BY <1>19, <2>4, <2>5 DEF AppEnqueue
<1>20. CASE IsrDetect
  <2>1. Event("Detect", 0) \in Events
    BY IdleTypes DEF Event, Events, EventTypes
  <2>2. queue' \in Seq(Events) /\ Len(queue') <= QueueSize
    BY <1>20, <2>1, EnqueueType DEF IsrDetect
  <2>3. budget' \in [app : Nat, detect : Nat]
    BY <1>20, SMT DEF IsrDetect
  <2> QED BY <1>20, <2>2, <2>3 DEF IsrDetect
<1>21. CASE Expire
  BY <1>21 DEF Expire
<1>22. CASE ReceiveFrame
  <2>1. Head(pending) \in Jobs /\ Tail(pending) \in Seq(Jobs)
    BY <1>22, SMT DEF ReceiveFrame
  <2>2. PICK r \in Replies(Head(pending)) :
          /\ io' = [pc |-> "handle", at |-> current_state, frame |-> r.frame]
          /\ pending' = IF r.step = 0 THEN Tail(pending)
                        ELSE <<[Head(pending) EXCEPT !.step = r.step]>> \o Tail(pending)
          /\ carriedOut' = IF Completes(r) THEN carriedOut \union {r.frame.call}
                           ELSE carriedOut
    BY <1>22 DEF ReceiveFrame
  <2>3. r.frame \in Frames /\ r.step \in 0..6
    BY <2>1, RepliesType
  <2>4. io' \in [pc : IoPcs, at : States, frame : Frames]
    BY <2>2, <2>3 DEF IoPcs
  <2>5. [Head(pending) EXCEPT !.step = r.step] \in Jobs
    BY <2>1, <2>3 DEF Jobs
  <2>6. pending' \in Seq(Jobs)
    BY <2>1, <2>2, <2>5, SMT
  <2>7. carriedOut' \in SUBSET CallIds
    BY <2>2, <2>3 DEF Frames
  <2> QED BY <1>22, <2>4, <2>6, <2>7 DEF ReceiveFrame
<1>23. CASE SensorSilent
  <2>1. pending' \in Seq(Jobs)
    BY <1>23, SMT DEF SensorSilent
  <2> QED BY <1>23, <2>1 DEF SensorSilent, hostVars, history
<1>24. CASE UNCHANGED vars
  BY <1>24 DEF vars, hostVars, history
<1> QED
  BY <1>1, <1>2, <1>3, <1>4, <1>5, <1>6, <1>7, <1>8, <1>9, <1>10, <1>11, <1>12,
     <1>13, <1>14, <1>15, <1>16, <1>17, <1>18, <1>19, <1>20, <1>21, <1>22, <1>23,
     <1>24, Zenon DEF Next, FsmThread, IoThread, CallReturns

\* Every reachable state is typed, and the event queue never exceeds its capacity.
THEOREM TypeCorrect == Spec => []TypeOK
BY InitTypeOK, NextTypeOK, PTL DEF Spec

------------------------------------------------------------------------------
(* A success is never a left-over.                                         *)

\* While lastConfirmationCode reads OK, that OK was accepted after the latest
\* call had cleared it.
CodeIsFresh == lcc = "OK" => caller.call \in okDuring

\* SuccessIsConfirmed is not inductive: what ReadResult returns depends on
\* lastConfirmationCode.
FreshInv == CodeIsFresh /\ SuccessIsConfirmed

\* The code starts as UNKNOWN and no call has returned.
LEMMA InitFresh == Init => FreshInv
BY DEF Init, FreshInv, CodeIsFresh, SuccessIsConfirmed

\* Only ClearCode, HandleData and ReadResult touch what the invariant relates.
LEMMA NextFresh == TypeOK /\ FreshInv /\ [Next]_vars => FreshInv'
<1> SUFFICES ASSUME TypeOK, FreshInv, [Next]_vars PROVE FreshInv'
  OBVIOUS
<1> USE DEF FreshInv, history
<1> DEFINE Quiet == /\ UNCHANGED <<okDuring, results>>
                    /\ caller'.call = caller.call
                    /\ lcc' = lcc \/ lcc' # "OK"
<1>1. ASSUME Quiet PROVE FreshInv'
  BY <1>1 DEF CodeIsFresh, SuccessIsConfirmed
<1>2. CASE HandleData
  <2>1. lcc' = "OK" => \/ lcc = "OK"
                       \/ okDuring' = okDuring \union {caller.call}
    BY <1>2 DEF HandleData, CodeAfter
  <2>2. okDuring \subseteq okDuring' /\ UNCHANGED <<results, caller>>
    BY <1>2 DEF HandleData
  <2> QED BY <2>1, <2>2 DEF CodeIsFresh, SuccessIsConfirmed
<1>3. CASE ReadResult
  <2>1. UNCHANGED <<lcc, okDuring>> /\ caller'.call = caller.call
    BY <1>3 DEF ReadResult, TypeOK
  <2>2. ASSUME NEW c \in 1..MaxCalls, results'[c] = "OK"
        PROVE  c \in okDuring'
    <3>1. CASE c = caller.call
      BY <1>3, <2>1, <2>2, <3>1 DEF ReadResult, CodeIsFresh, TypeOK
    <3>2. CASE c # caller.call
      BY <1>3, <2>1, <2>2, <3>2 DEF ReadResult, SuccessIsConfirmed, TypeOK
    <3> QED BY <3>1, <3>2
  <2> QED BY <2>1, <2>2 DEF CodeIsFresh, SuccessIsConfirmed
<1>4. CASE ClearCode
  <2>1. lcc' = "UNKNOWN" /\ UNCHANGED <<results, okDuring>>
    BY <1>4 DEF ClearCode, ClearedCode
  <2> QED BY <2>1 DEF CodeIsFresh, SuccessIsConfirmed
<1>5. CASE FsmThread
  <2>1. UNCHANGED <<okDuring, results, caller>>
    BY <1>5 DEF FsmThread, Dequeue, DequeueEmpty, Transition, EnterTimed,
                EnterUntimed, EnterReset, ResetReturns, VisitLoop, HandleLoop
  <2>2. lcc' = lcc \/ lcc' # "OK"
    BY <1>5 DEF FsmThread, Dequeue, DequeueEmpty, Transition, EnterTimed,
                EnterUntimed, EnterReset, ResetReturns, VisitLoop, HandleLoop
  <2> QED BY <1>1, <2>1, <2>2
<1>6. CASE IoTransition \/ IoEnter
  BY <1>1, <1>6 DEF IoTransition, IoEnter
<1>7. CASE ClearFlag \/ EnqueueCall \/ AwaitReady \/ AwaitTimeout
  <2>1. caller'.call = caller.call
    BY <1>7 DEF ClearFlag, EnqueueCall, AwaitReady, AwaitTimeout, TypeOK
  <2> QED BY <1>1, <1>7, <2>1 DEF ClearFlag, EnqueueCall, AwaitReady, AwaitTimeout
<1>8. CASE AppEnqueue \/ IsrDetect \/ Expire \/ ReceiveFrame \/ SensorSilent
  BY <1>1, <1>8
     DEF AppEnqueue, IsrDetect, Expire, ReceiveFrame, SensorSilent, hostVars
<1>9. CASE UNCHANGED vars
  BY <1>1, <1>9 DEF vars, hostVars
<1> QED
  BY <1>2, <1>3, <1>4, <1>5, <1>6, <1>7, <1>8, <1>9, Zenon
     DEF Next, IoThread, CallReturns

\* In every environment, races and lost packets included: a call reports ok() only
\* if some success was accepted between its clearReadyFlag and its return.
THEOREM SuccessConfirmed == Spec => []SuccessIsConfirmed
<1>1. Spec => []FreshInv
  BY InitTypeOK, NextTypeOK, InitFresh, NextFresh, PTL DEF Spec
<1>2. FreshInv => SuccessIsConfirmed
  BY DEF FreshInv
<1> QED BY <1>1, <1>2, PTL

================================================================================
